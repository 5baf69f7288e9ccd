--------------------------- MODULE ExecutionProofs ----------------------------
(***************************************************************************)
(* Proofs about Execution: which function a call reaches; what a table     *)
(* scan does with the filters that its ticks bring; and that paging an     *)
(* in-out function's output loses, repeats and reorders nothing.  For any  *)
(* registrations, snapshots, deltas, pages, inputs and page sizes.         *)
(***************************************************************************)
EXTENDS Execution, SequenceTheorems, WellFoundedInduction, TLAPS

-----------------------------------------------------------------------------
(* Dispatch                                                                *)

\* What bind and init decided follows from the name and the call alone.
DispatchInv ==
  /\ meant \in registered
  /\ stage \in {"called", "bound", "running", "refused"}
  /\ stage = "bound" => bound = BindKind /\ meant # "aggregate"
  /\ stage = "running" /\ meant # "aggregate" =>
       bound = BindKind /\ served = InitKind /\ divided = DividesWork

\* The search of a list for a name that is both a table and a buffering function,
\* and nothing else.
LEMMA FirstOfTwo ==
  ASSUME registered = {"table", "buffering"}
  PROVE  /\ FirstOf(<<"in_out", "table", "buffering", "scalar">>) = "table"
         /\ FirstOf(<<"buffering", "in_out", "table", "scalar">>) = "buffering"
         /\ FirstOf(<<"buffering", "table", "in_out", "scalar">>) = "buffering"
<1>1. FirstOf(<<"in_out", "table", "buffering", "scalar">>) = "table"
  <2> DEFINE order == <<"in_out", "table", "buffering", "scalar">>
             found == {i \in DOMAIN order : order[i] \in registered}
  <2>1. found = {2, 3}
    OBVIOUS
  <2>2. (CHOOSE i \in found : \A j \in found : i <= j) = 2
    BY <2>1
  <2>3. order[2] = "table"
    OBVIOUS
  <2>4. QED
    BY <2>1, <2>2, <2>3 DEF FirstOf
<1>2. FirstOf(<<"buffering", "in_out", "table", "scalar">>) = "buffering"
  <2> DEFINE order == <<"buffering", "in_out", "table", "scalar">>
             found == {i \in DOMAIN order : order[i] \in registered}
  <2>1. found = {1, 3}
    OBVIOUS
  <2>2. (CHOOSE i \in found : \A j \in found : i <= j) = 1
    BY <2>1
  <2>3. order[1] = "buffering"
    OBVIOUS
  <2>4. QED
    BY <2>1, <2>2, <2>3 DEF FirstOf
<1>3. FirstOf(<<"buffering", "table", "in_out", "scalar">>) = "buffering"
  <2> DEFINE order == <<"buffering", "table", "in_out", "scalar">>
             found == {i \in DOMAIN order : order[i] \in registered}
  <2>1. found = {1, 2}
    OBVIOUS
  <2>2. (CHOOSE i \in found : \A j \in found : i <= j) = 1
    BY <2>1
  <2>3. order[1] = "buffering"
    OBVIOUS
  <2>4. QED
    BY <2>1, <2>2, <2>3 DEF FirstOf
<1>4. QED
  BY <1>1, <1>2, <1>3

LEMMA DispatchImplies == DispatchInv => WriterAndReaderApart
<1> SUFFICES ASSUME DispatchInv, registered = {"table", "buffering"}, stage = "running"
             PROVE  bound = meant /\ (meant = "buffering" => served = meant /\ ~divided)
  BY DEF WriterAndReaderApart
<1>1. /\ meant \in {"table", "buffering"}
      /\ bound = BindKind /\ served = InitKind /\ divided = DividesWork
  BY DEF DispatchInv
<1>2. meant = "table" => Declared = "table"
  BY DEF Declared
<1>3. meant = "buffering" => Declared = "table_buffering"
  BY DEF Declared
<1>4. BindKind = meant
  BY <1>1, <1>2, <1>3, FirstOfTwo DEF BindKind
<1>5. InitKind = "buffering"
  BY FirstOfTwo DEF InitKind
<1>6. meant = "buffering" => ~DividesWork
  BY <1>3 DEF DividesWork
<1>7. QED
  BY <1>1, <1>4, <1>5, <1>6

LEMMA DispatchStep == DispatchInv /\ [Next]_vars => DispatchInv'
<1> SUFFICES ASSUME DispatchInv, [Next]_vars PROVE DispatchInv'
  OBVIOUS
<1>1. ASSUME UNCHANGED <<registered, meant>>
      PROVE  /\ BindKind' = BindKind /\ InitKind' = InitKind /\ DividesWork' = DividesWork
  BY <1>1 DEF BindKind, InitKind, DividesWork, Declared, FirstOf
<1>2. ASSUME UNCHANGED dvars PROVE DispatchInv'
  BY <1>1, <1>2 DEF dvars, DispatchInv
<1>3. CASE Bind
  BY <1>1, <1>3 DEF Bind, DispatchInv
<1>4. CASE InitCall
  BY <1>1, <1>4 DEF InitCall, DispatchInv
<1>5. CASE AggregateBind
  BY <1>1, <1>5 DEF AggregateBind, DispatchInv
<1>6. QED
  BY <1>2, <1>3, <1>4, <1>5 DEF Next, Exchange, Buffer, Aggregate, Scan, vars

\* Whatever else the worker registers: a COPY format whose reader and writer share
\* a name has its writer bound and run by a COPY TO, which divides no work of the
\* reader (bind's and init's tie-break on the declared function_type).
THEOREM CopyTo == Spec => []WriterAndReaderApart
<1>1. Init => DispatchInv
  BY DEF Init, DispatchInv
<1>2. QED
  BY <1>1, DispatchStep, DispatchImplies, PTL DEF Spec

-----------------------------------------------------------------------------
(* A table scan                                                            *)

\* The conditions in force under an id.
KeptUnder(predicates, i) == {s.keeps : s \in {t \in predicates : t.id = i}}

\* revisions_ holds the highest revision offered of each id, and specs_ what an
\* update of that revision said.
RevisionsOK ==
  /\ DOMAIN revisions = {u.id : u \in offered}
  /\ \A i \in DOMAIN revisions : revisions[i] \in Nat
  /\ \A u \in offered : u.revision \in Nat /\ u.revision <= revisions[u.id]
  /\ \A i \in DOMAIN revisions : \E u \in offered :
       u.id = i /\ u.revision = revisions[i] /\ KeptUnder(specs, i) = u.keeps

\* Every predicate has a revision, and one that is not advisory is required.
SpecsOK ==
  \A s \in specs : s.id \in DOMAIN revisions /\ (~s.advisory => s.id \in required)

\* The first tick settles the validators.
TagsOK ==
  /\ asked \in {0, 1} /\ tag \in S!Tags
  /\ asked = 0 <=> firstTag = "no tick"
  /\ asked = 1 => tag = firstTag

ScanInv == RevisionsOK /\ SpecsOK /\ TagsOK /\ S!RowsAreRight

LEMMA ZeroIsNotOne == 0 # 1
  OBVIOUS

LEMMA ScanImplies == ScanInv => InForce /\ RowsAreRight
<1> SUFFICES ASSUME ScanInv PROVE S!NewestWins /\ S!AskedOfTheFirst /\ S!RowsAreRight
  BY DEF InForce, RowsAreRight
<1>1. S!NewestWins
  <2> SUFFICES ASSUME NEW i \in {u.id : u \in offered}
               PROVE  LET mine == {u \in offered : u.id = i}
                          top == {u \in mine : \A v \in mine : v.revision <= u.revision}
                      IN {s.keeps : s \in {t \in specs : t.id = i}} \in {u.keeps : u \in top}
    BY DEF S!NewestWins
  <2>1. PICK u \in offered :
          u.id = i /\ u.revision = revisions[i] /\ KeptUnder(specs, i) = u.keeps
    BY DEF ScanInv, RevisionsOK
  <2>2. \A v \in offered : v.id = i => v.revision <= u.revision
    BY <2>1 DEF ScanInv, RevisionsOK
  <2>3. QED
    BY <2>1, <2>2 DEF KeptUnder
<1>2. S!AskedOfTheFirst
  BY DEF ScanInv, TagsOK, S!AskedOfTheFirst
<1>3. QED
  BY <1>1, <1>2 DEF ScanInv

LEMMA ScanInit == ASSUME S!TableScanAssumption, S!Init PROVE ScanInv
<1>1. /\ specs \in Snapshots
      /\ revisions = [i \in {s.id : s \in specs} |-> 0]
      /\ offered = {[id |-> s.id, revision |-> 0, keeps |-> {s.keeps}] : s \in specs}
      /\ required = {s.id : s \in {t \in specs : ~t.advisory}}
  BY DEF S!Init
<1>2. RevisionsOK
  <2>1. DOMAIN revisions = {u.id : u \in offered}
    <3> DEFINE Offer(s) == [id |-> s.id, revision |-> 0, keeps |-> {s.keeps}]
    <3>1. \A s : Offer(s).id = s.id
      OBVIOUS
    <3>2. offered = {Offer(s) : s \in specs} /\ DOMAIN revisions = {s.id : s \in specs}
      BY <1>1
    <3> HIDE DEF Offer
    <3>3. QED
      BY <3>1, <3>2
  <2>2. \A i \in DOMAIN revisions : revisions[i] = 0
    BY <1>1
  <2>3. \A u \in offered : u.revision = 0 /\ u.id \in DOMAIN revisions
    BY <1>1
  <2>4. ASSUME NEW i \in DOMAIN revisions
        PROVE  \E u \in offered :
                 u.id = i /\ u.revision = revisions[i] /\ KeptUnder(specs, i) = u.keeps
    <3>1. PICK s \in specs : s.id = i
      BY <1>1
    <3>2. {t \in specs : t.id = i} = {s}
      BY <1>1, <3>1 DEF S!TableScanAssumption
    <3>3. KeptUnder(specs, i) = {s.keeps}
      BY <3>2 DEF KeptUnder
    <3> DEFINE u == [id |-> s.id, revision |-> 0, keeps |-> {s.keeps}]
    <3>4. u \in offered /\ u.id = i /\ u.revision = revisions[i] /\ u.keeps = {s.keeps}
      BY <1>1, <2>2, <3>1
    <3>5. QED
      BY <3>3, <3>4
  <2>5. QED
    BY <2>1, <2>2, <2>3, <2>4 DEF RevisionsOK
<1>3. SpecsOK
  BY <1>1 DEF SpecsOK
<1>4. TagsOK
  <2>1. asked = 0 /\ firstTag = "no tick" /\ tag \in {S!NoTag, "of init"}
    BY DEF S!Init
  <2>2. tag \in S!Tags
    BY <2>1 DEF S!Tags
  <2>3. 0 # 1
    BY ZeroIsNotOne, Zenon
  <2>4. asked \in {0, 1} /\ asked # 1
    BY <2>1, <2>3, Zenon
  <2>5. QED
    BY <2>1, <2>2, <2>4, Zenon DEF TagsOK
<1>5. S!RowsAreRight
  BY DEF S!Init, S!RowsAreRight
<1>6. QED
  BY <1>2, <1>3, <1>4, <1>5 DEF ScanInv

\* What apply_delta makes of a delta it accepts, id by id.
LEMMA Revising ==
  ASSUME S!TableScanAssumption, NEW delta \in Deltas \cup {S!NoDelta},
         ~S!DeltaRefused(delta)
  PROVE  /\ S!Newer(delta) \subseteq delta
         /\ DOMAIN S!Revised(delta)
              = DOMAIN revisions \cup {u.id : u \in S!Newer(delta)}
         /\ \A u \in S!Newer(delta) :
              /\ S!Revised(delta)[u.id] = u.revision
              /\ KeptUnder(S!Respecified(delta), u.id) = u.keeps
         /\ \A i : (\A u \in S!Newer(delta) : u.id # i) =>
              /\ i \in DOMAIN revisions => S!Revised(delta)[i] = revisions[i]
              /\ KeptUnder(S!Respecified(delta), i) = KeptUnder(specs, i)
<1> DEFINE newer == S!Newer(delta)
           ids == {u.id : u \in newer}
           Later(i) == CHOOSE u \in newer : u.id = i
           filters == S!Respecified(delta)
<1>1. newer \subseteq delta /\ \A u, v \in newer : u.id = v.id => u = v
  BY DEF S!Newer, S!DeltaRefused
<1>2. \A u \in newer : \A b, c \in u.keeps : b = c
  BY <1>1 DEF S!TableScanAssumption, S!NoDelta
<1>3. S!Revised(delta) = [i \in DOMAIN revisions \cup ids |->
                            IF \E u \in newer : u.id = i THEN Later(i).revision
                            ELSE revisions[i]]
  BY DEF S!Revised
<1>4. filters = {s \in specs : \A u \in newer : u.id # s.id} \cup S!Upserted(newer)
  BY DEF S!Respecified
<1> HIDE DEF newer, filters
<1>5. \A u \in newer : Later(u.id) = u
  BY <1>1
<1>6. DOMAIN S!Revised(delta) = DOMAIN revisions \cup ids
  BY <1>3
<1>7. ASSUME NEW u \in newer PROVE S!Revised(delta)[u.id] = u.revision
  <2>1. u.id \in ids /\ \E v \in newer : v.id = u.id
    OBVIOUS
  <2>2. Later(u.id).revision = u.revision
    BY <1>5
  <2> HIDE DEF Later
  <2>3. QED
    BY <1>3, <2>1, <2>2
<1>8. ASSUME NEW u \in newer PROVE KeptUnder(filters, u.id) = u.keeps
  <2> DEFINE up(v) == [id |-> v.id, keeps |-> CHOOSE c \in v.keeps : TRUE, advisory |-> TRUE]
  <2>1. \A s : s \in filters /\ s.id = u.id <=> u.keeps # {} /\ s = up(u)
    BY <1>1, <1>4 DEF S!Upserted
  <2>2. CASE u.keeps = {}
    <3>1. {t \in filters : t.id = u.id} = {}
      BY <2>1, <2>2
    <3>2. QED
      BY <2>2, <3>1 DEF KeptUnder
  <2>3. CASE u.keeps # {}
    <3>1. u.keeps = {CHOOSE c \in u.keeps : TRUE}
      BY <1>2, <2>3
    <3>2. {t \in filters : t.id = u.id} = {up(u)}
      BY <2>1, <2>3
    <3>3. up(u).keeps = CHOOSE c \in u.keeps : TRUE
      OBVIOUS
    <3> HIDE DEF up
    <3>4. KeptUnder(filters, u.id) = {up(u).keeps}
      BY <3>2 DEF KeptUnder
    <3>5. QED
      BY <3>1, <3>3, <3>4
  <2>4. QED
    BY <2>2, <2>3
<1>9. ASSUME NEW i, \A u \in newer : u.id # i
      PROVE  /\ i \in DOMAIN revisions => S!Revised(delta)[i] = revisions[i]
             /\ KeptUnder(filters, i) = KeptUnder(specs, i)
  <2>1. {t \in filters : t.id = i} = {t \in specs : t.id = i}
    BY <1>4, <1>9 DEF S!Upserted
  <2>2. QED
    BY <1>3, <1>9, <2>1 DEF KeptUnder
<1>10. QED
  BY <1>1, <1>6, <1>7, <1>8, <1>9 DEF newer, filters

\* A tick that apply_delta accepts leaves each id at its newest revision.
LEMMA RevisionsStep ==
  ASSUME S!TableScanAssumption, RevisionsOK, NEW delta \in Deltas \cup {S!NoDelta},
         ~S!DeltaRefused(delta),
         offered' = offered \cup delta, specs' = S!Respecified(delta),
         revisions' = S!Revised(delta)
  PROVE  RevisionsOK'
<1> DEFINE newer == S!Newer(delta)
           ids == {u.id : u \in newer}
           Said(i, u) == u.id = i /\ u.revision = revisions'[i] /\ KeptUnder(specs', i) = u.keeps
<1>1. /\ newer \subseteq delta /\ DOMAIN revisions' = DOMAIN revisions \cup ids
      /\ \A u \in newer : /\ revisions'[u.id] = u.revision
                          /\ KeptUnder(specs', u.id) = u.keeps
      /\ \A i : (\A u \in newer : u.id # i) =>
           /\ i \in DOMAIN revisions => revisions'[i] = revisions[i]
           /\ KeptUnder(specs', i) = KeptUnder(specs, i)
  BY Revising
<1>2. \A u \in delta : u.revision \in Nat
  BY DEF S!TableScanAssumption, S!NoDelta
<1>3. \A u \in delta :
        u \in newer <=> (u.id \in DOMAIN revisions => u.revision > revisions[u.id])
  BY DEF S!Newer
<1> HIDE DEF newer
<1>4. DOMAIN revisions' = {u.id : u \in offered'}
  <2>1. \A u \in delta : u.id \in DOMAIN revisions \cup ids
    BY <1>3
  <2>2. \A u \in offered : u.id \in DOMAIN revisions
    BY DEF RevisionsOK
  <2>3. \A i \in ids : \E u \in delta : u.id = i
    BY <1>1
  <2>4. \A i \in DOMAIN revisions : \E u \in offered : u.id = i
    BY DEF RevisionsOK
  <2>5. QED
    BY <1>1, <2>1, <2>2, <2>3, <2>4
<1>5. ASSUME NEW i \in DOMAIN revisions' PROVE revisions'[i] \in Nat
  <2>1. CASE i \in ids
    BY <1>1, <1>2, <2>1
  <2>2. CASE i \notin ids
    BY <1>1, <2>2 DEF RevisionsOK
  <2>3. QED
    BY <2>1, <2>2
<1>6. ASSUME NEW u \in offered'
      PROVE  u.revision \in Nat /\ u.revision <= revisions'[u.id]
  <2>1. u.revision \in Nat
    BY <1>2 DEF RevisionsOK
  <2>2. ASSUME NEW v \in newer, v.id = u.id, u \in offered
        PROVE  u.revision <= revisions'[u.id]
    <3>1. /\ u.id \in DOMAIN revisions /\ u.revision <= revisions[u.id]
          /\ revisions[u.id] \in Nat
      BY <2>2 DEF RevisionsOK
    <3>2. revisions'[u.id] = v.revision /\ v.revision > revisions[u.id] /\ v.revision \in Nat
      BY <1>1, <1>2, <1>3, <2>2, <3>1
    <3>3. QED
      BY <2>1, <3>1, <3>2
  <2>3. ASSUME \A v \in newer : v.id # u.id, u \in offered
        PROVE  u.revision <= revisions'[u.id]
    BY <1>1, <2>3 DEF RevisionsOK
  <2>4. ASSUME u \in newer PROVE u.revision <= revisions'[u.id]
    BY <1>1, <2>1, <2>4
  <2>5. ASSUME u \in delta, u \notin newer PROVE u.revision <= revisions'[u.id]
    <3>1. u.id \in DOMAIN revisions /\ ~(u.revision > revisions[u.id])
      BY <1>3, <2>5
    <3>2. revisions[u.id] \in Nat
      BY <3>1 DEF RevisionsOK
    <3>3. CASE \A v \in newer : v.id # u.id
      BY <1>1, <2>1, <3>1, <3>2, <3>3
    <3>4. CASE \E v \in newer : v.id = u.id
      <4>1. PICK v \in newer : v.id = u.id
        BY <3>4
      <4>2. revisions'[u.id] = v.revision /\ v.revision > revisions[u.id]
            /\ v.revision \in Nat
        BY <1>1, <1>2, <1>3, <3>1, <4>1
      <4>3. QED
        BY <2>1, <3>1, <3>2, <4>2
    <3>5. QED
      BY <3>3, <3>4
  <2>6. QED
    BY <2>1, <2>2, <2>3, <2>4, <2>5
<1>7. ASSUME NEW i \in DOMAIN revisions' PROVE \E u \in offered' : Said(i, u)
  <2>1. CASE i \in ids
    BY <1>1, <2>1
  <2>2. CASE i \notin ids
    <3>1. \A u \in newer : u.id # i
      BY <2>2
    <3>2. i \in DOMAIN revisions /\ revisions'[i] = revisions[i]
          /\ KeptUnder(specs', i) = KeptUnder(specs, i)
      BY <1>1, <2>2, <3>1
    <3>3. PICK u \in offered :
            u.id = i /\ u.revision = revisions[i] /\ KeptUnder(specs, i) = u.keeps
      BY <3>2 DEF RevisionsOK
    <3>4. QED
      BY <3>2, <3>3
  <2>3. QED
    BY <2>1, <2>2
<1>8. QED
  BY <1>4, <1>5, <1>6, <1>7 DEF RevisionsOK, KeptUnder

\* A tick of the scan.
LEMMA ScanTick ==
  ASSUME S!TableScanAssumption, ScanInv, NEW delta \in Deltas \cup {S!NoDelta},
         NEW t \in {S!NoTag, "of a tick"}, S!Tick(delta, t)
  PROVE  ScanInv'
<1> DEFINE filters == S!Respecified(delta)
           more == next <= Len(ScanPages)
           page == ScanPages[next]
           rows == IF autoApply THEN S!Applied(filters, page) ELSE page
           passing == {r \in page : \A u \in offered \cup delta :
                                      \A c \in u.keeps : r \in c \/ c = S!Broken}
<1>1. /\ ~S!DeltaRefused(delta) /\ (autoApply /\ more => ~S!ApplyThrows(filters))
      /\ specs' = filters /\ revisions' = S!Revised(delta) /\ offered' = offered \cup delta
      /\ emitted' = IF more THEN emitted \cup rows ELSE emitted
      /\ everKept' = IF more THEN everKept \cup passing ELSE everKept
      /\ autoApply' = autoApply /\ required' = required
  BY DEF S!Tick
<1>2. RevisionsOK'
  BY <1>1, RevisionsStep DEF ScanInv
<1>3. \A s \in filters : s \in specs \/ (s.advisory /\ s.id \in {u.id : u \in S!Newer(delta)})
  <2> TAKE s \in filters
  <2>1. CASE s \in S!Upserted(S!Newer(delta))
    <3>1. PICK u \in S!Newer(delta) :
            s = [id |-> u.id, keeps |-> CHOOSE c \in u.keeps : TRUE, advisory |-> TRUE]
      BY <2>1 DEF S!Upserted
    <3>2. s.advisory = TRUE /\ s.id = u.id
      BY <3>1
    <3>3. QED
      BY <3>2
  <2>2. QED
    BY <2>1 DEF S!Respecified
<1>4. SpecsOK'
  <2>1. DOMAIN revisions' = DOMAIN revisions \cup {u.id : u \in S!Newer(delta)}
    BY <1>1, Revising
  <2> HIDE DEF filters
  <2>2. QED
    BY <1>1, <1>3, <2>1 DEF ScanInv, SpecsOK
<1>5. TagsOK'
  <2>1. /\ tag' = S!HeardTag(t) /\ asked' = IF asked = 0 THEN 1 ELSE asked
        /\ firstTag' = IF firstTag # "no tick" THEN firstTag
                       ELSE IF t # S!NoTag THEN t ELSE tag
    BY DEF S!Tick
  <2>2. 0 # 1 /\ "no tick" \notin S!Tags
    <3>1. 0 # 1
      BY ZeroIsNotOne, Zenon
    <3>2. "no tick" \notin S!Tags
      BY DEF S!Tags, S!NoTag
    <3>3. QED
      BY <3>1, <3>2, Zenon
  <2>3. CASE asked = 0
    <3>1. asked' = 1 /\ tag' = firstTag' /\ tag' \in S!Tags
      BY <2>1, <2>3 DEF ScanInv, TagsOK, S!HeardTag, S!Tags
    <3>2. asked' # 0 /\ firstTag' # "no tick"
      BY <2>2, <3>1, Zenon
    <3>3. QED
      BY <3>1, <3>2, Zenon DEF TagsOK
  <2>4. CASE asked = 1
    <3>1. asked # 0
      BY <2>2, <2>4, Zenon
    <3>2. firstTag # "no tick"
      BY <3>1, Zenon DEF ScanInv, TagsOK
    <3>3. asked' = asked /\ tag' = tag /\ firstTag' = firstTag
      BY <2>1, <3>1, <3>2, Zenon DEF S!HeardTag
    <3>4. QED
      BY <3>3, Zenon DEF ScanInv, TagsOK
  <2>5. QED
    BY <2>3, <2>4, Zenon DEF ScanInv, TagsOK
<1>6. everKept' \subseteq emitted'
  <2>1. everKept \subseteq emitted
    BY DEF ScanInv, S!RowsAreRight
  <2>2. ASSUME more PROVE passing \subseteq rows
    <3> SUFFICES ASSUME autoApply, NEW r \in passing, NEW s \in filters
                 PROVE  r \in s.keeps \/ (s.keeps = S!Broken /\ s.advisory)
      BY DEF S!Applied
    <3>1. s \in specs' /\ s.id \in DOMAIN revisions'
      BY <1>1, <1>4 DEF SpecsOK
    <3>2. PICK u \in offered' : {q.keeps : q \in {p \in specs' : p.id = s.id}} = u.keeps
      BY <1>2, <3>1 DEF RevisionsOK, KeptUnder
    <3>3. s.keeps \in u.keeps /\ u \in offered \cup delta
      BY <1>1, <3>1, <3>2
    <3>4. r \in s.keeps \/ s.keeps = S!Broken
      BY <3>3
    <3>5. s.keeps = S!Broken => s.advisory
      BY <1>1, <2>2 DEF S!ApplyThrows
    <3>6. QED
      BY <3>4, <3>5
  <2> HIDE DEF rows, passing, more
  <2>3. QED
    BY <1>1, <2>1, <2>2
<1>7. ASSUME autoApply', NEW s \in specs', ~s.advisory PROVE emitted' \subseteq s.keeps
  <2>1. s \in filters /\ s \in specs
    BY <1>1, <1>3, <1>7
  <2>2. emitted \subseteq s.keeps
    BY <1>1, <1>7, <2>1 DEF ScanInv, S!RowsAreRight
  <2>3. rows \subseteq s.keeps
    BY <1>1, <1>7, <2>1 DEF S!Applied
  <2> HIDE DEF rows
  <2>4. QED
    BY <1>1, <2>2, <2>3
<1>8. QED
  BY <1>2, <1>4, <1>5, <1>6, <1>7 DEF ScanInv, S!RowsAreRight

LEMMA ScanStep ==
  ASSUME ScanInv, [Next]_vars
  PROVE  ScanInv'
<1>1. S!TableScanAssumption
  BY ExecutionAssumption
<1>2. ASSUME UNCHANGED <<autoApply, specs, revisions, required, tag, asked, emitted,
                         offered, firstTag, everKept>>
      PROVE  ScanInv'
  BY <1>2 DEF ScanInv, RevisionsOK, SpecsOK, TagsOK, KeptUnder, S!RowsAreRight
<1>3. ASSUME UNCHANGED svars PROVE ScanInv'
  BY <1>2, <1>3 DEF svars
<1>4. ASSUME S!Next PROVE ScanInv'
  <2>1. PICK delta \in Deltas \cup {S!NoDelta} :
          (\E t \in {S!NoTag, "of a tick"} : S!Tick(delta, t)) \/ S!TickThrows(delta)
    BY <1>4 DEF S!Next
  <2>2. CASE S!TickThrows(delta)
    BY <1>2, <2>2 DEF S!TickThrows
  <2>3. QED
    BY <1>1, <2>1, <2>2, ScanTick
<1>5. QED
  BY <1>3, <1>4 DEF Next, Bind, InitCall, AggregateBind, Exchange, Buffer, Aggregate, Scan, vars

LEMMA ScanAlways == Spec => []ScanInv
<1>1. Init => ScanInv
  BY ScanInit, ExecutionAssumption DEF Init
<1>2. ScanInv /\ [Next]_vars => ScanInv'
  BY ScanStep
<1>3. QED
  BY <1>1, <1>2, PTL DEF Spec

\* For any snapshot and any deltas, late, repeated or out of order: each predicate
\* is as the newest revision offered of it says, a removed one stays removed, and
\* the producer is asked with the validators of the first tick (apply_delta's
\* revisions_, process's asked_).
THEOREM NewestInForce == Spec => []InForce
  BY ScanAlways, ScanImplies, PTL

\* For the same: no row is lost that every predicate lets through, though some
\* cannot be evaluated, and none is emitted that a required predicate rejects
\* (PushdownFilters::apply, apply_delta's required_ids_).
THEOREM FilteredRows == Spec => []RowsAreRight
  BY ScanAlways, ScanImplies, PTL

-----------------------------------------------------------------------------
(* Least elements                                                          *)

\* A set of naturals has a least one.
LEMMA LeastOf ==
  ASSUME NEW T \in SUBSET Nat, T # {}
  PROVE  \E a \in T : \A b \in T : a <= b
<1>1. PICK a \in T : \A b \in T : ~(<<b, a>> \in OpToRel(<, Nat))
  BY WFMin, NatLessThanWellFounded
<1>2. \A b \in T : ~(b < a)
  BY <1>1 DEF OpToRel
<1>3. QED
  BY <1>2

-----------------------------------------------------------------------------
(* Segments of an input's output                                           *)

\* The output row x of an input comes before position r, o: it is of an earlier
\* input row, or among the first o of r.
IsBefore(x, r, o) == x[1] < r \/ (x[1] = r /\ x[2] < o)

OutputRows(c) == {x \in Nat \X Nat : x[1] \in 1..Len(c) /\ x[2] < c[x[1]]}

\* A position of an input c: of its input row r, o output rows are taken.
Position(c, r, o) ==
  /\ c \in Seq(Nat) /\ r \in 1..(Len(c) + 1) /\ o \in Nat
  /\ o # 0 => r <= Len(c) /\ o < c[r]

\* d is the output of c from position p, q up to r, o, in order.
Segment(d, c, p, q, r, o) ==
  /\ d \in Seq(Nat \X Nat)
  /\ {d[i] : i \in 1..Len(d)} = {x \in OutputRows(c) : ~IsBefore(x, p, q) /\ IsBefore(x, r, o)}
  /\ \A i, j \in 1..Len(d) : i < j => X!Before(d[i], d[j])

LEMMA OutputRowsAre ==
  ASSUME NEW c \in Seq(Nat) PROVE X!AllRows(c) = OutputRows(c)
<1>1. DOMAIN c = 1..Len(c) /\ \A r \in 1..Len(c) : c[r] \in Nat
  OBVIOUS
<1>2. ASSUME NEW x \in X!AllRows(c) PROVE x \in OutputRows(c)
  <2>1. PICK r \in 1..Len(c) : x \in {<<r, i>> : i \in 0..(c[r] - 1)}
    BY <1>1 DEF X!AllRows
  <2>2. PICK i \in 0..(c[r] - 1) : x = <<r, i>>
    BY <2>1
  <2>3. r \in Nat /\ i \in Nat /\ i < c[r]
    BY <1>1
  <2>4. QED
    BY <2>2, <2>3 DEF OutputRows
<1>3. ASSUME NEW x \in OutputRows(c) PROVE x \in X!AllRows(c)
  <2>1. x = <<x[1], x[2]>> /\ x[1] \in DOMAIN c /\ x[2] \in Nat /\ x[2] < c[x[1]]
    BY <1>1 DEF OutputRows
  <2>2. x[2] \in 0..(c[x[1]] - 1)
    BY <1>1, <2>1
  <2>3. x \in {<<x[1], i>> : i \in 0..(c[x[1]] - 1)}
    BY <2>1, <2>2
  <2>4. QED
    BY <2>1, <2>3 DEF X!AllRows
<1>4. QED
  BY <1>2, <1>3

\* Two segments that meet.
LEMMA SegmentsJoin ==
  ASSUME NEW c \in Seq(Nat), NEW d, NEW e,
         NEW p \in Nat, NEW q \in Nat, NEW r \in Nat, NEW o \in Nat, NEW s \in Nat, NEW u \in Nat,
         p < r \/ (p = r /\ q <= o), r < s \/ (r = s /\ o <= u),
         Segment(d, c, p, q, r, o), Segment(e, c, r, o, s, u)
  PROVE  Segment(d \o e, c, p, q, s, u)
<1> DEFINE m == Len(d)
           n == Len(e)
           f == d \o e
           In(x) == ~IsBefore(x, p, q) /\ IsBefore(x, r, o)
           On(x) == ~IsBefore(x, r, o) /\ IsBefore(x, s, u)
<1>1. /\ d \in Seq(Nat \X Nat) /\ e \in Seq(Nat \X Nat) /\ m \in Nat /\ n \in Nat
      /\ {d[i] : i \in 1..m} = {x \in OutputRows(c) : In(x)}
      /\ {e[i] : i \in 1..n} = {x \in OutputRows(c) : On(x)}
      /\ \A i, j \in 1..m : i < j => X!Before(d[i], d[j])
      /\ \A i, j \in 1..n : i < j => X!Before(e[i], e[j])
  BY DEF Segment
<1>2. /\ f \in Seq(Nat \X Nat) /\ Len(f) = m + n
      /\ \A i \in 1..(m + n) : f[i] = IF i <= m THEN d[i] ELSE e[i - m]
  BY <1>1, ConcatProperties
<1> HIDE DEF m, n, f
<1>3. /\ \A i \in 1..m : i \in 1..(m + n) /\ f[i] = d[i]
      /\ \A i \in 1..n : m + i \in 1..(m + n) /\ f[m + i] = e[i]
      /\ \A i \in 1..(m + n) : i \in 1..m \/ (i - m \in 1..n /\ i > m /\ f[i] = e[i - m])
  <2>1. ASSUME NEW i \in 1..m PROVE i \in 1..(m + n) /\ f[i] = d[i]
    <3>1. i \in 1..(m + n) /\ i <= m
      BY <1>1
    <3>2. QED
      BY <1>2, <3>1
  <2>2. ASSUME NEW i \in 1..n PROVE m + i \in 1..(m + n) /\ f[m + i] = e[i]
    <3>1. m + i \in 1..(m + n) /\ ~(m + i <= m) /\ (m + i) - m = i
      BY <1>1
    <3>2. QED
      BY <1>2, <3>1
  <2>3. ASSUME NEW i \in 1..(m + n)
        PROVE  i \in 1..m \/ (i - m \in 1..n /\ i > m /\ f[i] = e[i - m])
    <3>1. i \in 1..m \/ (i - m \in 1..n /\ i > m /\ ~(i <= m))
      BY <1>1
    <3>2. QED
      BY <1>2, <3>1
  <2>4. QED
    BY <2>1, <2>2, <2>3
<1>4. \A x \in OutputRows(c) :
        (~IsBefore(x, p, q) /\ IsBefore(x, s, u)) <=> (In(x) \/ On(x))
  BY DEF IsBefore, OutputRows
<1>5. \A i \in 1..m : d[i] \in OutputRows(c) /\ In(d[i])
  BY <1>1
<1>6. \A i \in 1..n : e[i] \in OutputRows(c) /\ On(e[i])
  BY <1>1
<1>7. \A x \in OutputRows(c) : In(x) => \E i \in 1..m : d[i] = x
  BY <1>1
<1>8. \A x \in OutputRows(c) : On(x) => \E i \in 1..n : e[i] = x
  BY <1>1
<1>9. {f[i] : i \in 1..Len(f)} = {x \in OutputRows(c) : ~IsBefore(x, p, q) /\ IsBefore(x, s, u)}
  <2> HIDE DEF In, On
  <2>1. \A i \in 1..(m + n) : f[i] \in OutputRows(c) /\ (In(f[i]) \/ On(f[i]))
    BY <1>3, <1>5, <1>6
  <2>2. ASSUME NEW x \in OutputRows(c), In(x) \/ On(x)
        PROVE  \E i \in 1..(m + n) : f[i] = x
    <3>1. CASE In(x)
      BY <1>3, <1>7, <3>1
    <3>2. CASE On(x)
      BY <1>3, <1>8, <3>2
    <3>3. QED
      BY <2>2, <3>1, <3>2
  <2>3. QED
    BY <1>2, <1>4, <2>1, <2>2
<1>10. \A x, y \in OutputRows(c) : In(x) /\ On(y) => X!Before(x, y)
  BY DEF IsBefore, OutputRows, X!Before
<1>11. ASSUME NEW i \in 1..(m + n), NEW j \in 1..(m + n), i < j
       PROVE  X!Before(f[i], f[j])
  <2> HIDE DEF In, On
  <2>0. i \in Nat /\ j \in Nat
    BY <1>1
  <2>1. CASE j \in 1..m
    <3>1. i \in 1..m
      BY <1>1, <1>11, <2>0, <2>1
    <3>2. QED
      BY <1>1, <1>3, <1>11, <2>1, <3>1
  <2>2. CASE i \in 1..m /\ j - m \in 1..n /\ f[j] = e[j - m]
    BY <1>3, <1>5, <1>6, <1>10, <2>2
  <2>3. CASE i - m \in 1..n /\ j - m \in 1..n /\ f[i] = e[i - m] /\ f[j] = e[j - m]
    <3>1. i - m < j - m
      BY <1>1, <1>11, <2>0
    <3>2. QED
      BY <1>1, <2>3, <3>1
  <2>4. QED
    BY <1>3, <2>1, <2>2, <2>3
<1>12. QED
  BY <1>2, <1>9, <1>11 DEF Segment, f

\* t rows of input row r, from the one at o.
LEMMA RowsOfOne ==
  ASSUME NEW c \in Seq(Nat), NEW r \in 1..Len(c), NEW o \in Nat, NEW t \in Nat, o + t <= c[r]
  PROVE  LET d == [i \in 1..t |-> <<r, o + i - 1>>]
         IN /\ Segment(d, c, r, o, r, o + t)
            /\ o + t = c[r] => Segment(d, c, r, o, r + 1, 0)
<1> DEFINE d == [i \in 1..t |-> <<r, o + i - 1>>]
<1>1. r \in Nat /\ c[r] \in Nat
  OBVIOUS
<1>2. \A i \in 1..t : o + i - 1 \in Nat /\ o + i - 1 >= o /\ o + i - 1 < o + t /\ o + i - 1 < c[r]
  BY <1>1
<1>3. \A i \in 1..t : d[i] = <<r, o + i - 1>> /\ d[i] \in Nat \X Nat
  BY <1>1, <1>2
<1>4. d \in Seq(Nat \X Nat) /\ Len(d) = t
  <2>1. d \in [1..t -> Nat \X Nat]
    BY <1>3
  <2>2. QED
    BY <2>1
<1> HIDE DEF d
<1>5. \A i \in 1..t : d[i][1] = r /\ d[i][2] = o + i - 1 /\ d[i] \in OutputRows(c)
  BY <1>1, <1>2, <1>3 DEF OutputRows
<1>6. \A i, j \in 1..t : i < j => X!Before(d[i], d[j])
  BY <1>1, <1>5 DEF X!Before
<1>7. ASSUME NEW x \in OutputRows(c), x[1] = r, x[2] >= o, x[2] < o + t
      PROVE  \E i \in 1..t : d[i] = x
  <2>1. x[2] \in Nat /\ x = <<x[1], x[2]>>
    BY DEF OutputRows
  <2>2. x[2] - o + 1 \in 1..t /\ o + (x[2] - o + 1) - 1 = x[2]
    BY <1>7, <2>1
  <2>3. d[x[2] - o + 1] = x
    BY <1>3, <1>7, <2>1, <2>2
  <2>4. QED
    BY <2>2, <2>3
<1>8. \A x \in OutputRows(c) : ~IsBefore(x, r, o) /\ IsBefore(x, r, o + t)
                               <=> x[1] = r /\ x[2] >= o /\ x[2] < o + t
  BY <1>1 DEF IsBefore, OutputRows
<1>9. Segment(d, c, r, o, r, o + t)
  <2>1. {d[i] : i \in 1..t} = {x \in OutputRows(c) : x[1] = r /\ x[2] >= o /\ x[2] < o + t}
    <3>1. \A i \in 1..t : d[i] \in OutputRows(c) /\ d[i][1] = r /\ d[i][2] >= o /\ d[i][2] < o + t
      BY <1>2, <1>5
    <3>2. QED
      BY <1>7, <3>1
  <2>2. QED
    BY <1>4, <1>6, <1>8, <2>1 DEF Segment
<1>10. ASSUME o + t = c[r] PROVE Segment(d, c, r, o, r + 1, 0)
  <2>1. \A x \in OutputRows(c) : IsBefore(x, r, o + t) <=> IsBefore(x, r + 1, 0)
    BY <1>1, <1>10 DEF IsBefore, OutputRows
  <2>2. {x \in OutputRows(c) : ~IsBefore(x, r, o) /\ IsBefore(x, r, o + t)}
        = {x \in OutputRows(c) : ~IsBefore(x, r, o) /\ IsBefore(x, r + 1, 0)}
    BY <2>1
  <2>3. QED
    BY <1>9, <2>2 DEF Segment
<1>11. QED
  BY <1>9, <1>10 DEF d

-----------------------------------------------------------------------------
(* next_page's loop                                                        *)

LEMMA TakesOfPage ==
  ASSUME NEW size \in Nat, NEW s \in X!Pages, ~X!PageEnds(s, size)
  PROVE  X!TakeFromRow(s, size) \in X!Pages
<1> DEFINE k == s.counts[s.row]
           o == s.offset
           l == Len(s.rows)
           left == k - o
           room == size - l
           take == IF left < room THEN left ELSE room
           page == [i \in 1..take |-> <<s.row, o + i - 1>>]
           over == o + take = k
<1>1. /\ s.counts \in Seq(Nat) /\ s.row \in Nat \ {0} /\ o \in Nat
      /\ s.rows \in Seq(Nat \X Nat) /\ s.row <= Len(s.counts) /\ l < size
  BY DEF X!Pages, X!PageEnds
<1>2. k \in Nat /\ l \in Nat
  BY <1>1
<1>3. take \in Int /\ (over \/ take \in Nat)
  <2> HIDE DEF k, o, l
  <2>1. left \in Int /\ room \in Int /\ room > 0
    BY <1>1, <1>2
  <2>2. left < room => over
    BY <1>1, <1>2, <2>1
  <2>3. ~(left < room) => take = room
    OBVIOUS
  <2>4. QED
    BY <2>1, <2>2, <2>3
<1>4. page \in Seq(Nat \X Nat)
  <2>1. PICK n \in Nat : 1..take = 1..n
    <3> HIDE DEF take
    <3>1. take \in Nat \/ 1..take = 1..0
      BY <1>3
    <3>2. QED
      BY <3>1
  <2>2. page \in [1..n -> Nat \X Nat]
    <3>1. \A i \in 1..n : o + i - 1 \in Nat
      BY <1>1
    <3> HIDE DEF take, o
    <3>2. QED
      BY <1>1, <2>1, <3>1
  <2> HIDE DEF page
  <2>3. QED
    BY <2>2
<1>5. s.rows \o page \in Seq(Nat \X Nat)
  <2> HIDE DEF page
  <2>1. QED
    BY <1>1, <1>4, ConcatProperties
<1>6. (IF over THEN s.row + 1 ELSE s.row) \in Nat \ {0}
      /\ (IF over THEN 0 ELSE o + take) \in Nat
  <2> HIDE DEF over, take, o
  <2>1. QED
    BY <1>1, <1>3
<1>7. X!TakeFromRow(s, size) =
        [counts |-> s.counts, rows |-> s.rows \o page,
         row |-> IF over THEN s.row + 1 ELSE s.row,
         offset |-> IF over THEN 0 ELSE o + take]
  BY DEF X!TakeFromRow
<1> HIDE DEF page, over, take
<1>8. QED
  BY <1>1, <1>5, <1>6, <1>7 DEF X!Pages

\* A run of the loop from s to t.
Runs(s, t, size, n, run) ==
  /\ n \in Nat /\ run \in [0..n -> X!Pages] /\ run[0] = s /\ run[n] = t
  /\ X!PageEnds(t, size)
  /\ \A i \in 0..(n - 1) : ~X!PageEnds(run[i], size) /\ run[i + 1] = X!TakeFromRow(run[i], size)
Ends(s, size) == {t \in X!Pages : \E n : \E run : Runs(s, t, size, n, run)}
OneOf(T) == CHOOSE t : t \in T

LEMMA EndIsItself ==
  ASSUME NEW size \in Nat, NEW s \in X!Pages, X!PageEnds(s, size)
  PROVE  Ends(s, size) = {s}
<1>1. s \in Ends(s, size)
  <2> DEFINE run == [i \in 0..0 |-> s]
  <2>1. run \in [0..0 -> X!Pages] /\ run[0] = s /\ 0..(0 - 1) = {}
    OBVIOUS
  <2>2. Runs(s, s, size, 0, run)
    BY <2>1 DEF Runs
  <2>3. QED
    BY <2>2 DEF Ends
<1>2. ASSUME NEW t \in Ends(s, size) PROVE t = s
  <2>1. PICK n, run : Runs(s, t, size, n, run)
    BY DEF Ends
  <2>2. n = 0
    <3>1. n \in Nat /\ run[0] = s /\ \A i \in 0..(n - 1) : ~X!PageEnds(run[i], size)
      BY <2>1 DEF Runs
    <3>2. n # 0 => 0 \in 0..(n - 1)
      BY <3>1
    <3>3. QED
      BY <3>1, <3>2
  <2>3. QED
    BY <2>1, <2>2 DEF Runs
<1>3. QED
  BY <1>1, <1>2

LEMMA EndIsOfTheNext ==
  ASSUME NEW size \in Nat, NEW s \in X!Pages, ~X!PageEnds(s, size)
  PROVE  Ends(s, size) = Ends(X!TakeFromRow(s, size), size)
<1> DEFINE u == X!TakeFromRow(s, size)
<1>1. u \in X!Pages
  BY TakesOfPage
<1> HIDE DEF u
<1>2. ASSUME NEW t \in Ends(s, size) PROVE t \in Ends(u, size)
  <2>1. PICK n, run : Runs(s, t, size, n, run)
    BY DEF Ends
  <2>2. /\ n \in Nat /\ run \in [0..n -> X!Pages] /\ run[0] = s /\ run[n] = t
        /\ X!PageEnds(t, size)
        /\ \A i \in 0..(n - 1) : ~X!PageEnds(run[i], size)
                                 /\ run[i + 1] = X!TakeFromRow(run[i], size)
    BY <2>1 DEF Runs
  <2>3. n # 0 /\ n - 1 \in Nat
    BY <2>2
  <2> DEFINE m == n - 1
             rest == [i \in 0..m |-> run[i + 1]]
  <2>4. \A i \in 0..m : i + 1 \in 0..n
    BY <2>2, <2>3
  <2>5. rest \in [0..m -> X!Pages]
    BY <2>2, <2>4
  <2>6. rest[0] = u
    <3>1. 0 \in 0..(n - 1) /\ 0 \in 0..m /\ 0 + 1 = 1
      BY <2>3
    <3>2. rest[0] = run[1] /\ run[1] = X!TakeFromRow(run[0], size)
      BY <2>2, <3>1
    <3>3. QED
      BY <2>2, <3>2 DEF u
  <2>7. rest[m] = t
    BY <2>2, <2>3
  <2>8. ASSUME NEW i \in 0..(m - 1)
        PROVE  ~X!PageEnds(rest[i], size) /\ rest[i + 1] = X!TakeFromRow(rest[i], size)
    <3>1. i + 1 \in 0..(n - 1) /\ i \in 0..m /\ i + 1 \in 0..m
      BY <2>2, <2>3
    <3>2. rest[i] = run[i + 1] /\ rest[i + 1] = run[(i + 1) + 1]
      BY <3>1
    <3>3. QED
      BY <2>2, <3>1, <3>2
  <2> HIDE DEF rest
  <2>9. Runs(u, t, size, m, rest)
    BY <2>2, <2>3, <2>5, <2>6, <2>7, <2>8 DEF Runs
  <2>10. QED
    BY <2>9 DEF Ends
<1>3. ASSUME NEW t \in Ends(u, size) PROVE t \in Ends(s, size)
  <2>1. PICK m, rest : Runs(u, t, size, m, rest)
    BY DEF Ends
  <2>2. /\ m \in Nat /\ rest \in [0..m -> X!Pages] /\ rest[0] = u /\ rest[m] = t
        /\ X!PageEnds(t, size)
        /\ \A i \in 0..(m - 1) : ~X!PageEnds(rest[i], size)
                                 /\ rest[i + 1] = X!TakeFromRow(rest[i], size)
    BY <2>1 DEF Runs
  <2> DEFINE n == m + 1
             run == [i \in 0..n |-> IF i = 0 THEN s ELSE rest[i - 1]]
  <2>3. n \in Nat /\ \A i \in 0..n : i # 0 => i - 1 \in 0..m
    BY <2>2
  <2>4. run \in [0..n -> X!Pages] /\ run[0] = s
    BY <2>2, <2>3
  <2>5. run[n] = t
    BY <2>2
  <2>6. ASSUME NEW i \in 0..(n - 1)
        PROVE  ~X!PageEnds(run[i], size) /\ run[i + 1] = X!TakeFromRow(run[i], size)
    <3>1. i \in 0..n /\ i + 1 \in 0..n /\ i + 1 # 0 /\ (i + 1) - 1 = i
      BY <2>2
    <3>2. run[i + 1] = rest[i] /\ run[i] = IF i = 0 THEN s ELSE rest[i - 1]
      BY <3>1
    <3>3. CASE i = 0
      BY <2>2, <3>2, <3>3 DEF u
    <3>4. CASE i # 0
      <4>1. i - 1 \in 0..(m - 1) /\ (i - 1) + 1 = i
        BY <2>2, <3>4
      <4>2. QED
        BY <2>2, <3>2, <3>4, <4>1
    <3>5. QED
      BY <3>3, <3>4
  <2> HIDE DEF run
  <2>7. Runs(s, t, size, n, run)
    BY <2>2, <2>3, <2>4, <2>5, <2>6 DEF Runs
  <2>8. QED
    BY <2>7 DEF Ends
<1>4. QED
  BY <1>2, <1>3 DEF u

\* The recursive definition has a solution, so it is one.
LEMMA FillIsALoop ==
  ASSUME NEW size \in Nat, NEW s \in X!Pages
  PROVE  X!Fill(size)[s] = IF X!PageEnds(s, size) THEN s
                           ELSE X!Fill(size)[X!TakeFromRow(s, size)]
<1> DEFINE IsLoop(f) == f = [v \in X!Pages |-> IF X!PageEnds(v, size) THEN v
                                                ELSE f[X!TakeFromRow(v, size)]]
           g == [v \in X!Pages |-> OneOf(Ends(v, size))]
<1>1. X!Fill(size) = CHOOSE f : IsLoop(f)
  BY DEF X!Fill
<1>2. ASSUME NEW v \in X!Pages
      PROVE  g[v] = IF X!PageEnds(v, size) THEN v ELSE g[X!TakeFromRow(v, size)]
  <2>1. CASE X!PageEnds(v, size)
    <3>1. OneOf({v}) = v
      BY DEF OneOf
    <3>2. QED
      BY <2>1, <3>1, EndIsItself
  <2>2. CASE ~X!PageEnds(v, size)
    <3>1. X!TakeFromRow(v, size) \in X!Pages
      BY <2>2, TakesOfPage
    <3>2. Ends(v, size) = Ends(X!TakeFromRow(v, size), size)
      BY <2>2, EndIsOfTheNext
    <3>3. QED
      BY <2>2, <3>1, <3>2
  <2>3. QED
    BY <2>1, <2>2
<1>3. IsLoop(g)
  BY <1>2
<1>4. IsLoop(X!Fill(size))
  <2> HIDE DEF IsLoop
  <2>1. QED
    BY <1>1, <1>3
<1>5. QED
  BY <1>4

\* The loop at s has taken the output of c from p, q up to where s is.
Reading(s, c, p, q) ==
  /\ s \in X!Pages /\ s.counts = c /\ Position(c, s.row, s.offset)
  /\ p < s.row \/ (p = s.row /\ q <= s.offset)
  /\ Segment(s.rows, c, p, q, s.row, s.offset)

\* Input rows left, and room on the page.
Measure(s, size) ==
  (Len(s.counts) + 1 - s.row) + (IF Len(s.rows) < size THEN size - Len(s.rows) ELSE 0)

LEMMA MeasureIsNat ==
  ASSUME NEW size \in Nat, NEW c, NEW p, NEW q, NEW s, Reading(s, c, p, q)
  PROVE  Measure(s, size) \in Nat
<1>1. s.counts \in Seq(Nat) /\ s.row \in 1..(Len(s.counts) + 1) /\ s.rows \in Seq(Nat \X Nat)
  BY DEF Reading, Position, Segment
<1>2. Len(s.counts) \in Nat /\ Len(s.rows) \in Nat
  BY <1>1
<1>3. QED
  BY <1>1, <1>2 DEF Measure

LEMMA OneIteration ==
  ASSUME NEW size \in Nat, NEW c, NEW p \in Nat, NEW q \in Nat, NEW s,
         Reading(s, c, p, q), ~X!PageEnds(s, size)
  PROVE  LET u == X!TakeFromRow(s, size)
         IN Reading(u, c, p, q) /\ Measure(u, size) < Measure(s, size)
<1> DEFINE u == X!TakeFromRow(s, size)
           r == s.row
           o == s.offset
           k == c[r]
           l == Len(s.rows)
           left == k - o
           room == size - l
           take == IF left < room THEN left ELSE room
           page == [i \in 1..take |-> <<r, o + i - 1>>]
           over == o + take = k
<1>1. /\ s \in X!Pages /\ s.counts = c /\ c \in Seq(Nat) /\ r \in 1..Len(c) /\ o \in Nat
      /\ s.rows \in Seq(Nat \X Nat) /\ Segment(s.rows, c, p, q, r, o)
      /\ l < size /\ (o # 0 => o < k) /\ (p < r \/ (p = r /\ q <= o))
  BY DEF Reading, Position, Segment, X!PageEnds
<1>2. k \in Nat /\ l \in Nat /\ r \in Nat /\ Len(c) \in Nat
  BY <1>1
<1>3. u = [counts |-> c, rows |-> s.rows \o page, row |-> IF over THEN r + 1 ELSE r,
           offset |-> IF over THEN 0 ELSE o + take]
  BY <1>1 DEF X!TakeFromRow
<1>4. u \in X!Pages
  BY <1>1, TakesOfPage
<1>5. take \in Nat /\ o + take <= k /\ (over \/ take = room)
  <2> HIDE DEF k, o, l
  <2>1. left \in Nat /\ room \in Nat /\ room > 0 /\ o + left = k
    BY <1>1, <1>2
  <2> HIDE DEF left, room
  <2>2. QED
    BY <1>1, <1>2, <2>1
<1> HIDE DEF k, o, l, r, take, u
<1>6. /\ Segment(page, c, r, o, r, o + take)
      /\ over => Segment(page, c, r, o, r + 1, 0)
  BY <1>1, <1>5, RowsOfOne DEF k
<1>7. page \in Seq(Nat \X Nat) /\ Len(page) = take
  <2>1. page \in Seq(Nat \X Nat)
    BY <1>6 DEF Segment
  <2>2. DOMAIN page = 1..take
    OBVIOUS
  <2>3. QED
    BY <1>5, <2>1, <2>2
<1>8. Len(s.rows \o page) = l + take
  <2> HIDE DEF page
  <2>1. QED
    BY <1>1, <1>7, ConcatProperties DEF l
<1> HIDE DEF page, over
<1>9. CASE over
  <2>1. u.row = r + 1 /\ u.offset = 0 /\ u.rows = s.rows \o page /\ u.counts = c
    BY <1>3, <1>9
  <2>2. Segment(s.rows \o page, c, p, q, r + 1, 0)
    <3>1. r < r + 1 /\ r + 1 \in Nat
      BY <1>2
    <3>2. QED
      BY <1>1, <1>2, <1>6, <1>9, <3>1, SegmentsJoin
  <2>3. Position(c, r + 1, 0) /\ p < r + 1
    BY <1>1, <1>2 DEF Position
  <2>4. Reading(u, c, p, q)
    BY <1>4, <2>1, <2>2, <2>3 DEF Reading
  <2>5. Measure(u, size) < Measure(s, size)
    <3>1. Measure(u, size) = (Len(c) + 1 - (r + 1)) + (IF l + take < size THEN size - (l + take) ELSE 0)
      BY <1>8, <2>1 DEF Measure
    <3>2. Measure(s, size) = (Len(c) + 1 - r) + (size - l)
      BY <1>1 DEF Measure, r, l
    <3>3. QED
      BY <1>1, <1>2, <1>5, <3>1, <3>2
  <2>6. QED
    BY <2>4, <2>5 DEF u
<1>10. CASE ~over
  <2>1. u.row = r /\ u.offset = o + take /\ u.rows = s.rows \o page /\ u.counts = c
    BY <1>3, <1>10
  <2>2. Segment(s.rows \o page, c, p, q, r, o + take)
    <3>1. o + take \in Nat /\ o <= o + take
      BY <1>1, <1>5
    <3>2. QED
      BY <1>1, <1>2, <1>6, <3>1, SegmentsJoin
  <2>3. Position(c, r, o + take) /\ (p < r \/ (p = r /\ q <= o + take))
    <3>1. o + take # k /\ r \in 1..(Len(c) + 1)
      BY <1>1, <1>2, <1>10 DEF over
    <3>2. o + take < k /\ o + take \in Nat /\ r <= Len(c)
      BY <1>1, <1>2, <1>5, <3>1
    <3>3. p = r /\ q <= o => q <= o + take
      BY <1>1, <1>5
    <3>4. QED
      BY <1>1, <3>1, <3>2, <3>3 DEF Position, k
  <2>4. Reading(u, c, p, q)
    BY <1>4, <2>1, <2>2, <2>3 DEF Reading
  <2>5. Measure(u, size) < Measure(s, size)
    <3>1. Measure(u, size) = (Len(c) + 1 - r) + (IF l + take < size THEN size - (l + take) ELSE 0)
      BY <1>8, <2>1 DEF Measure
    <3>2. Measure(s, size) = (Len(c) + 1 - r) + (size - l)
      BY <1>1 DEF Measure, r, l
    <3>3. take = size - l
      BY <1>5, <1>10
    <3>4. QED
      BY <1>1, <1>2, <1>5, <3>1, <3>2, <3>3
  <2>6. QED
    BY <2>4, <2>5 DEF u
<1>11. QED
  BY <1>9, <1>10 DEF u

\* The loop reads on to where it ends.
LEMMA LoopReadsOn ==
  ASSUME NEW size \in Nat, NEW c, NEW p \in Nat, NEW q \in Nat, NEW s, Reading(s, c, p, q)
  PROVE  Reading(X!Fill(size)[s], c, p, q)
<1> DEFINE f == X!Fill(size)
           bad == {n \in Nat : \E v : /\ Reading(v, c, p, q) /\ Measure(v, size) = n
                                      /\ ~Reading(f[v], c, p, q)}
<1>1. SUFFICES bad = {}
  BY MeasureIsNat
<1>2. SUFFICES ASSUME bad # {} PROVE FALSE
  OBVIOUS
<1>3. PICK n \in bad : \A m \in bad : n <= m
  BY <1>2, LeastOf
<1>4. PICK v : Reading(v, c, p, q) /\ Measure(v, size) = n /\ ~Reading(f[v], c, p, q)
  BY <1>3
<1>5. v \in X!Pages
  BY <1>4 DEF Reading
<1>6. f[v] = IF X!PageEnds(v, size) THEN v ELSE f[X!TakeFromRow(v, size)]
  BY <1>5, FillIsALoop
<1> HIDE DEF f
<1>7. ~X!PageEnds(v, size)
  BY <1>4, <1>6
<1> DEFINE u == X!TakeFromRow(v, size)
<1>8. Reading(u, c, p, q) /\ Measure(u, size) < Measure(v, size)
  BY <1>4, <1>7, OneIteration
<1>9. f[v] = f[u]
  BY <1>6, <1>7
<1> HIDE DEF u
<1>10. Measure(u, size) \in Nat /\ n \in Nat
  BY <1>3, <1>8, MeasureIsNat
<1>11. Measure(u, size) \in bad
  BY <1>4, <1>8, <1>9, <1>10
<1>12. QED
  BY <1>3, <1>4, <1>8, <1>10, <1>11

\* A page is the output from where the last one ended, and says whether more
\* follows.
LEMMA PageIsNext ==
  ASSUME NEW size \in Nat, NEW s, Position(s.counts, s.row, s.offset)
  PROVE  LET p == X!NextPage(s, size)
         IN \E r, o :
              /\ p.state = [counts |-> s.counts, row |-> r, offset |-> o]
              /\ Position(s.counts, r, o)
              /\ s.row < r \/ (s.row = r /\ s.offset <= o)
              /\ Segment(p.rows, s.counts, s.row, s.offset, r, o)
              /\ p.more = (r <= Len(s.counts))
<1> DEFINE c == s.counts
           start == [counts |-> c, row |-> s.row, offset |-> s.offset, rows |-> <<>>]
           at == X!Fill(size)[start]
           Stops(r) == /\ r = Len(c) + 1 \/ c[r] # 0
                       /\ \A i \in at.row..(r - 1) : c[i] = 0
           stop == CHOOSE r \in at.row..(Len(c) + 1) : Stops(r)
<1>1. /\ c \in Seq(Nat) /\ s.row \in 1..(Len(c) + 1) /\ s.offset \in Nat /\ Len(c) \in Nat
      /\ \A i \in 1..Len(c) : c[i] \in Nat
  BY DEF Position
<1>2. Reading(start, c, s.row, s.offset)
  <2>1. /\ start \in X!Pages /\ start.counts = c /\ start.row = s.row
        /\ start.offset = s.offset /\ start.rows = <<>>
    BY <1>1 DEF X!Pages
  <2>2. Segment(<<>>, c, s.row, s.offset, s.row, s.offset)
    <3>1. <<>> \in Seq(Nat \X Nat) /\ Len(<<>>) = 0 /\ 1..0 = {}
      OBVIOUS
    <3>2. QED
      BY <3>1 DEF Segment
  <2>3. s.offset <= s.offset
    BY <1>1
  <2> HIDE DEF start
  <2>4. QED
    BY <2>1, <2>2, <2>3 DEF Reading
<1> HIDE DEF start
<1>3. Reading(at, c, s.row, s.offset)
  <2>1. s.row \in Nat
    BY <1>1
  <2>2. QED
    BY <1>1, <1>2, <2>1, LoopReadsOn
<1>4. X!NextPage(s, size) =
        [rows |-> at.rows, more |-> stop <= Len(c),
         state |-> [counts |-> c, row |-> stop, offset |-> at.offset]]
  BY DEF X!NextPage, start
<1> HIDE DEF at
<1>5. /\ at.row \in 1..(Len(c) + 1) /\ at.offset \in Nat
      /\ at.offset # 0 => at.row <= Len(c) /\ at.offset < c[at.row]
      /\ s.row < at.row \/ (s.row = at.row /\ s.offset <= at.offset)
      /\ Segment(at.rows, c, s.row, s.offset, at.row, at.offset)
  BY <1>3 DEF Reading, Position
<1>6. stop \in at.row..(Len(c) + 1) /\ Stops(stop)
  <2> DEFINE T == {r \in at.row..(Len(c) + 1) : r = Len(c) + 1 \/ c[r] # 0}
  <2>1. T \in SUBSET Nat /\ T # {}
    <3>1. Len(c) + 1 \in at.row..(Len(c) + 1)
      BY <1>1, <1>5
    <3>2. at.row..(Len(c) + 1) \subseteq Nat
      BY <1>1, <1>5
    <3>3. QED
      BY <3>1, <3>2
  <2>2. PICK r \in T : \A i \in T : r <= i
    BY <2>1, LeastOf
  <2>3. Stops(r)
    <3>1. r = Len(c) + 1 \/ c[r] # 0
      OBVIOUS
    <3>2. ASSUME NEW i \in at.row..(r - 1) PROVE c[i] = 0
      <4>1. i \in at.row..(Len(c) + 1) /\ i < r /\ i \in Nat /\ r \in Nat
        BY <1>1, <1>5
      <4>2. i \notin T
        BY <2>2, <4>1
      <4>3. QED
        BY <4>1, <4>2
    <3>3. QED
      BY <3>1, <3>2
  <2> HIDE DEF Stops
  <2>4. r \in at.row..(Len(c) + 1)
    OBVIOUS
  <2>5. QED
    BY <2>3, <2>4
<1> HIDE DEF stop
<1>7. stop \in 1..(Len(c) + 1) /\ stop \in Nat /\ at.row \in Nat /\ at.row <= stop
  BY <1>1, <1>5, <1>6
<1>8. at.row < stop => at.offset = 0
  <2> SUFFICES ASSUME at.row < stop PROVE at.offset = 0
    OBVIOUS
  <2>1. at.row \in at.row..(stop - 1) /\ at.row \in 1..Len(c)
    BY <1>1, <1>5, <1>7
  <2>2. c[at.row] = 0
    BY <1>6, <2>1
  <2>3. QED
    BY <1>5, <2>2
<1>9. Position(c, stop, at.offset)
  <2>1. at.offset # 0 => stop = at.row
    BY <1>7, <1>8
  <2>2. QED
    BY <1>1, <1>5, <1>7, <2>1 DEF Position
<1>10. s.row < stop \/ (s.row = stop /\ s.offset <= at.offset)
  BY <1>1, <1>5, <1>7, <1>8
<1>11. Segment(at.rows, c, s.row, s.offset, stop, at.offset)
  <2>1. ASSUME NEW x \in OutputRows(c)
        PROVE  IsBefore(x, at.row, at.offset) <=> IsBefore(x, stop, at.offset)
    <3>1. x[1] \in 1..Len(c) /\ x[2] \in Nat /\ x[2] < c[x[1]] /\ x[1] \in Nat
      BY DEF OutputRows
    <3>2. CASE at.row = stop
      BY <3>2
    <3>3. CASE at.row < stop
      <4>1. at.offset = 0
        BY <1>8, <3>3
      <4>2. ~(x[1] \in at.row..(stop - 1))
        <5>1. c[x[1]] # 0
          BY <1>1, <3>1
        <5>2. QED
          BY <1>6, <5>1
      <4>3. x[1] < at.row <=> x[1] < stop
        BY <1>7, <3>1, <3>3, <4>2
      <4>4. QED
        BY <3>1, <4>1, <4>3 DEF IsBefore
    <3>4. QED
      BY <1>7, <3>2, <3>3
  <2>2. {x \in OutputRows(c) : ~IsBefore(x, s.row, s.offset) /\ IsBefore(x, at.row, at.offset)}
        = {x \in OutputRows(c) : ~IsBefore(x, s.row, s.offset) /\ IsBefore(x, stop, at.offset)}
    BY <2>1
  <2>3. QED
    BY <1>5, <2>2 DEF Segment
<1>12. LET p == X!NextPage(s, size)
       IN /\ p.state = [counts |-> c, row |-> stop, offset |-> at.offset]
          /\ p.rows = at.rows /\ p.more = (stop <= Len(c))
  BY <1>4
<1>13. QED
  BY <1>9, <1>10, <1>11, <1>12

-----------------------------------------------------------------------------
(* Merging the batches of a turn                                           *)

IsFlat(seqs, n, f) == f = [i \in 1..n |-> IF i = 1 THEN seqs[i] ELSE f[i - 1] \o seqs[i]]

LEMMA FlatExists == ASSUME NEW seqs, NEW n \in Nat PROVE \E f : IsFlat(seqs, n, f)
<1> DEFINE bad == {m \in Nat : ~\E f : IsFlat(seqs, m, f)}
<1>1. SUFFICES ASSUME bad # {} PROVE FALSE
  OBVIOUS
<1>2. PICK m \in bad : \A k \in bad : m <= k
  BY <1>1, LeastOf
<1>3. m # 0
  <2>1. IsFlat(seqs, 0, [i \in 1..0 |-> seqs])
    <3>1. 1..0 = {}
      OBVIOUS
    <3>2. QED
      BY <3>1 DEF IsFlat
  <2>2. QED
    BY <2>1
<1>4. m - 1 \in Nat /\ ~(m <= m - 1)
  BY <1>3
<1>5. PICK f : IsFlat(seqs, m - 1, f)
  BY <1>2, <1>4
<1> DEFINE g == [i \in 1..m |-> IF i = 1 THEN seqs[i] ELSE f[i - 1] \o seqs[i]]
<1>6. ASSUME NEW i \in 1..m, i # 1 PROVE g[i - 1] = f[i - 1]
  <2>1. i - 1 \in 1..m /\ i - 1 \in 1..(m - 1)
    BY <1>6, <1>4
  <2>2. f[i - 1] = IF i - 1 = 1 THEN seqs[i - 1] ELSE f[(i - 1) - 1] \o seqs[i - 1]
    BY <1>5, <2>1 DEF IsFlat
  <2>3. g[i - 1] = IF i - 1 = 1 THEN seqs[i - 1] ELSE f[(i - 1) - 1] \o seqs[i - 1]
    BY <2>1
  <2>4. QED
    BY <2>2, <2>3
<1>7. \A i \in 1..m : g[i] = IF i = 1 THEN seqs[i] ELSE g[i - 1] \o seqs[i]
  <2> TAKE i \in 1..m
  <2>1. g[i] = IF i = 1 THEN seqs[i] ELSE f[i - 1] \o seqs[i]
    OBVIOUS
  <2> HIDE DEF g
  <2>2. QED
    BY <1>6, <2>1
<1>8. DOMAIN g = 1..m /\ g = [i \in DOMAIN g |-> g[i]]
  OBVIOUS
<1> HIDE DEF g
<1>9. IsFlat(seqs, m, g)
  BY <1>7, <1>8 DEF IsFlat
<1>10. QED
  BY <1>2, <1>9

LEMMA FlatOfNone ==
  ASSUME NEW T, NEW seqs \in [1..0 -> Seq(T)] PROVE X!FlattenSeq(seqs) = <<>>
<1>1. seqs \in Seq(Seq(T)) /\ Len(seqs) = 0
  OBVIOUS
<1>2. X!FlattenSeq(seqs) = seqs
  BY <1>1 DEF X!FlattenSeq
<1>3. seqs = <<>>
  BY <1>1
<1>4. QED
  BY <1>2, <1>3

\* f holds the first i of n sequences joined, for every i, the whole last.
Joined(f, seqs, n) ==
  /\ f[1] = seqs[1] /\ \A i \in 2..n : f[i] = f[i - 1] \o seqs[i]
  /\ X!FlattenSeq(seqs) = f[n]

\* FlattenSeq joins one sequence after the other.
LEMMA Flattening ==
  ASSUME NEW T, NEW n \in Nat, n # 0, NEW seqs \in [1..n -> Seq(T)]
  PROVE  \E f \in [1..n -> Seq(T)] : Joined(f, seqs, n)
<1>1. seqs \in Seq(Seq(T)) /\ Len(seqs) = n
  OBVIOUS
<1> DEFINE f == CHOOSE g : IsFlat(seqs, n, g)
<1>2. X!FlattenSeq(seqs) = f[n]
  BY <1>1 DEF X!FlattenSeq, IsFlat
<1>3. IsFlat(seqs, n, f)
  BY FlatExists
<1> HIDE DEF f
<1>4. /\ f = [i \in 1..n |-> f[i]]
      /\ \A i \in 1..n : f[i] = IF i = 1 THEN seqs[i] ELSE f[i - 1] \o seqs[i]
  <2>1. f = [i \in 1..n |-> IF i = 1 THEN seqs[i] ELSE f[i - 1] \o seqs[i]]
    BY <1>3 DEF IsFlat
  <2>2. QED
    BY <2>1
<1>5. f[1] = seqs[1] /\ \A i \in 2..n : f[i] = f[i - 1] \o seqs[i]
  <2>1. 1 \in 1..n /\ \A i \in 2..n : i \in 1..n /\ i # 1
    OBVIOUS
  <2>2. QED
    BY <1>4, <2>1
<1>6. \A i \in 1..n : f[i] \in Seq(T)
  <2> DEFINE bad == {i \in 1..n : f[i] \notin Seq(T)}
  <2>1. SUFFICES ASSUME bad # {} PROVE FALSE
    OBVIOUS
  <2>2. PICK i \in bad : \A j \in bad : i <= j
    <3>1. bad \in SUBSET Nat
      OBVIOUS
    <3>2. QED
      BY <2>1, <3>1, LeastOf
  <2>3. i \in 2..n /\ i - 1 \in 1..n /\ ~(i <= i - 1)
    <3>1. i # 1
      BY <1>5, <2>2
    <3>2. QED
      BY <2>2, <3>1
  <2>4. f[i - 1] \in Seq(T) /\ seqs[i] \in Seq(T) /\ f[i] = f[i - 1] \o seqs[i]
    BY <1>5, <2>2, <2>3
  <2>5. f[i] \in Seq(T)
    BY <2>4, ConcatProperties
  <2>6. QED
    BY <2>2, <2>5
<1>7. f \in [1..n -> Seq(T)]
  BY <1>4, <1>6
<1>8. QED
  BY <1>2, <1>5, <1>7 DEF Joined

LEMMA FlatOfOne ==
  ASSUME NEW T, NEW d \in Seq(T) PROVE X!FlattenSeq(<<d>>) = d
<1>1. <<d>> \in [1..1 -> Seq(T)] /\ <<d>>[1] = d
  OBVIOUS
<1> DEFINE s == <<d>>
<1> HIDE DEF s
<1>2. PICK f \in [1..1 -> Seq(T)] : Joined(f, s, 1)
  <2>1. 1 \in Nat /\ 1 # 0 /\ s \in [1..1 -> Seq(T)]
    BY <1>1 DEF s
  <2>2. QED
    BY <2>1, Flattening
<1>3. QED
  BY <1>1, <1>2 DEF s, Joined

\* The input rows that output rows came from.
Firsts(d) == [i \in DOMAIN d |-> d[i][1]]

LEMMA FirstsConcat ==
  ASSUME NEW d \in Seq(Nat \X Nat), NEW e \in Seq(Nat \X Nat)
  PROVE  /\ Firsts(d) \in Seq(Nat) /\ Len(Firsts(d)) = Len(d)
         /\ Firsts(d \o e) = Firsts(d) \o Firsts(e)
<1> DEFINE m == Len(d)
           n == Len(e)
<1>1. m \in Nat /\ n \in Nat /\ DOMAIN d = 1..m /\ DOMAIN e = 1..n
  OBVIOUS
<1>2. /\ \A i \in 1..m : d[i][1] \in Nat
      /\ \A i \in 1..n : e[i][1] \in Nat
  <2>1. /\ \A i \in 1..m : d[i] \in Nat \X Nat
        /\ \A i \in 1..n : e[i] \in Nat \X Nat
    OBVIOUS
  <2>2. QED
    BY <2>1
<1> HIDE DEF m, n
<1>3. Firsts(d) \in Seq(Nat) /\ Len(Firsts(d)) = m /\ \A i \in 1..m : Firsts(d)[i] = d[i][1]
  <2>1. Firsts(d) \in [1..m -> Nat]
    BY <1>1, <1>2 DEF Firsts
  <2>2. QED
    BY <1>1, <2>1 DEF Firsts
<1>4. Firsts(e) \in Seq(Nat) /\ Len(Firsts(e)) = n /\ \A i \in 1..n : Firsts(e)[i] = e[i][1]
  <2>1. Firsts(e) \in [1..n -> Nat]
    BY <1>1, <1>2 DEF Firsts
  <2>2. QED
    BY <1>1, <2>1 DEF Firsts
<1> DEFINE f == d \o e
           g == Firsts(d) \o Firsts(e)
<1>5. /\ f \in Seq(Nat \X Nat) /\ Len(f) = m + n
      /\ \A i \in 1..(m + n) : f[i] = IF i <= m THEN d[i] ELSE e[i - m]
  BY ConcatProperties DEF m, n
<1>6. /\ g \in Seq(Nat) /\ Len(g) = m + n
      /\ \A i \in 1..(m + n) : g[i] = IF i <= m THEN Firsts(d)[i] ELSE Firsts(e)[i - m]
  BY <1>3, <1>4, ConcatProperties
<1> HIDE DEF f, g
<1>7. ASSUME NEW i \in 1..(m + n) PROVE g[i] = f[i][1]
  <2>1. i <= m => i \in 1..m
    BY <1>1
  <2>2. ~(i <= m) => i - m \in 1..n
    BY <1>1
  <2>3. QED
    BY <1>3, <1>4, <1>5, <1>6, <2>1, <2>2
<1>8. DOMAIN f = 1..(m + n) /\ DOMAIN g = 1..(m + n) /\ g = [i \in 1..(m + n) |-> g[i]]
  BY <1>5, <1>6
<1>9. Firsts(f) = g
  BY <1>7, <1>8 DEF Firsts
<1>10. QED
  BY <1>3, <1>9 DEF f, g, m

LEMMA FlatFirsts ==
  ASSUME NEW n \in Nat, NEW rows \in [1..n -> Seq(Nat \X Nat)]
  PROVE  /\ X!FlattenSeq(rows) \in Seq(Nat \X Nat)
         /\ X!FlattenSeq([i \in 1..n |-> Firsts(rows[i])]) = Firsts(X!FlattenSeq(rows))
<1> DEFINE heads == [i \in 1..n |-> Firsts(rows[i])]
<1>1. heads \in [1..n -> Seq(Nat)] /\ \A i \in 1..n : heads[i] = Firsts(rows[i])
  <2>1. \A i \in 1..n : Firsts(rows[i]) \in Seq(Nat)
    BY FirstsConcat
  <2>2. QED
    BY <2>1
<1> HIDE DEF heads
<1>2. CASE n = 0
  <2>1. X!FlattenSeq(rows) = <<>> /\ X!FlattenSeq(heads) = <<>>
    <3>1. rows \in [1..0 -> Seq(Nat \X Nat)] /\ heads \in [1..0 -> Seq(Nat)]
      BY <1>1, <1>2
    <3>2. QED
      BY <3>1, FlatOfNone
  <2>2. Firsts(<<>>) = <<>> /\ <<>> \in Seq(Nat \X Nat)
    BY DEF Firsts
  <2>3. QED
    BY <2>1, <2>2 DEF heads
<1>3. CASE n # 0
  <2>1. PICK f \in [1..n -> Seq(Nat \X Nat)] :
          /\ f[1] = rows[1] /\ \A i \in 2..n : f[i] = f[i - 1] \o rows[i]
          /\ X!FlattenSeq(rows) = f[n]
    <3> DEFINE T == Nat \X Nat
    <3>1. rows \in [1..n -> Seq(T)]
      OBVIOUS
    <3> HIDE DEF T
    <3>2. \E f \in [1..n -> Seq(T)] : Joined(f, rows, n)
      BY <1>3, <3>1, Flattening
    <3>3. QED
      BY <3>2 DEF T, Joined
  <2>2. PICK g \in [1..n -> Seq(Nat)] :
          /\ g[1] = heads[1] /\ \A i \in 2..n : g[i] = g[i - 1] \o heads[i]
          /\ X!FlattenSeq(heads) = g[n]
    <3> DEFINE T == Nat
    <3>1. heads \in [1..n -> Seq(T)]
      BY <1>1
    <3> HIDE DEF T
    <3>2. \E g \in [1..n -> Seq(T)] : Joined(g, heads, n)
      BY <1>1, <1>3, <3>1, Flattening
    <3>3. QED
      BY <3>2 DEF T, Joined
  <2>3. \A i \in 1..n : g[i] = Firsts(f[i])
    <3> DEFINE bad == {i \in 1..n : g[i] # Firsts(f[i])}
    <3>1. SUFFICES ASSUME bad # {} PROVE FALSE
      OBVIOUS
    <3>2. PICK i \in bad : \A j \in bad : i <= j
      <4>1. bad \in SUBSET Nat
        OBVIOUS
      <4>2. QED
        BY <3>1, <4>1, LeastOf
    <3>3. i \in 2..n /\ i - 1 \in 1..n /\ ~(i <= i - 1) /\ i \in 1..n
      <4>1. 1 \in 1..n
        BY <1>3
      <4>2. i # 1
        BY <1>1, <2>1, <2>2, <3>2, <4>1
      <4>3. QED
        BY <3>2, <4>2
    <3>4. g[i - 1] = Firsts(f[i - 1])
      BY <3>2, <3>3
    <3>5. f[i] = f[i - 1] \o rows[i] /\ g[i] = Firsts(f[i - 1]) \o Firsts(rows[i])
      BY <1>1, <2>1, <2>2, <3>3, <3>4
    <3>6. f[i - 1] \in Seq(Nat \X Nat) /\ rows[i] \in Seq(Nat \X Nat)
      BY <3>3
    <3>7. g[i] = Firsts(f[i])
      BY <3>5, <3>6, FirstsConcat
    <3>8. QED
      BY <3>2, <3>7
  <2>4. n \in 1..n
    BY <1>3
  <2>5. QED
    BY <2>1, <2>2, <2>3, <2>4 DEF heads
<1>4. QED
  BY <1>2, <1>3

-----------------------------------------------------------------------------
(* The exchange                                                            *)

Whole(d, c) == Segment(d, c, 1, 0, Len(c) + 1, 0)

\* Pending output is of the last input, and continues where its rows end.
PendingOK ==
  /\ fn.kind = "paged" /\ Len(sent) # 0
  /\ state.counts = sent[Len(sent)]
  /\ Position(state.counts, state.row, state.offset)
  /\ Segment(got[Len(sent)], state.counts, 1, 0, state.row, state.offset)

ExchangeInv ==
  /\ fn \in X!Functions /\ morePending \in BOOLEAN
  /\ sent \in Seq(Inputs) /\ got \in Seq(Seq(Nat \X Nat)) /\ parents \in Seq(Seq(Nat))
  /\ Len(got) = Len(sent) /\ Len(parents) = Len(sent)
  /\ \A k \in 1..Len(sent) : fn.annotated => parents[k] = Firsts(got[k])
  /\ \A k \in 1..Len(sent) : k < Len(sent) \/ ~morePending => Whole(got[k], sent[k])
  /\ morePending => PendingOK

LEMMA ExchangeImplies ==
  ASSUME ExchangeInv, Inputs \subseteq Seq(Nat) PROVE OutputIsWhole
<1> SUFFICES ASSUME NEW k \in DOMAIN sent
             PROVE  /\ fn.annotated => parents[k] = Firsts(got[k])
                    /\ \A i, j \in DOMAIN got[k] : i < j => X!Before(got[k][i], got[k][j])
                    /\ \A x \in X!Range(got[k]), y \in X!AllRows(sent[k]) :
                         X!Before(y, x) => y \in X!Range(got[k])
                    /\ X!Range(got[k]) \subseteq X!AllRows(sent[k])
                    /\ k < Len(sent) \/ ~morePending =>
                         X!Range(got[k]) = X!AllRows(sent[k])
  BY DEF OutputIsWhole, X!OutputIsWhole, X!ParentsNameTheirRows, Firsts
<1> DEFINE d == got[k]
           c == sent[k]
<1>1. k \in 1..Len(sent) /\ k \in Nat /\ Len(sent) \in Nat /\ c \in Seq(Nat)
  BY DEF ExchangeInv
<1>2. PICK r \in Nat, o \in Nat :
        /\ Segment(d, c, 1, 0, r, o)
        /\ k < Len(sent) \/ ~morePending => r = Len(c) + 1 /\ o = 0
  <2>1. CASE k < Len(sent) \/ ~morePending
    <3>1. Segment(d, c, 1, 0, Len(c) + 1, 0)
      BY <1>1, <2>1 DEF ExchangeInv, Whole
    <3>2. Len(c) + 1 \in Nat /\ 0 \in Nat
      BY <1>1
    <3>3. QED
      BY <3>1, <3>2
  <2>2. CASE ~(k < Len(sent)) /\ morePending
    <3>1. k = Len(sent)
      BY <1>1, <2>2
    <3>2. /\ Segment(d, c, 1, 0, state.row, state.offset)
          /\ Position(c, state.row, state.offset)
      BY <2>2, <3>1 DEF ExchangeInv, PendingOK
    <3>3. state.row \in Nat /\ state.offset \in Nat
      BY <1>1, <3>2 DEF Position
    <3>4. QED
      BY <2>2, <3>2, <3>3
  <2>3. QED
    BY <2>1, <2>2
<1>3. fn.annotated => parents[k] = Firsts(d)
  BY <1>1 DEF ExchangeInv
<1> HIDE DEF d, c
<1>4. DOMAIN d = 1..Len(d) /\ X!AllRows(c) = OutputRows(c)
  BY <1>1, <1>2, OutputRowsAre DEF Segment
<1>5. X!Range(d) = {x \in OutputRows(c) : ~IsBefore(x, 1, 0) /\ IsBefore(x, r, o)}
  BY <1>2, <1>4 DEF X!Range, Segment
<1>6. \A x \in OutputRows(c) : ~IsBefore(x, 1, 0)
  BY <1>1 DEF OutputRows, IsBefore
<1>7. X!Range(d) = {x \in OutputRows(c) : IsBefore(x, r, o)}
  BY <1>5, <1>6
<1>8. \A x, y \in OutputRows(c) : IsBefore(x, r, o) /\ X!Before(y, x) => IsBefore(y, r, o)
  BY DEF OutputRows, IsBefore, X!Before
<1>9. ASSUME k < Len(sent) \/ ~morePending PROVE \A x \in OutputRows(c) : IsBefore(x, r, o)
  BY <1>1, <1>2, <1>9 DEF OutputRows, IsBefore
<1>10. \A i, j \in DOMAIN d : i < j => X!Before(d[i], d[j])
  BY <1>2, <1>4 DEF Segment
<1>11. /\ \A x \in X!Range(d), y \in X!AllRows(c) : X!Before(y, x) => y \in X!Range(d)
       /\ X!Range(d) \subseteq X!AllRows(c)
       /\ k < Len(sent) \/ ~morePending => X!Range(d) = X!AllRows(c)
  BY <1>4, <1>7, <1>8, <1>9
<1>12. QED
  BY <1>3, <1>10, <1>11 DEF d, c
LEMMA ExchangeInit == ASSUME X!Init PROVE ExchangeInv
<1>1. /\ fn \in X!Functions /\ morePending = FALSE
      /\ sent = <<>> /\ got = <<>> /\ parents = <<>>
  BY DEF X!Init
<1>2. /\ <<>> \in Seq(Inputs) /\ <<>> \in Seq(Seq(Nat \X Nat)) /\ <<>> \in Seq(Seq(Nat))
      /\ Len(<<>>) = 0 /\ 1..0 = {}
  OBVIOUS
<1>3. QED
  BY <1>1, <1>2 DEF ExchangeInv

\* What a turn's one batch holds of it.
MergedRows(items) == X!Concat(items, LAMBDA item : item.rows)

\* A turn of one batch answers with that batch.
LEMMA OneBatch ==
  ASSUME fn \in X!Functions, NEW d \in Seq(Nat \X Nat), NEW first, NEW more \in BOOLEAN
  PROVE  LET items == <<X!Emitted(d, first, more)>>
         IN /\ MergedRows(items) = d
            /\ X!MergedParents(items) = IF fn.annotated THEN Firsts(d) ELSE <<>>
            /\ X!More(items) = more
<1> DEFINE e == X!Emitted(d, first, more)
           items == <<e>>
<1>1. /\ e.rows = d /\ e.more = more /\ e.annotated = fn.annotated
      /\ fn.annotated => e.parents = Firsts(d)
  BY DEF X!Emitted, Firsts
<1> HIDE DEF e
<1>2. DOMAIN items = {1} /\ items[1] = e
  OBVIOUS
<1>3. [i \in DOMAIN items |-> items[i].rows] = <<d>>
  BY <1>1, <1>2
<1>4. MergedRows(items) = d
  <2>1. MergedRows(items) = X!FlattenSeq(<<d>>)
    BY <1>3 DEF MergedRows, X!Concat
  <2>2. QED
    BY <2>1, FlatOfOne
<1>5. ASSUME fn.annotated PROVE X!MergedParents(items) = Firsts(d)
  <2>1. [i \in DOMAIN items |-> X!ParentsOf(items[i])] = <<Firsts(d)>>
    <3>1. X!ParentsOf(e) = Firsts(d)
      BY <1>1, <1>5 DEF X!ParentsOf
    <3>2. QED
      BY <1>2, <3>1
  <2>2. X!MergedParents(items) = X!FlattenSeq(<<Firsts(d)>>)
    BY <1>1, <1>2, <1>5, <2>1 DEF X!MergedParents, X!Concat
  <2>3. Firsts(d) \in Seq(Nat)
    BY FirstsConcat
  <2>4. QED
    BY <2>2, <2>3, FlatOfOne
<1>6. ASSUME ~fn.annotated PROVE X!MergedParents(items) = <<>>
  BY <1>1, <1>2, <1>6 DEF X!MergedParents
<1>7. X!More(items) = more
  BY <1>1, <1>2 DEF X!More
<1>8. QED
  BY <1>4, <1>5, <1>6, <1>7 DEF e

\* The output of the first input rows, joined row after row.
LEMMA RowsJoin ==
  ASSUME NEW c \in Seq(Nat)
  PROVE  LET each == [r \in 1..Len(c) |-> [i \in 1..c[r] |-> <<r, i - 1>>]]
         IN each \in [1..Len(c) -> Seq(Nat \X Nat)] /\ Whole(X!FlattenSeq(each), c)
<1> DEFINE n == Len(c)
           each == [r \in 1..n |-> [i \in 1..c[r] |-> <<r, i - 1>>]]
<1>1. n \in Nat /\ \A r \in 1..n : c[r] \in Nat
  OBVIOUS
<1>2. ASSUME NEW r \in 1..n PROVE Segment(each[r], c, r, 0, r + 1, 0)
  <2>1. 0 \in Nat /\ 0 + c[r] <= c[r] /\ 0 + c[r] = c[r] /\ c[r] \in Nat
    BY <1>1
  <2>2. Segment([i \in 1..c[r] |-> <<r, 0 + i - 1>>], c, r, 0, r + 1, 0)
    BY <2>1, RowsOfOne
  <2>3. \A i \in 1..c[r] : 0 + i - 1 = i - 1
    BY <1>1
  <2>4. [i \in 1..c[r] |-> <<r, 0 + i - 1>>] = [i \in 1..c[r] |-> <<r, i - 1>>]
    BY <2>3
  <2>5. QED
    BY <2>2, <2>4
<1>3. each \in [1..n -> Seq(Nat \X Nat)]
  <2>1. \A r \in 1..n : each[r] \in Seq(Nat \X Nat)
    BY <1>2 DEF Segment
  <2>2. each = [r \in 1..n |-> each[r]]
    OBVIOUS
  <2> HIDE DEF each
  <2>3. QED
    BY <2>1, <2>2
<1> HIDE DEF each, n
<1>4. CASE n = 0
  <2>1. X!FlattenSeq(each) = <<>>
    <3> DEFINE T == Nat \X Nat
    <3>1. each \in [1..0 -> Seq(T)]
      BY <1>3, <1>4
    <3> HIDE DEF T
    <3>2. QED
      BY <3>1, FlatOfNone
  <2>2. OutputRows(c) = {}
    BY <1>4 DEF OutputRows, n
  <2>3. <<>> \in Seq(Nat \X Nat) /\ Len(<<>>) = 0 /\ 1..0 = {}
    OBVIOUS
  <2>4. QED
    BY <1>3, <2>1, <2>2, <2>3 DEF Whole, Segment, each, n
<1>5. CASE n # 0
  <2>1. PICK f \in [1..n -> Seq(Nat \X Nat)] : Joined(f, each, n)
    <3> DEFINE T == Nat \X Nat
    <3>1. each \in [1..n -> Seq(T)]
      BY <1>3
    <3> HIDE DEF T
    <3>2. \E f \in [1..n -> Seq(T)] : Joined(f, each, n)
      BY <1>1, <1>5, <3>1, Flattening
    <3>3. QED
      BY <3>2 DEF T
  <2> DEFINE bad == {r \in 1..n : ~Segment(f[r], c, 1, 0, r + 1, 0)}
  <2>2. bad = {}
    <3>1. SUFFICES ASSUME bad # {} PROVE FALSE
      OBVIOUS
    <3>2. PICK r \in bad : \A j \in bad : r <= j
      <4>1. bad \in SUBSET Nat
        OBVIOUS
      <4>2. QED
        BY <3>1, <4>1, LeastOf
    <3>3. r # 1
      <4>1. f[1] = each[1] /\ 1 \in 1..n
        BY <1>1, <1>5, <2>1 DEF Joined
      <4>2. QED
        BY <1>2, <3>2, <4>1
    <3>4. r \in 2..n /\ r - 1 \in 1..n /\ r \in 1..n /\ ~(r <= r - 1) /\ (r - 1) + 1 = r
      <4>1. r \in 1..n
        BY <3>2
      <4> HIDE DEF bad
      <4>2. QED
        BY <1>1, <3>3, <4>1
    <3>5. Segment(f[r - 1], c, 1, 0, r, 0) /\ Segment(each[r], c, r, 0, r + 1, 0)
      BY <1>2, <3>2, <3>4
    <3>6. f[r] = f[r - 1] \o each[r]
      BY <2>1, <3>4 DEF Joined
    <3>7. 1 \in Nat /\ 0 \in Nat /\ r \in Nat /\ r + 1 \in Nat /\ 1 < r /\ r < r + 1
      BY <3>4
    <3>8. Segment(f[r - 1] \o each[r], c, 1, 0, r + 1, 0)
      BY <3>5, <3>7, SegmentsJoin
    <3>9. QED
      BY <3>2, <3>6, <3>8
  <2>3. Segment(f[n], c, 1, 0, n + 1, 0)
    <3>1. n \in 1..n
      BY <1>1, <1>5
    <3>2. QED
      BY <2>2, <3>1
  <2>4. X!FlattenSeq(each) = f[n]
    BY <2>1 DEF Joined
  <2>5. QED
    BY <1>3, <2>3, <2>4 DEF Whole, each, n
<1>6. QED
  BY <1>4, <1>5
\* A turn of a batch per input row answers with the whole output.
LEMMA PlainBatches ==
  ASSUME fn \in X!Functions, NEW c \in Seq(Nat), NEW more
  PROVE  LET items == X!PlainEmits(c, more)
         IN /\ Whole(MergedRows(items), c)
            /\ X!MergedParents(items) = IF fn.annotated THEN Firsts(MergedRows(items)) ELSE <<>>
<1> DEFINE n == Len(c)
           rows == [r \in 1..n |-> [i \in 1..c[r] |-> <<r, i - 1>>]]
           items == X!PlainEmits(c, more)
<1>1. n \in Nat /\ DOMAIN c = 1..n /\ DOMAIN items = 1..n
  BY DEF X!PlainEmits
<1>2. ASSUME NEW r \in 1..n
      PROVE  /\ items[r].rows = rows[r] /\ items[r].annotated = fn.annotated
             /\ fn.annotated => X!ParentsOf(items[r]) = Firsts(rows[r])
  <2> DEFINE d == [i \in 1..c[r] |-> <<r, i - 1>>]
  <2>1. items[r] = X!Emitted(d, TRUE, more) /\ rows[r] = d
    BY <1>1 DEF X!PlainEmits
  <2> HIDE DEF d, items, rows
  <2>2. /\ items[r].rows = d /\ items[r].annotated = fn.annotated
        /\ fn.annotated => items[r].parents = Firsts(d)
    BY <2>1 DEF X!Emitted, Firsts
  <2>3. QED
    BY <2>1, <2>2 DEF X!ParentsOf
<1>3. rows \in [1..n -> Seq(Nat \X Nat)] /\ Whole(X!FlattenSeq(rows), c)
  BY RowsJoin
<1>4. rows = [r \in 1..n |-> rows[r]]
  OBVIOUS
<1> HIDE DEF n, rows, items
<1>5. MergedRows(items) = X!FlattenSeq(rows)
  <2>1. [r \in DOMAIN items |-> items[r].rows] = rows
    BY <1>1, <1>2, <1>4
  <2>2. QED
    BY <2>1 DEF MergedRows, X!Concat
<1>6. ASSUME fn.annotated PROVE X!MergedParents(items) = Firsts(MergedRows(items))
  <2>1. CASE n = 0
    <3>1. 1..n = {}
      BY <2>1
    <3>2. X!MergedParents(items) = <<>>
      BY <1>1, <3>1 DEF X!MergedParents
    <3>3. X!FlattenSeq(rows) = <<>>
      <4> DEFINE T == Nat \X Nat
      <4>1. rows \in [1..0 -> Seq(T)]
        BY <1>3, <2>1
      <4> HIDE DEF T
      <4>2. QED
        BY <4>1, FlatOfNone
    <3>4. Firsts(<<>>) = <<>>
      BY DEF Firsts
    <3>5. QED
      BY <1>5, <3>2, <3>3, <3>4
  <2>2. CASE n # 0
    <3>1. 1 \in 1..n
      BY <1>1, <2>2
    <3>2. X!MergedParents(items) = X!FlattenSeq([r \in 1..n |-> X!ParentsOf(items[r])])
      BY <1>1, <1>2, <1>6, <3>1 DEF X!MergedParents, X!Concat
    <3>3. [r \in 1..n |-> X!ParentsOf(items[r])] = [r \in 1..n |-> Firsts(rows[r])]
      BY <1>2, <1>6
    <3>4. X!FlattenSeq([r \in 1..n |-> Firsts(rows[r])]) = Firsts(X!FlattenSeq(rows))
      BY <1>1, <1>3, FlatFirsts
    <3>5. QED
      BY <1>5, <3>2, <3>3, <3>4
  <2>3. QED
    BY <2>1, <2>2
<1>7. ASSUME ~fn.annotated PROVE X!MergedParents(items) = <<>>
  BY <1>1, <1>2, <1>7 DEF X!MergedParents
<1>8. QED
  BY <1>3, <1>5, <1>6, <1>7 DEF items

\* An input was taken, and its first reply written.
LEMMA InputTaken ==
  ASSUME ExchangeInv, ~morePending, NEW input \in Inputs, NEW d \in Seq(Nat \X Nat), NEW up,
         up = (IF fn.annotated THEN Firsts(d) ELSE <<>>),
         fn' = fn, morePending' \in BOOLEAN, sent' = Append(sent, input),
         got' = Append(got, d), parents' = Append(parents, up),
         ~morePending' => Whole(d, input),
         morePending' => /\ fn.kind = "paged" /\ state'.counts = input
                         /\ Position(input, state'.row, state'.offset)
                         /\ Segment(d, input, 1, 0, state'.row, state'.offset)
  PROVE  ExchangeInv'
<1> DEFINE n == Len(sent)
           T == Nat \X Nat
           U == Seq(T)
           V == Seq(Nat)
<1>1. /\ fn \in X!Functions /\ sent \in Seq(Inputs) /\ got \in Seq(U) /\ parents \in Seq(V)
      /\ n \in Nat /\ Len(got) = n /\ Len(parents) = n
      /\ \A k \in 1..n : fn.annotated => parents[k] = Firsts(got[k])
      /\ \A k \in 1..n : Whole(got[k], sent[k])
  <2>1. sent \in Seq(Inputs)
    BY DEF ExchangeInv
  <2>2. n \in Nat
    BY <2>1
  <2> HIDE DEF n
  <2>3. QED
    BY <2>1, <2>2, Zenon DEF ExchangeInv, n
<1>2. up \in V
  <2>1. Firsts(d) \in V /\ <<>> \in V
    BY FirstsConcat
  <2>2. QED
    BY <2>1
<1>3. d \in U
  OBVIOUS
<1> HIDE DEF U, V, n
<1>4. /\ sent' \in Seq(Inputs) /\ Len(sent') = n + 1 /\ sent'[n + 1] = input
      /\ \A k \in 1..n : sent'[k] = sent[k]
  BY <1>1, AppendProperties DEF n
<1>5. /\ got' \in Seq(U) /\ Len(got') = n + 1 /\ got'[n + 1] = d
      /\ \A k \in 1..n : got'[k] = got[k]
  BY <1>1, <1>3, AppendProperties
<1>6. /\ parents' \in Seq(V) /\ Len(parents') = n + 1 /\ parents'[n + 1] = up
      /\ \A k \in 1..n : parents'[k] = parents[k]
  BY <1>1, <1>2, AppendProperties
<1>7. ASSUME NEW k \in 1..(n + 1) PROVE k \in 1..n \/ k = n + 1
  BY <1>1
<1>8. \A k \in 1..(n + 1) : fn.annotated => parents'[k] = Firsts(got'[k])
  BY <1>1, <1>5, <1>6, <1>7
<1>9. ASSUME NEW k \in 1..(n + 1), k < n + 1 \/ ~morePending' PROVE Whole(got'[k], sent'[k])
  <2>1. CASE k \in 1..n
    BY <1>1, <1>4, <1>5, <2>1
  <2>2. CASE k = n + 1
    <3>1. ~morePending'
      BY <1>1, <1>9, <2>2
    <3>2. QED
      BY <1>4, <1>5, <2>2, <3>1
  <2>3. QED
    BY <1>7, <2>1, <2>2
<1>10. ASSUME morePending' PROVE PendingOK'
  <2>1. n + 1 # 0
    BY <1>1
  <2>2. QED
    BY <1>4, <1>5, <1>10, <2>1 DEF PendingOK
<1>11. QED
  BY <1>1, <1>4, <1>5, <1>6, <1>8, <1>9, <1>10 DEF ExchangeInv, U, V

\* A tick was answered.
LEMMA OutputContinued ==
  ASSUME ExchangeInv, morePending, NEW d \in Seq(Nat \X Nat), NEW up,
         up = (IF fn.annotated THEN Firsts(d) ELSE <<>>),
         fn' = fn, morePending' \in BOOLEAN, sent' = sent,
         got' = [got EXCEPT ![Len(sent)] = @ \o d],
         parents' = [parents EXCEPT ![Len(sent)] = @ \o up],
         ~morePending' => Whole(got[Len(sent)] \o d, sent[Len(sent)]),
         morePending' =>
           /\ state'.counts = state.counts
           /\ Position(state.counts, state'.row, state'.offset)
           /\ Segment(got[Len(sent)] \o d, state.counts, 1, 0, state'.row, state'.offset)
  PROVE  ExchangeInv'
<1> DEFINE n == Len(sent)
           T == Nat \X Nat
           U == Seq(T)
           V == Seq(Nat)
           all == got[n] \o d
           every == parents[n] \o up
<1>1. /\ fn \in X!Functions /\ sent \in Seq(Inputs) /\ got \in Seq(U) /\ parents \in Seq(V)
      /\ n \in Nat /\ n # 0 /\ Len(got) = n /\ Len(parents) = n /\ fn.kind = "paged"
      /\ state.counts = sent[n]
      /\ \A k \in 1..n : fn.annotated => parents[k] = Firsts(got[k])
      /\ \A k \in 1..n : k < n => Whole(got[k], sent[k])
  <2>1. sent \in Seq(Inputs)
    BY DEF ExchangeInv
  <2>2. n \in Nat
    BY <2>1
  <2> HIDE DEF n
  <2>3. QED
    BY <2>1, <2>2, Zenon DEF ExchangeInv, PendingOK, n
<1>2. n \in 1..n /\ got[n] \in U /\ parents[n] \in V /\ d \in U
  <2>1. n \in 1..n
    BY <1>1
  <2>2. QED
    BY <1>1, <2>1
<1>3. up \in V
  <2>1. Firsts(d) \in V /\ <<>> \in V
    BY FirstsConcat
  <2>2. QED
    BY <2>1
<1>4. all \in U /\ every \in V
  BY <1>2, <1>3, ConcatProperties
<1>5. ASSUME fn.annotated PROVE every = Firsts(all)
  <2>1. up = Firsts(d) /\ parents[n] = Firsts(got[n])
    BY <1>1, <1>2, <1>5
  <2>2. Firsts(got[n] \o d) = Firsts(got[n]) \o Firsts(d)
    BY <1>2, FirstsConcat
  <2>3. QED
    BY <2>1, <2>2
<1>6. got' = [got EXCEPT ![n] = all] /\ parents' = [parents EXCEPT ![n] = every]
  OBVIOUS
<1> HIDE DEF U, V, n, all, every
<1>7. /\ got' \in Seq(U) /\ Len(got') = n /\ got'[n] = all
      /\ \A k \in 1..n : k # n => got'[k] = got[k]
  <2>1. got \in Seq(U) /\ n \in 1..Len(got) /\ all \in U
    BY <1>1, <1>2, <1>4
  <2>2. /\ [got EXCEPT ![n] = all] \in Seq(U) /\ Len([got EXCEPT ![n] = all]) = Len(got)
        /\ \A k \in 1..Len(got) : [got EXCEPT ![n] = all][k] = IF k = n THEN all ELSE got[k]
    BY <2>1, ExceptSeq
  <2>3. QED
    BY <1>1, <1>2, <1>6, <2>2
<1>8. /\ parents' \in Seq(V) /\ Len(parents') = n /\ parents'[n] = every
      /\ \A k \in 1..n : k # n => parents'[k] = parents[k]
  <2>1. parents \in Seq(V) /\ n \in 1..Len(parents) /\ every \in V
    BY <1>1, <1>2, <1>4
  <2>2. /\ [parents EXCEPT ![n] = every] \in Seq(V) /\ Len([parents EXCEPT ![n] = every]) = Len(parents)
        /\ \A k \in 1..Len(parents) : [parents EXCEPT ![n] = every][k] = IF k = n THEN every ELSE parents[k]
    BY <2>1, ExceptSeq
  <2>3. QED
    BY <1>1, <1>2, <1>6, <2>2
<1>9. \A k \in 1..n : fn.annotated => parents'[k] = Firsts(got'[k])
  BY <1>1, <1>5, <1>7, <1>8
<1>10. ASSUME NEW k \in 1..n, k < n \/ ~morePending' PROVE Whole(got'[k], sent[k])
  <2>1. CASE k = n
    <3>1. ~morePending'
      BY <1>1, <1>10, <2>1
    <3>2. QED
      BY <1>7, <2>1, <3>1 DEF all, n
  <2>2. CASE k # n
    <3>1. k < n
      BY <1>1, <2>2
    <3>2. QED
      BY <1>1, <1>7, <2>2, <3>1
  <2>3. QED
    BY <2>1, <2>2
<1>11. Len(sent') = n
  BY DEF n
<1>12. ASSUME morePending' PROVE PendingOK'
  BY <1>1, <1>7, <1>11, <1>12 DEF PendingOK, all, n
<1>13. QED
  BY <1>1, <1>7, <1>8, <1>9, <1>10, <1>11, <1>12 DEF ExchangeInv, U, V
\* exchange of a real input.
LEMMA ProcessStep ==
  ASSUME ExchangeInv, Inputs \subseteq Seq(Nat), PageSizes \subseteq Nat,
         NEW input \in Inputs, X!Process(input)
  PROVE  ExchangeInv'
<1> DEFINE items == X!Processed(input).items
           d == MergedRows(items)
<1>1. /\ fn \in X!Functions /\ input \in Seq(Nat) /\ fn.size \in Nat
      /\ fn.kind \in {"plain", "paged", "unresumable"}
  BY DEF ExchangeInv, X!Functions, X!Kinds
<1>2. /\ ~morePending /\ fn' = fn /\ ~X!Refused(items, FALSE)
      /\ morePending' = X!More(items) /\ sent' = Append(sent, input)
      /\ got' = Append(got, d) /\ parents' = Append(parents, X!MergedParents(items))
      /\ state' = X!Processed(input).state
  BY DEF X!Process, X!Reply, MergedRows
<1>3. morePending' \in BOOLEAN
  BY <1>2 DEF X!More
<1>4. CASE fn.kind = "paged"
  <2> DEFINE s == [counts |-> input, row |-> 1, offset |-> 0]
             p == X!NextPage(s, fn.size)
  <2>1. items = <<X!Emitted(p.rows, TRUE, p.more)>> /\ state' = p.state
    BY <1>2, <1>4 DEF X!Processed
  <2>2. s.counts = input /\ s.row = 1 /\ s.offset = 0 /\ Position(input, 1, 0)
    BY <1>1 DEF Position
  <2>3. PICK r, o :
          /\ p.state = [counts |-> input, row |-> r, offset |-> o]
          /\ Position(input, r, o) /\ Segment(p.rows, input, 1, 0, r, o)
          /\ p.more = (r <= Len(input))
    <3> HIDE DEF s
    <3>1. QED
      BY <1>1, <2>2, PageIsNext
  <2> HIDE DEF p, items
  <2>4. p.rows \in Seq(Nat \X Nat) /\ p.more \in BOOLEAN
    BY <2>3 DEF Segment
  <2>5. /\ d = p.rows /\ X!More(items) = p.more
        /\ X!MergedParents(items) = IF fn.annotated THEN Firsts(p.rows) ELSE <<>>
    BY <1>1, <2>1, <2>4, OneBatch
  <2>6. ~p.more => Whole(p.rows, input)
    <3>1. r \in 1..(Len(input) + 1) /\ Len(input) \in Nat /\ o \in Nat
          /\ (o # 0 => r <= Len(input))
      BY <1>1, <2>3 DEF Position
    <3>2. ASSUME ~(r <= Len(input)) PROVE r = Len(input) + 1 /\ o = 0
      BY <3>1, <3>2
    <3>3. ~p.more => ~(r <= Len(input))
      BY <2>3
    <3>4. QED
      BY <2>3, <3>2, <3>3 DEF Whole
  <2>7. /\ state'.counts = input /\ Position(input, state'.row, state'.offset)
        /\ Segment(p.rows, input, 1, 0, state'.row, state'.offset)
    BY <2>1, <2>3
  <2> HIDE DEF d
  <2>8. QED
    BY <1>2, <1>3, <1>4, <2>4, <2>5, <2>6, <2>7, InputTaken
<1>5. CASE fn.kind \in {"plain", "unresumable"}
  <2>1. PICK more : items = X!PlainEmits(input, more)
    BY <1>5 DEF X!Processed
  <2>2. ~X!More(items)
    BY <1>2, <1>5 DEF X!Refused, X!Resumable
  <2> HIDE DEF items
  <2>3. Whole(d, input) /\ X!MergedParents(items) = IF fn.annotated THEN Firsts(d) ELSE <<>>
    BY <1>1, <2>1, PlainBatches
  <2> HIDE DEF d
  <2>4. d \in Seq(Nat \X Nat)
    BY <2>3 DEF Whole, Segment
  <2>5. QED
    BY <1>2, <1>3, <2>2, <2>3, <2>4, InputTaken
<1>6. QED
  BY <1>1, <1>4, <1>5

\* exchange of a tick.
LEMMA ResumeStep ==
  ASSUME ExchangeInv, Inputs \subseteq Seq(Nat), PageSizes \subseteq Nat, X!Resume
  PROVE  ExchangeInv'
<1> DEFINE p == X!NextPage(state, fn.size)
           items == <<X!Emitted(p.rows, FALSE, p.more)>>
           c == state.counts
           n == Len(sent)
<1>1. /\ morePending /\ fn' = fn /\ sent' = sent /\ morePending' = X!More(items)
      /\ got' = [got EXCEPT ![n] = @ \o MergedRows(items)]
      /\ parents' = [parents EXCEPT ![n] = @ \o X!MergedParents(items)]
      /\ state' = p.state
  BY DEF X!Resume, X!Reply, MergedRows
<1>2. /\ fn \in X!Functions /\ fn.size \in Nat /\ c = sent[n] /\ c \in Seq(Nat)
      /\ Position(c, state.row, state.offset)
      /\ Segment(got[n], c, 1, 0, state.row, state.offset)
  BY <1>1 DEF ExchangeInv, PendingOK, X!Functions, Position
<1>3. PICK r, o :
        /\ p.state = [counts |-> c, row |-> r, offset |-> o]
        /\ Position(c, r, o)
        /\ state.row < r \/ (state.row = r /\ state.offset <= o)
        /\ Segment(p.rows, c, state.row, state.offset, r, o)
        /\ p.more = (r <= Len(c))
  BY <1>2, PageIsNext
<1> HIDE DEF p
<1>4. p.rows \in Seq(Nat \X Nat) /\ p.more \in BOOLEAN
  BY <1>3 DEF Segment
<1>5. /\ MergedRows(items) = p.rows /\ X!More(items) = p.more
      /\ X!MergedParents(items) = IF fn.annotated THEN Firsts(p.rows) ELSE <<>>
  BY <1>2, <1>4, OneBatch
<1> HIDE DEF items
<1>6. /\ r \in 1..(Len(c) + 1) /\ Len(c) \in Nat /\ o \in Nat /\ (o # 0 => r <= Len(c))
      /\ state.row \in 1..(Len(c) + 1) /\ state.offset \in Nat
  BY <1>2, <1>3 DEF Position
<1>7. Segment(got[n] \o p.rows, c, 1, 0, r, o)
  <2>1. /\ 1 \in Nat /\ 0 \in Nat /\ state.row \in Nat /\ r \in Nat
        /\ 1 < state.row \/ (1 = state.row /\ 0 <= state.offset)
    BY <1>6
  <2>2. QED
    BY <1>2, <1>3, <1>6, <2>1, SegmentsJoin
<1>8. ~p.more => Whole(got[n] \o p.rows, sent[n])
  <2> HIDE DEF c
  <2>1. ASSUME ~(r <= Len(c)) PROVE r = Len(c) + 1 /\ o = 0
    BY <1>6, <2>1
  <2>2. ~p.more => ~(r <= Len(c))
    BY <1>3
  <2>3. QED
    BY <1>2, <1>7, <2>1, <2>2 DEF Whole
<1>9. /\ state'.counts = c /\ Position(c, state'.row, state'.offset)
      /\ Segment(got[n] \o p.rows, c, 1, 0, state'.row, state'.offset)
  BY <1>1, <1>3, <1>7
<1>10. QED
  BY <1>1, <1>4, <1>5, <1>8, <1>9, OutputContinued

LEMMA ExchangeStep == ASSUME ExchangeInv, [Next]_vars PROVE ExchangeInv'
<1>1. Inputs \subseteq Seq(Nat) /\ PageSizes \subseteq Nat
  BY ExecutionAssumption DEF X!ExchangeAssumption
<1>2. ASSUME UNCHANGED <<fn, state, morePending, sent, got, parents>> PROVE ExchangeInv'
  BY <1>2 DEF ExchangeInv, PendingOK
<1>3. ASSUME UNCHANGED xvars PROVE ExchangeInv'
  BY <1>2, <1>3 DEF xvars
<1>4. ASSUME X!Next PROVE ExchangeInv'
  <2>1. CASE \E input \in Inputs : X!Process(input)
    BY <1>1, <2>1, ProcessStep
  <2>2. CASE X!Resume
    BY <1>1, <2>2, ResumeStep
  <2>3. CASE X!Throw
    BY <1>2, <2>3 DEF X!Throw
  <2>4. QED
    BY <1>4, <2>1, <2>2, <2>3 DEF X!Next, X!OutOfTurn, X!EmitRefused
<1>5. QED
  BY <1>3, <1>4 DEF Next, Bind, InitCall, AggregateBind, Exchange, Buffer, Aggregate, Scan, vars

\* For any inputs and any page size, and whatever turns the client tries: what it
\* holds of an input is an initial segment of its output, in order, all of it once
\* no reply says more, and parent_rows name each row's input row (next_page and
\* its continuation, emit_merged, more_pending_).
THEOREM PagingIsWhole == Spec => []OutputIsWhole
<1>1. Init => ExchangeInv
  BY ExchangeInit DEF Init
<1>2. ExchangeInv /\ [Next]_vars => ExchangeInv'
  BY ExchangeStep
<1>3. ExchangeInv => OutputIsWhole
  <2>1. Inputs \subseteq Seq(Nat)
    BY ExecutionAssumption DEF X!ExchangeAssumption
  <2>2. QED
    BY <2>1, ExchangeImplies
<1>4. QED
  BY <1>1, <1>2, <1>3, PTL DEF Spec
=============================================================================
