--------------------------- MODULE BufferingProofs ----------------------------
(***************************************************************************)
(* Proofs about the buffering queries of Execution: queries that share the *)
(* worker processes and the storage stay apart, and each delivers what it  *)
(* sank, for any number of queries, processes and batches.                 *)
(***************************************************************************)
EXTENDS Execution, FiniteSetTheorems, SequenceTheorems, WellFoundedInduction, TLAPS

\* The library's operators are the same, whichever module brings them in.
LEMMA SameOperators ==
  /\ \A T : B!IsFiniteSet(T) <=> IsFiniteSet(T)
  /\ \A T : B!Cardinality(T) = Cardinality(T)
  /\ \A f : B!Range(f) = Range(f)
<1>1. \A T : B!IsFiniteSet(T) <=> IsFiniteSet(T)
  BY Zenon DEF B!IsFiniteSet, IsFiniteSet
<1>2. \A T : B!Cardinality(T) = Cardinality(T)
  BY Zenon DEF B!Cardinality, Cardinality, B!IsFiniteSet, IsFiniteSet
<1>3. \A f : B!Range(f) = Range(f)
  BY Zenon DEF B!Range, Range
<1>4. QED
  BY <1>1, <1>2, <1>3

-----------------------------------------------------------------------------
(* Scopes of their own                                                     *)

Calling == {"sinking", "combining", "replaying"}
Scoped == Calling \cup {"done", "failed"}

\* An id that a process minted before its counter was this.
Issued(i, upto) == \E p \in Processes : \E n \in 1..upto[p] : i = <<p, n>>

\* Ids are minted once each, by init.
IdsOK ==
  /\ counter \in [Processes -> Nat]
  /\ phase \in [Executions -> {"bound", "destroyed"} \cup Scoped]
  /\ DOMAIN id = Executions
  /\ \A e \in Executions :
       IF phase[e] = "bound" THEN id[e] = B!NoId ELSE Issued(id[e], counter)
  /\ \A e, f \in Executions : phase[e] # "bound" /\ id[e] = id[f] => e = f

\* Storage has the scopes of queries that began, and the bind context of every
\* one that was not destroyed.
ScopesOK ==
  /\ \A s \in DOMAIN stash \cup DOMAIN log :
       \E e \in Executions : phase[e] # "bound" /\ id[e] = s
  /\ \A e \in Executions : phase[e] \in Scoped => id[e] \in DOMAIN stash /\ stash[id[e]] = e

SeenOK ==
  /\ DOMAIN seen = Executions
  /\ \A e \in Executions :
       /\ seen[e] \subseteq {e}
       /\ phase[e] \in {"combining", "replaying", "done"} => seen[e] = {e}

QueryInv == IdsOK /\ ScopesOK /\ SeenOK

LEMMA QueryImplies == QueryInv => QueriesAreApart
BY DEF QueryInv, IdsOK, ScopesOK, SeenOK, QueriesAreApart, B!OwnBindContext,
       B!RunningKeepsItsScope, Scoped, Calling

LEMMA QueryInit == ASSUME B!Init PROVE QueryInv
<1>1. IdsOK
  BY DEF B!Init, IdsOK
<1>2. ScopesOK
  BY DEF B!Init, ScopesOK, Scoped, Calling
<1>3. SeenOK
  BY DEF B!Init, SeenOK
<1>4. QED
  BY <1>1, <1>2, <1>3 DEF QueryInv

\* init of a query: its id is one that no query has or had.
LEMMA QueryBegins ==
  ASSUME QueryInv, NEW e \in Executions, NEW p \in Processes, B!InitSink(e, p)
  PROVE  /\ QueryInv'
         /\ \A f \in Executions : id[f] # id'[e] /\ (f # e => id'[f] = id[f])
         /\ id'[e] \notin DOMAIN log
<1> DEFINE new == <<p, counter[p] + 1>>
<1>1. /\ phase[e] = "bound" /\ phase' = [phase EXCEPT ![e] = "sinking"]
      /\ id' = [id EXCEPT ![e] = new] /\ counter' = [counter EXCEPT ![p] = counter[p] + 1]
      /\ stash' = B!Put(stash, new, e) /\ log' = log /\ seen' = seen
  BY DEF B!InitSink, B!At, B!NextExecutionId
<1>2. counter[p] \in Nat /\ counter' \in [Processes -> Nat]
  BY <1>1 DEF QueryInv, IdsOK
<1>3. \A f \in Executions : id[f] # new
  <2> TAKE f \in Executions
  <2>1. ~Issued(new, counter)
    <3> SUFFICES ASSUME NEW q \in Processes, NEW n \in 1..counter[q], new = <<q, n>>
                 PROVE  FALSE
      BY DEF Issued
    <3>1. p = q /\ counter[p] + 1 = n
      OBVIOUS
    <3>2. QED
      BY <1>2, <3>1
  <2>2. new # B!NoId
    BY DEF B!NoId
  <2> HIDE DEF new
  <2>3. QED
    BY <2>1, <2>2 DEF QueryInv, IdsOK
<1>4. \A i : Issued(i, counter) => Issued(i, counter')
  <2> SUFFICES ASSUME NEW i, NEW q \in Processes, NEW n \in 1..counter[q], i = <<q, n>>
               PROVE  \E m \in 1..counter'[q] : i = <<q, m>>
    BY DEF Issued
  <2>1. counter[q] \in Nat /\ counter'[q] \in Nat /\ counter[q] <= counter'[q]
    BY <1>1, <1>2 DEF QueryInv, IdsOK
  <2>2. n \in 1..counter'[q]
    BY <2>1
  <2>3. QED
    BY <2>2
<1>5. \A i : i = new => Issued(i, counter')
  <2>1. counter'[p] = counter[p] + 1
    BY <1>1 DEF QueryInv, IdsOK
  <2>2. counter[p] + 1 \in 1..counter'[p]
    BY <1>2, <2>1
  <2>3. QED
    BY <2>2 DEF Issued
<1>6. /\ DOMAIN id' = Executions /\ id'[e] = new
      /\ \A f \in Executions : f # e => id'[f] = id[f] /\ phase'[f] = phase[f]
      /\ phase'[e] = "sinking" /\ phase' \in [Executions -> {"bound", "destroyed"} \cup Scoped]
  BY <1>1 DEF QueryInv, IdsOK, Scoped, Calling
<1>7. DOMAIN stash' = DOMAIN stash \cup {new} /\ stash'[new] = e
      /\ \A s \in DOMAIN stash : s # new => stash'[s] = stash[s]
  BY <1>1 DEF B!Put
<1> HIDE DEF new
<1>8. IdsOK'
  <2>1. ASSUME NEW f \in Executions
        PROVE  IF phase'[f] = "bound" THEN id'[f] = B!NoId ELSE Issued(id'[f], counter')
    <3>1. CASE f = e
      BY <1>5, <1>6, <3>1
    <3>2. CASE f # e
      BY <1>4, <1>6, <3>2 DEF QueryInv, IdsOK
    <3>3. QED
      BY <3>1, <3>2
  <2>2. ASSUME NEW f \in Executions, NEW g \in Executions, phase'[f] # "bound",
               id'[f] = id'[g]
        PROVE  f = g
    BY <1>3, <1>6, <2>2 DEF QueryInv, IdsOK
  <2>3. QED
    BY <1>2, <1>6, <2>1, <2>2 DEF IdsOK, B!NoId
<1>9. ScopesOK'
  <2>1. ASSUME NEW s \in DOMAIN stash' \cup DOMAIN log'
        PROVE  \E f \in Executions : phase'[f] # "bound" /\ id'[f] = s
    <3>1. CASE s = new
      BY <1>6, <3>1
    <3>2. CASE s # new
      <4>1. PICK f \in Executions : phase[f] # "bound" /\ id[f] = s
        BY <1>1, <1>7, <3>2 DEF QueryInv, ScopesOK
      <4>2. f # e
        BY <1>1, <4>1
      <4>3. QED
        BY <1>6, <4>1, <4>2
    <3>3. QED
      BY <3>1, <3>2
  <2>2. ASSUME NEW f \in Executions, phase'[f] \in Scoped
        PROVE  id'[f] \in DOMAIN stash' /\ stash'[id'[f]] = f
    <3>1. CASE f = e
      BY <1>6, <1>7, <3>1
    <3>2. CASE f # e
      BY <1>3, <1>6, <1>7, <2>2, <3>2 DEF QueryInv, ScopesOK
    <3>3. QED
      BY <3>1, <3>2
  <2>3. QED
    BY <2>1, <2>2 DEF ScopesOK
<1>10. SeenOK'
  BY <1>1, <1>6 DEF QueryInv, SeenOK
<1>11. new \notin DOMAIN log
  BY <1>3 DEF QueryInv, ScopesOK
<1>12. QED
  BY <1>3, <1>6, <1>8, <1>9, <1>10, <1>11 DEF QueryInv

\* A call of a query that is running touches no scope but the query's.
LEMMA QueryCalls ==
  ASSUME QueryInv, NEW e \in Executions, phase[e] \in Calling, NEW to \in Scoped,
         phase' = [phase EXCEPT ![e] = to], UNCHANGED <<counter, id, stash>>,
         DOMAIN log' \subseteq DOMAIN log \cup {id[e]},
         \/ B!ReloadContext(e)
         \/ seen' = seen /\ (phase[e] = "sinking" => to \in {"sinking", "failed"})
  PROVE  QueryInv'
<1>1. /\ phase' \in [Executions -> {"bound", "destroyed"} \cup Scoped]
      /\ \A f \in Executions : (phase'[f] = "bound") = (phase[f] = "bound")
      /\ \A f \in Executions : phase'[f] \in Scoped => phase[f] \in Scoped
  BY DEF QueryInv, IdsOK, Scoped, Calling
<1>2. IdsOK'
  <2>1. \A f \in Executions :
          IF phase'[f] = "bound" THEN id'[f] = B!NoId ELSE Issued(id'[f], counter')
    BY <1>1 DEF QueryInv, IdsOK
  <2>2. QED
    BY <1>1, <2>1 DEF QueryInv, IdsOK, B!NoId
<1>3. ScopesOK'
  <2>1. phase[e] # "bound"
    BY DEF Calling
  <2>2. \A s \in DOMAIN stash' \cup DOMAIN log' :
          \E f \in Executions : phase'[f] # "bound" /\ id'[f] = s
    BY <1>1, <2>1 DEF QueryInv, ScopesOK
  <2>3. \A f \in Executions : phase'[f] \in Scoped => id'[f] \in DOMAIN stash' /\ stash'[id'[f]] = f
    BY <1>1 DEF QueryInv, ScopesOK
  <2>4. QED
    BY <2>2, <2>3 DEF ScopesOK
<1>4. SeenOK'
  <2>1. B!Stashed(id[e]) = {e}
    BY DEF QueryInv, ScopesOK, B!Stashed, Scoped
  <2>2. /\ \A f \in Executions : f # e => phase'[f] = phase[f]
        /\ phase'[e] = to
    BY DEF QueryInv, IdsOK
  <2>3. CASE B!ReloadContext(e)
    <3>1. seen' = [seen EXCEPT ![e] = seen[e] \cup {e}]
      BY <2>1, <2>3 DEF B!ReloadContext
    <3>2. QED
      BY <2>2, <3>1 DEF QueryInv, SeenOK
  <2>4. CASE seen' = seen /\ (phase[e] = "sinking" => to \in {"sinking", "failed"})
    <3>1. to \in {"combining", "replaying", "done"} => seen[e] = {e}
      BY <2>4 DEF QueryInv, SeenOK, Calling
    <3>2. QED
      BY <2>2, <2>4, <3>1 DEF QueryInv, SeenOK
  <2>5. QED
    BY <2>3, <2>4
<1>5. QED
  BY <1>2, <1>3, <1>4 DEF QueryInv

\* The destructor clears the scope of its own query, which no other has.
LEMMA QueryDestroyed ==
  ASSUME QueryInv, NEW e \in Executions, B!Destructor(e)
  PROVE  QueryInv'
<1>1. /\ phase[e] \in {"done", "failed"} /\ phase' = [phase EXCEPT ![e] = "destroyed"]
      /\ log' = B!Without(log, id[e]) /\ stash' = B!Without(stash, id[e])
      /\ UNCHANGED <<counter, id, seen>>
  BY DEF B!Destructor
<1>2. /\ phase' \in [Executions -> {"bound", "destroyed"} \cup Scoped]
      /\ \A f \in Executions : (phase'[f] = "bound") = (phase[f] = "bound")
      /\ \A f \in Executions : f # e => phase'[f] = phase[f]
      /\ phase'[e] = "destroyed"
  BY <1>1 DEF QueryInv, IdsOK, Scoped, Calling
<1>3. /\ DOMAIN stash' = DOMAIN stash \ {id[e]} /\ DOMAIN log' = DOMAIN log \ {id[e]}
      /\ \A s \in DOMAIN stash' : stash'[s] = stash[s]
  BY <1>1 DEF B!Without
<1>4. IdsOK'
  <2>1. \A f \in Executions :
          IF phase'[f] = "bound" THEN id'[f] = B!NoId ELSE Issued(id'[f], counter')
    BY <1>1, <1>2 DEF QueryInv, IdsOK
  <2>2. QED
    BY <1>1, <1>2, <2>1 DEF QueryInv, IdsOK, B!NoId
<1>5. ScopesOK'
  <2>1. ASSUME NEW f \in Executions, phase'[f] \in Scoped
        PROVE  id'[f] \in DOMAIN stash' /\ stash'[id'[f]] = f
    <3>1. f # e /\ phase[f] \in Scoped /\ phase[f] # "bound"
      BY <1>2, <2>1 DEF Scoped, Calling
    <3>2. id[f] # id[e]
      BY <3>1 DEF QueryInv, IdsOK
    <3>3. QED
      BY <1>1, <1>3, <3>1, <3>2 DEF QueryInv, ScopesOK
  <2>2. \A s \in DOMAIN stash' \cup DOMAIN log' :
          \E f \in Executions : phase'[f] # "bound" /\ id'[f] = s
    BY <1>1, <1>2, <1>3 DEF QueryInv, ScopesOK
  <2>3. QED
    BY <2>1, <2>2 DEF ScopesOK
<1>6. SeenOK'
  BY <1>1, <1>2 DEF QueryInv, SeenOK
<1>7. QED
  BY <1>4, <1>5, <1>6 DEF QueryInv

LEMMA QueryStep == ASSUME QueryInv, NEW e \in Executions, B!Step(e) \/ B!Destructor(e) \/ B!Fail(e)
                   PROVE  QueryInv'
<1> DEFINE Call(to) ==
      /\ phase[e] \in Calling /\ phase' = [phase EXCEPT ![e] = to]
      /\ UNCHANGED <<counter, id, stash>> /\ DOMAIN log' \subseteq DOMAIN log \cup {id[e]}
      /\ \/ B!ReloadContext(e)
         \/ seen' = seen /\ (phase[e] = "sinking" => to \in {"sinking", "failed"})
<1>1. \A to \in Scoped : Call(to) => QueryInv'
  BY QueryCalls
<1>2. phase[e] \in Calling => phase[e] \in Scoped /\ [phase EXCEPT ![e] = phase[e]] = phase
  BY DEF QueryInv, IdsOK, Scoped
<1>3. \A n, b : B!AppendTo(id[e], n, b) => DOMAIN log' = DOMAIN log \cup {id[e]}
  BY DEF B!AppendTo, B!Put
<1>4. ASSUME NEW p \in Processes, B!InitSink(e, p) PROVE QueryInv'
  BY <1>4, QueryBegins
<1>5. ASSUME NEW b \in Batches, B!Process(e, b) PROVE QueryInv'
  <2>1. Call("sinking")
    BY <1>2, <1>3, <1>5 DEF B!Process, Calling
  <2>2. QED
    BY <1>1, <2>1 DEF Scoped, Calling
<1>6. ASSUME B!Combine(e) PROVE QueryInv'
  <2>1. Call("combining")
    BY <1>6 DEF B!Combine, B!At, Calling
  <2>2. QED
    BY <1>1, <2>1 DEF Scoped, Calling
<1>7. ASSUME B!CombineAppend(e) PROVE QueryInv'
  <2>1. Call("combining")
    BY <1>2, <1>3, <1>7 DEF B!CombineAppend, Calling
  <2>2. QED
    BY <1>1, <2>1 DEF Scoped, Calling
<1>8. ASSUME B!Close(e) PROVE QueryInv'
  <2>1. Call("done")
    BY <1>8 DEF B!Close, B!At, Calling
  <2>2. QED
    BY <1>1, <2>1 DEF Scoped, Calling
<1>9. ASSUME B!InitFinalize(e) PROVE QueryInv'
  <2>1. Call("replaying")
    BY <1>9 DEF B!InitFinalize, B!At, Calling
  <2>2. QED
    BY <1>1, <2>1 DEF Scoped, Calling
<1>10. ASSUME B!NextBatch(e) PROVE QueryInv'
  <2>1. Call("replaying")
    BY <1>2, <1>10 DEF B!NextBatch, Calling
  <2>2. QED
    BY <1>1, <2>1 DEF Scoped, Calling
<1>11. ASSUME B!ReplayEnds(e) PROVE QueryInv'
  <2>1. Call("done")
    BY <1>11 DEF B!ReplayEnds, B!At, Calling
  <2>2. QED
    BY <1>1, <2>1 DEF Scoped, Calling
<1>12. ASSUME B!Fail(e) PROVE QueryInv'
  <2>1. Call("failed")
    BY <1>12 DEF B!Fail, Calling
  <2>2. QED
    BY <1>1, <2>1 DEF Scoped, Calling
<1>13. QED
  BY <1>4, <1>5, <1>6, <1>7, <1>8, <1>9, <1>10, <1>11, <1>12, QueryDestroyed DEF B!Step

\* The dispatch and the other protocols leave the queries alone.
LEMMA QueryFrame == ASSUME QueryInv, UNCHANGED bvars PROVE QueryInv'
BY DEF bvars, QueryInv, IdsOK, ScopesOK, SeenOK, Issued, B!NoId

LEMMA QueriesOrNot ==
  ASSUME [Next]_vars
  PROVE  \/ UNCHANGED bvars
         \/ \E e \in Executions : B!Step(e) \/ B!Destructor(e) \/ B!Fail(e)
BY DEF Next, Bind, InitCall, AggregateBind, Exchange, Buffer, Aggregate, Scan, vars, B!Next

\* For any number of queries and of worker processes, however their calls
\* interleave and fail: each call of a query reads the bind context of its own
\* query, and no destructor takes the scope of one that is running
\* (next_execution_id, init's stash, table_buffering_destructor).
THEOREM QueriesApart == Spec => []QueriesAreApart
<1>1. Init => QueryInv
  BY QueryInit DEF Init
<1>2. QueryInv /\ [Next]_vars => QueryInv'
  BY QueryStep, QueryFrame, QueriesOrNot
<1>3. QED
  BY <1>1, <1>2, QueryImplies, PTL DEF Spec

-----------------------------------------------------------------------------
(* Sorting                                                                 *)

\* Position a comes before b: its key is smaller, or equal and a is.
Precedes(key, a, b) == key[a] < key[b] \/ (key[a] = key[b] /\ a < b)

\* A set of naturals has a least one.
LEMMA LeastOf ==
  ASSUME NEW T \in SUBSET Nat, T # {}
  PROVE  \E a \in T : \A b \in T : a <= b
<1>1. PICK a \in T : \A b \in T : ~(<<b, a>> \in OpToRel(<, Nat))
  BY WFMin, NatLessThanWellFounded
<1>2. \A b \in T : ~(b < a)
  BY <1>1 DEF OpToRel
<1>3. QED
  BY <1>2

\* Some position precedes all others.
LEMMA FirstPosition ==
  ASSUME NEW n \in Nat, NEW key \in [1..n -> Nat], NEW P \in SUBSET (1..n), P # {}
  PROVE  \E a \in P : \A b \in P \ {a} : Precedes(key, a, b)
<1> DEFINE low == {key[b] : b \in P}
<1>1. low \in SUBSET Nat /\ low # {}
  OBVIOUS
<1>2. PICK c \in P : \A b \in P : key[c] <= key[b]
  <2>1. PICK l \in low : \A m \in low : l <= m
    BY <1>1, LeastOf
  <2>2. QED
    BY <2>1
<1> DEFINE tied == {b \in P : key[b] = key[c]}
<1>3. tied \in SUBSET Nat /\ tied # {}
  <2>1. c \in tied
    OBVIOUS
  <2>2. tied \subseteq 1..n
    OBVIOUS
  <2>3. QED
    BY <2>1, <2>2
<1>4. PICK a \in tied : \A b \in tied : a <= b
  BY <1>3, LeastOf
<1>5. ASSUME NEW b \in P \ {a} PROVE Precedes(key, a, b)
  <2>1. /\ a \in Nat /\ b \in Nat /\ a # b /\ key[a] \in Nat /\ key[b] \in Nat
        /\ key[a] <= key[b]
    BY <1>2, <1>4, <1>5
  <2>2. key[b] = key[a] => a <= b
    BY <1>4
  <2>3. QED
    BY <2>1, <2>2 DEF Precedes
<1>6. QED
  BY <1>4, <1>5

\* m positions in order.
Ordering(key, P, m, q) ==
  /\ q \in [1..m -> P] /\ Range(q) = P
  /\ \A i, j \in 1..m : i < j => Precedes(key, q[i], q[j])

\* Put the first of the positions before an ordering of the others.
LEMMA OneMore ==
  ASSUME NEW n \in Nat, NEW key \in [1..n -> Nat], NEW P \in SUBSET (1..n),
         NEW m \in Nat, NEW a \in P, \A b \in P \ {a} : Precedes(key, a, b),
         NEW q, Ordering(key, P \ {a}, m, q)
  PROVE  \E r : Ordering(key, P, m + 1, r)
<1> DEFINE r == [i \in 1..(m + 1) |-> IF i = 1 THEN a ELSE q[i - 1]]
<1>1. q \in [1..m -> P \ {a}] /\ Range(q) = P \ {a}
      /\ \A i, j \in 1..m : i < j => Precedes(key, q[i], q[j])
  BY DEF Ordering
<1>2. \A i \in 2..(m + 1) : i - 1 \in 1..m /\ r[i] = q[i - 1] /\ r[i] \in P \ {a}
  BY <1>1
<1>3. r[1] = a /\ r \in [1..(m + 1) -> P]
  BY <1>1
<1>4. \A b \in P : \E i \in 1..(m + 1) : r[i] = b
  <2> TAKE b \in P
  <2>1. CASE b = a
    BY <1>3, <2>1
  <2>2. CASE b # a
    <3>1. PICK i \in DOMAIN q : q[i] = b
      BY <1>1, <2>2 DEF Range
    <3>2. i \in 1..m
      BY <1>1, <3>1
    <3>3. i + 1 \in 2..(m + 1) /\ (i + 1) - 1 = i
      BY <3>2
    <3>4. r[i + 1] = b
      BY <1>2, <3>1, <3>3
    <3>5. QED
      BY <3>3, <3>4
  <2>3. QED
    BY <2>1, <2>2
<1> HIDE DEF r
<1>5. Range(r) = P
  BY <1>3, <1>4 DEF Range
<1>6. ASSUME NEW i \in 1..(m + 1), NEW j \in 1..(m + 1), i < j
      PROVE  Precedes(key, r[i], r[j])
  <2>1. j \in 2..(m + 1)
    BY <1>6
  <2>2. CASE i = 1
    BY <1>2, <1>3, <2>1, <2>2
  <2>3. CASE i # 1
    <3>1. i \in 2..(m + 1) /\ i - 1 < j - 1
      BY <1>6, <2>3
    <3>2. r[i] = q[i - 1] /\ r[j] = q[j - 1] /\ i - 1 \in 1..m /\ j - 1 \in 1..m
      BY <1>2, <2>1, <3>1
    <3>3. QED
      BY <1>1, <3>1, <3>2
  <2>4. QED
    BY <2>2, <2>3
<1>7. QED
  BY <1>3, <1>5, <1>6 DEF Ordering

\* Any positions can be put in order, by the smallest number of them that could
\* not.
LEMMA OrderingExists ==
  ASSUME NEW n \in Nat, NEW key \in [1..n -> Nat]
  PROVE  \A m \in Nat : \A P \in SUBSET (1..n) :
           Cardinality(P) = m => \E q : Ordering(key, P, m, q)
<1> DEFINE Sortable(m) == \A P \in SUBSET (1..n) :
                            Cardinality(P) = m => \E q : Ordering(key, P, m, q)
           bad == {m \in Nat : ~Sortable(m)}
<1>1. SUFFICES ASSUME bad # {} PROVE FALSE
  OBVIOUS
<1>2. PICK m \in bad : \A k \in bad : m <= k
  BY <1>1, LeastOf
<1>3. PICK P \in SUBSET (1..n) : Cardinality(P) = m /\ ~\E q : Ordering(key, P, m, q)
  BY <1>2
<1>4. IsFiniteSet(P)
  <2>1. IsFiniteSet(1..n)
    BY FS_Interval
  <2>2. QED
    BY <2>1, FS_Subset
<1>5. CASE m = 0
  <2>1. P = {}
    BY <1>3, <1>4, <1>5, FS_EmptySet
  <2> DEFINE q == [i \in 1..0 |-> i]
  <2>2. q \in [1..0 -> P] /\ Range(q) = P
    BY <2>1 DEF Range
  <2>3. \A i, j \in 1..0 : i < j => Precedes(key, q[i], q[j])
    OBVIOUS
  <2>4. Ordering(key, P, m, q)
    BY <1>5, <2>2, <2>3 DEF Ordering
  <2>5. QED
    BY <1>3, <2>4
<1>6. CASE m # 0
  <2>1. P # {} /\ m \in Nat /\ m - 1 \in Nat /\ m = (m - 1) + 1
    <3>1. P # {}
      BY <1>3, <1>6, FS_EmptySet
    <3>2. m \in Nat
      OBVIOUS
    <3>3. QED
      BY <1>6, <3>1, <3>2
  <2>2. PICK a \in P : \A b \in P \ {a} : Precedes(key, a, b)
    BY <2>1, FirstPosition
  <2>3. Cardinality(P \ {a}) = m - 1
    BY <1>3, <1>4, FS_RemoveElement
  <2>4. m - 1 \notin bad
    BY <1>2, <2>1
  <2>5. PICK q : Ordering(key, P \ {a}, m - 1, q)
    BY <2>1, <2>3, <2>4
  <2>6. \E r : Ordering(key, P, (m - 1) + 1, r)
    BY <2>1, <2>2, <2>5, OneMore
  <2>7. QED
    BY <1>3, <2>1, <2>6
<1>7. QED
  BY <1>5, <1>6

\* What combine's sort makes of the staged entries: the same ones, ascending if
\* no two have the same index.
LEMMA SortIsRight ==
  ASSUME NEW T, \A t \in T : t.index \in Nat, NEW staged \in Seq(T)
  PROVE  LET sorted == B!SortedByIndex(staged)
         IN /\ sorted \in Seq(T) /\ Len(sorted) = Len(staged)
            /\ \A i \in 1..Len(staged) : \E j \in 1..Len(staged) : sorted[i] = staged[j]
            /\ \A i \in 1..Len(staged) : \E j \in 1..Len(staged) : sorted[j] = staged[i]
            /\ (\A i, j \in 1..Len(staged) : staged[i].index = staged[j].index => i = j)
                 => \A i, j \in 1..Len(staged) : i < j => sorted[i].index < sorted[j].index
<1> DEFINE n == Len(staged)
           key == [i \in 1..n |-> staged[i].index]
           InOrder(p) == /\ B!Range(p) = 1..n
                         /\ \A i, j \in 1..n : i < j =>
                              \/ staged[p[i]].index < staged[p[j]].index
                              \/ staged[p[i]].index = staged[p[j]].index /\ p[i] < p[j]
           order == CHOOSE p \in [1..n -> 1..n] : InOrder(p)
           sorted == B!SortedByIndex(staged)
<1>1. n \in Nat /\ key \in [1..n -> Nat] /\ \A i \in 1..n : staged[i] \in T
  OBVIOUS
<1>2. sorted = [i \in 1..n |-> staged[order[i]]]
  BY DEF B!SortedByIndex
<1>3. order \in [1..n -> 1..n] /\ InOrder(order)
  <2>1. Cardinality(1..n) = n
    BY <1>1, FS_Interval
  <2>2. PICK p : Ordering(key, 1..n, n, p)
    <3> HIDE DEF n, key
    <3>1. 1..n \in SUBSET (1..n)
      OBVIOUS
    <3>2. QED
      BY <1>1, <2>1, <3>1, OrderingExists
  <2>3. p \in [1..n -> 1..n] /\ B!Range(p) = 1..n
        /\ \A i, j \in 1..n : i < j => Precedes(key, p[i], p[j])
    BY <2>2, SameOperators DEF Ordering
  <2>4. ASSUME NEW i \in 1..n, NEW j \in 1..n, i < j
        PROVE  \/ staged[p[i]].index < staged[p[j]].index
               \/ staged[p[i]].index = staged[p[j]].index /\ p[i] < p[j]
    <3>1. p[i] \in 1..n /\ p[j] \in 1..n /\ Precedes(key, p[i], p[j])
      BY <2>3, <2>4
    <3>2. key[p[i]] = staged[p[i]].index /\ key[p[j]] = staged[p[j]].index
      BY <3>1
    <3> HIDE DEF key
    <3>3. QED
      BY <3>1, <3>2 DEF Precedes
  <2>5. InOrder(p)
    BY <2>3, <2>4
  <2> HIDE DEF InOrder
  <2>6. QED
    BY <2>3, <2>5
<1> HIDE DEF order, sorted
<1>4. Range(order) = 1..n
  BY <1>3, SameOperators
<1>5. \A i \in 1..n : order[i] \in 1..n /\ sorted[i] = staged[order[i]] /\ sorted[i] \in T
  BY <1>1, <1>2, <1>3
<1>6. sorted \in Seq(T) /\ Len(sorted) = n
  <2>1. sorted \in [1..n -> T]
    BY <1>2, <1>5
  <2> HIDE DEF n
  <2>2. QED
    BY <1>1, <2>1
<1>7. ASSUME NEW i \in 1..n PROVE \E j \in 1..n : sorted[j] = staged[i]
  <2>1. PICK j \in DOMAIN order : order[j] = i
    BY <1>4 DEF Range
  <2>2. j \in 1..n
    BY <1>3, <2>1
  <2>3. QED
    BY <1>5, <2>1, <2>2
<1>8. ASSUME \A i, j \in 1..n : staged[i].index = staged[j].index => i = j,
             NEW i \in 1..n, NEW j \in 1..n, i < j
      PROVE  sorted[i].index < sorted[j].index
  <2>1. \/ staged[order[i]].index < staged[order[j]].index
        \/ staged[order[i]].index = staged[order[j]].index /\ order[i] < order[j]
    BY <1>3, <1>8
  <2>2. order[i] \in 1..n /\ order[j] \in 1..n
    BY <1>5
  <2>3. ~(staged[order[i]].index = staged[order[j]].index /\ order[i] < order[j])
    <3>1. staged[order[i]].index = staged[order[j]].index => order[i] = order[j]
      BY <1>8, <2>2
    <3>2. QED
      BY <2>2, <3>1
  <2>4. QED
    BY <1>5, <2>1, <2>3
<1>9. QED
  BY <1>5, <1>6, <1>7, <1>8 DEF sorted

-----------------------------------------------------------------------------
(* Delivery                                                                *)

\* The scope s of the storage l.
LogsIn(l, s) == IF s \in DOMAIN l THEN l[s] ELSE [n \in B!Namespaces |-> <<>>]

\* A log holds the batches T of query e, each once.
Holds(l, e, T) ==
  /\ l \in Seq(B!InputOf(e))
  /\ {l[i].index : i \in 1..Len(l)} = T
  /\ \A i, j \in 1..Len(l) : l[i].index = l[j].index => i = j
  /\ Len(l) = Cardinality(T)

Ascending(l) == \A i, j \in 1..Len(l) : i < j => l[i].index < l[j].index

\* What a query of sink k delivers.
Whole(l, e, k) == Holds(l, e, Batches) /\ (k = "indexed" => Ascending(l))

\* Where a query in a phase has its batches.
Staged(e, k, left, logs) ==
  /\ left \subseteq Batches
  /\ Holds(logs[IF k = "indexed" THEN "buf.unsorted" ELSE "buf"], e, Batches \ left)
  /\ k = "indexed" => logs["buf"] = <<>>
Reconciled(e, k, logs, rest) ==
  /\ logs["buf"] \in Seq(B!InputOf(e)) /\ rest \in Seq(B!InputOf(e))
  /\ Whole(logs["buf"] \o rest, e, k)
Replayed(e, k, logs, at, out) ==
  /\ Whole(logs["buf"], e, k)
  /\ at \in 0..Len(logs["buf"]) /\ out = SubSeq(logs["buf"], 1, at)

Delivers(e, k, ph, left, logs, rest, at, out) ==
  /\ ph = "bound" => left = Batches
  /\ ph \in {"bound", "sinking", "combining"} => at = 0 /\ out = <<>>
  /\ ph = "sinking" => Staged(e, k, left, logs)
  /\ ph = "combining" => Reconciled(e, k, logs, rest)
  /\ ph = "replaying" => Replayed(e, k, logs, at, out)
  /\ ph = "done" => Whole(out, e, k)

LogsOK == \A s \in DOMAIN log : DOMAIN log[s] = B!Namespaces

DeliveryOK ==
  /\ LogsOK
  /\ DOMAIN phase = Executions /\ DOMAIN unsunk = Executions
  /\ DOMAIN ordered = Executions /\ DOMAIN afterId = Executions
  /\ DOMAIN output = Executions
  /\ \A e \in Executions :
       Delivers(e, sink[e], phase[e], unsunk[e], LogsIn(log, id[e]), ordered[e],
                afterId[e], output[e])

LEMMA DeliveryImplies == DeliveryOK => DeliversWhatWasSunk
<1> SUFFICES ASSUME DeliveryOK, NEW e \in Executions, phase[e] = "done"
             PROVE  /\ B!Range(output[e]) = B!InputOf(e)
                    /\ Len(output[e]) = B!Cardinality(Batches)
                    /\ sink[e] = "indexed" =>
                         \A i, j \in DOMAIN output[e] :
                           i < j => output[e][i].index < output[e][j].index
  BY DEF DeliversWhatWasSunk, B!DeliversWhatWasSunk
<1> DEFINE out == output[e]
<1>1. Whole(out, e, sink[e])
  BY DEF DeliveryOK, Delivers
<1> HIDE DEF out
<1>2. out \in Seq(B!InputOf(e)) /\ {out[i].index : i \in 1..Len(out)} = Batches
      /\ Len(out) = Cardinality(Batches) /\ (sink[e] = "indexed" => Ascending(out))
  BY <1>1 DEF Whole, Holds
<1>3. DOMAIN out = 1..Len(out) /\ \A i \in 1..Len(out) : out[i] \in B!InputOf(e)
  BY <1>2
<1>4. B!InputOf(e) \subseteq Range(out)
  <2> SUFFICES ASSUME NEW x \in B!InputOf(e) PROVE x \in Range(out)
    OBVIOUS
  <2>1. PICK b \in Batches : x = [of |-> e, index |-> b]
    BY DEF B!InputOf
  <2>2. PICK i \in 1..Len(out) : out[i].index = b
    BY <1>2
  <2>3. PICK c \in Batches : out[i] = [of |-> e, index |-> c]
    BY <1>3 DEF B!InputOf
  <2>4. out[i] = x
    BY <2>1, <2>2, <2>3
  <2>5. QED
    BY <1>3, <2>4 DEF Range
<1>5. Range(out) \subseteq B!InputOf(e)
  BY <1>3 DEF Range
<1>6. QED
  BY <1>2, <1>3, <1>4, <1>5, SameOperators DEF out, Ascending

LEMMA NothingHeld == ASSUME NEW e PROVE Holds(<<>>, e, {})
<1>1. <<>> \in Seq(B!InputOf(e)) /\ Len(<<>>) = 0 /\ 1..0 = {}
  OBVIOUS
<1>2. {<<>>[i].index : i \in 1..Len(<<>>)} = {}
  BY <1>1
<1>3. QED
  BY <1>1, <1>2, FS_EmptySet DEF Holds

LEMMA OneMoreHeld ==
  ASSUME B!BufferingAssumption, NEW e, NEW l, NEW T \in SUBSET Batches, Holds(l, e, T),
         NEW b \in Batches \ T
  PROVE  Holds(Append(l, [of |-> e, index |-> b]), e, T \cup {b})
<1> DEFINE entry == [of |-> e, index |-> b]
           m == Append(l, entry)
<1>1. l \in Seq(B!InputOf(e)) /\ entry \in B!InputOf(e) /\ entry.index = b
      /\ {l[i].index : i \in 1..Len(l)} = T /\ Len(l) = Cardinality(T)
      /\ \A i, j \in 1..Len(l) : l[i].index = l[j].index => i = j
  BY DEF Holds, B!InputOf
<1> HIDE DEF entry
<1>2. /\ m \in Seq(B!InputOf(e)) /\ Len(m) = Len(l) + 1 /\ Len(l) \in Nat
      /\ \A i \in 1..Len(l) : m[i] = l[i]
      /\ m[Len(l) + 1] = entry
  BY <1>1, AppendProperties
<1> HIDE DEF m
<1>3. \A i \in 1..Len(m) : i \in 1..Len(l) \/ i = Len(l) + 1
  BY <1>2
<1>4. \A i \in 1..Len(l) : m[i].index \in T /\ i \in 1..Len(m)
  BY <1>1, <1>2
<1>5. {m[i].index : i \in 1..Len(m)} = T \cup {b}
  <2>1. \A i \in 1..Len(m) : m[i].index \in T \cup {b}
    BY <1>1, <1>2, <1>3, <1>4
  <2>2. \A t \in T : \E i \in 1..Len(m) : m[i].index = t
    BY <1>1, <1>2, <1>4
  <2>3. Len(l) + 1 \in 1..Len(m) /\ m[Len(l) + 1].index = b
    BY <1>1, <1>2
  <2>4. QED
    BY <2>1, <2>2, <2>3
<1>6. ASSUME NEW i \in 1..Len(m), NEW j \in 1..Len(m), m[i].index = m[j].index
      PROVE  i = j
  <2>1. CASE i \in 1..Len(l) /\ j \in 1..Len(l)
    BY <1>1, <1>2, <1>6, <2>1
  <2>2. CASE i = Len(l) + 1 /\ j = Len(l) + 1
    BY <2>2
  <2>3. ASSUME NEW k \in 1..Len(l) PROVE m[k].index # m[Len(l) + 1].index
    BY <1>1, <1>2, <1>4
  <2>4. QED
    BY <1>3, <1>6, <2>1, <2>2, <2>3
<1>7. Len(m) = Cardinality(T \cup {b})
  <2>1. IsFiniteSet(Batches)
    BY SameOperators DEF B!BufferingAssumption
  <2>2. IsFiniteSet(T)
    BY <2>1, FS_Subset
  <2>3. Cardinality(T \cup {b}) = Cardinality(T) + 1
    BY <2>2, FS_AddElement
  <2>4. QED
    BY <1>1, <1>2, <2>3
<1>8. QED
  BY <1>2, <1>5, <1>6, <1>7 DEF Holds, m, entry

LEMMA DeliveryInit == ASSUME B!Init PROVE DeliveryOK
<1>1. LogsOK
  BY DEF B!Init, LogsOK
<1>2. ASSUME NEW e \in Executions
      PROVE  Delivers(e, sink[e], phase[e], unsunk[e], LogsIn(log, id[e]), ordered[e],
                      afterId[e], output[e])
  <2>1. phase[e] = "bound" /\ unsunk[e] = Batches /\ afterId[e] = 0 /\ output[e] = <<>>
    BY DEF B!Init
  <2>2. QED
    BY <2>1 DEF Delivers
<1>3. QED
  BY <1>1, <1>2 DEF DeliveryOK, B!Init

\* A variable kept per query changes for query e only.
Becomes(old, new, e, v) ==
  DOMAIN new = Executions /\ new[e] = v /\ \A f \in Executions \ {e} : new[f] = old[f]

LEMMA Becoming ==
  ASSUME NEW x, DOMAIN x = Executions, NEW e \in Executions
  PROVE  Becomes(x, x, e, x[e]) /\ \A v : Becomes(x, [x EXCEPT ![e] = v], e, v)
BY DEF Becomes

\* A step of one query: what is said of the others does not change.
LEMMA OneMoves ==
  ASSUME DeliveryOK, NEW e \in Executions, LogsOK', sink' = sink,
         NEW ph, Becomes(phase, phase', e, ph),
         NEW left, Becomes(unsunk, unsunk', e, left),
         NEW rest, Becomes(ordered, ordered', e, rest),
         NEW at, Becomes(afterId, afterId', e, at),
         NEW out, Becomes(output, output', e, out),
         \A f \in Executions \ {e} : LogsIn(log', id'[f]) = LogsIn(log, id[f]),
         Delivers(e, sink[e], ph, left, LogsIn(log', id'[e]), rest, at, out)
  PROVE  DeliveryOK'
<1>1. /\ DOMAIN phase' = Executions /\ DOMAIN unsunk' = Executions
      /\ DOMAIN ordered' = Executions /\ DOMAIN afterId' = Executions
      /\ DOMAIN output' = Executions
  BY DEF Becomes
<1>2. ASSUME NEW f \in Executions
      PROVE  Delivers(f, sink'[f], phase'[f], unsunk'[f], LogsIn(log', id'[f]),
                      ordered'[f], afterId'[f], output'[f])
  <2>1. CASE f = e
    <3>1. /\ phase'[f] = ph /\ unsunk'[f] = left /\ ordered'[f] = rest
          /\ afterId'[f] = at /\ output'[f] = out
      BY <2>1 DEF Becomes
    <3>2. QED
      BY <2>1, <3>1
  <2>2. CASE f # e
    <3>1. /\ phase'[f] = phase[f] /\ unsunk'[f] = unsunk[f] /\ ordered'[f] = ordered[f]
          /\ afterId'[f] = afterId[f] /\ output'[f] = output[f]
          /\ LogsIn(log', id'[f]) = LogsIn(log, id[f])
      BY <2>2 DEF Becomes
    <3>2. QED
      BY <3>1 DEF DeliveryOK
  <2>3. QED
    BY <2>1, <2>2
<1>3. QED
  BY <1>1, <1>2 DEF DeliveryOK

\* An append to the scope of a query that began changes no other query's logs.
LEMMA Appending ==
  ASSUME QueryInv, DeliveryOK, NEW e \in Executions, phase[e] # "bound",
         NEW n \in B!Namespaces, NEW entry, B!AppendTo(id[e], n, entry), id' = id
  PROVE  /\ LogsOK'
         /\ \A f \in Executions \ {e} : LogsIn(log', id'[f]) = LogsIn(log, id[f])
         /\ LogsIn(log', id'[e])[n] = Append(LogsIn(log, id[e])[n], entry)
         /\ \A m \in B!Namespaces \ {n} :
              LogsIn(log', id'[e])[m] = LogsIn(log, id[e])[m]
<1> DEFINE logs == LogsIn(log, id[e])
           more == [logs EXCEPT ![n] = Append(logs[n], entry)]
<1>1. log' = B!Put(log, id[e], more)
  BY DEF B!AppendTo, B!Logs, LogsIn
<1>2. DOMAIN logs = B!Namespaces
  BY DEF DeliveryOK, LogsOK, LogsIn
<1>3. /\ DOMAIN more = B!Namespaces /\ more[n] = Append(logs[n], entry)
      /\ \A m \in B!Namespaces \ {n} : more[m] = logs[m]
  BY <1>2
<1> HIDE DEF more
<1>4. /\ DOMAIN log' = DOMAIN log \cup {id[e]} /\ log'[id[e]] = more
      /\ \A s \in DOMAIN log : s # id[e] => log'[s] = log[s]
  BY <1>1 DEF B!Put
<1>5. LogsOK'
  <2>1. \A s \in DOMAIN log' : DOMAIN log'[s] = B!Namespaces
    BY <1>3, <1>4 DEF DeliveryOK, LogsOK
  <2>2. QED
    BY <2>1 DEF LogsOK, B!Namespaces
<1>6. LogsIn(log', id'[e]) = more
  BY <1>4 DEF LogsIn
<1>7. ASSUME NEW f \in Executions \ {e}
      PROVE  LogsIn(log', id'[f]) = LogsIn(log, id[f])
  <2>1. id[f] # id[e]
    BY DEF QueryInv, IdsOK
  <2>2. QED
    BY <1>4, <2>1 DEF LogsIn
<1>8. QED
  BY <1>3, <1>5, <1>6, <1>7

LEMMA BeginsToSink ==
  ASSUME QueryInv, DeliveryOK, NEW e \in Executions, NEW p \in Processes, B!InitSink(e, p)
  PROVE  DeliveryOK'
<1>1. /\ phase[e] = "bound" /\ phase' = [phase EXCEPT ![e] = "sinking"] /\ log' = log
      /\ UNCHANGED <<sink, unsunk, ordered, afterId, output>>
  BY DEF B!InitSink, B!At
<1>2. /\ \A f \in Executions \ {e} : LogsIn(log', id'[f]) = LogsIn(log, id[f])
      /\ LogsIn(log', id'[e]) = [n \in B!Namespaces |-> <<>>]
  BY <1>1, QueryBegins DEF LogsIn
<1>3. LogsOK'
  BY <1>1 DEF DeliveryOK, LogsOK, B!Namespaces
<1>4. unsunk[e] = Batches /\ afterId[e] = 0 /\ output[e] = <<>>
  BY <1>1 DEF DeliveryOK, Delivers
<1> DEFINE logs == LogsIn(log', id'[e])
<1>5. Staged(e, sink[e], unsunk[e], logs)
  <2>1. \A n \in B!Namespaces : logs[n] = <<>>
    BY <1>2
  <2> HIDE DEF logs
  <2>2. Batches \ unsunk[e] = {}
    BY <1>4
  <2>3. QED
    BY <1>4, <2>1, <2>2, NothingHeld DEF Staged, B!Namespaces
<1>6. Delivers(e, sink[e], "sinking", unsunk[e], logs, ordered[e], afterId[e], output[e])
  BY <1>4, <1>5 DEF Delivers
<1>7. /\ Becomes(phase, phase', e, "sinking") /\ Becomes(unsunk, unsunk', e, unsunk[e])
      /\ Becomes(ordered, ordered', e, ordered[e]) /\ Becomes(afterId, afterId', e, afterId[e])
      /\ Becomes(output, output', e, output[e])
  BY <1>1, Becoming DEF DeliveryOK
<1>8. QED
  BY <1>1, <1>2, <1>3, <1>6, <1>7, OneMoves

LEMMA Sinks ==
  ASSUME B!BufferingAssumption, QueryInv, DeliveryOK, NEW e \in Executions,
         NEW b \in Batches, B!Process(e, b)
  PROVE  DeliveryOK'
<1> DEFINE k == sink[e]
           n == IF k = "indexed" THEN "buf.unsorted" ELSE "buf"
           logs == LogsIn(log, id[e])
           after == LogsIn(log', id'[e])
           left == unsunk[e]
           entry == [of |-> e, index |-> b]
<1>1. /\ phase[e] = "sinking" /\ b \in left /\ unsunk' = [unsunk EXCEPT ![e] = left \ {b}]
      /\ B!AppendTo(id[e], n, entry)
      /\ UNCHANGED <<sink, id, phase, ordered, afterId, output>>
  BY DEF B!Process
<1>2. n \in B!Namespaces
  BY DEF B!Namespaces
<1>3. /\ LogsOK' /\ \A f \in Executions \ {e} : LogsIn(log', id'[f]) = LogsIn(log, id[f])
      /\ after[n] = Append(logs[n], entry)
      /\ \A m \in B!Namespaces \ {n} : after[m] = logs[m]
  BY <1>1, <1>2, Appending
<1>4. Staged(e, k, left, logs) /\ afterId[e] = 0 /\ output[e] = <<>>
  BY <1>1 DEF DeliveryOK, Delivers
<1> HIDE DEF logs, after
<1>5. Staged(e, k, left \ {b}, after)
  <2>1. left \subseteq Batches /\ Holds(logs[n], e, Batches \ left)
    BY <1>4 DEF Staged
  <2>2. Batches \ (left \ {b}) = (Batches \ left) \cup {b} /\ b \in Batches \ (Batches \ left)
    BY <1>1, <2>1
  <2>3. Holds(after[n], e, Batches \ (left \ {b}))
    <3> DEFINE T == Batches \ left
    <3>1. T \in SUBSET Batches /\ Holds(logs[n], e, T) /\ b \in Batches \ T
          /\ Batches \ (left \ {b}) = T \cup {b}
      BY <2>1, <2>2
    <3> HIDE DEF T
    <3>2. QED
      BY <1>3, <3>1, OneMoreHeld
  <2>4. k = "indexed" => after["buf"] = <<>>
    BY <1>3, <1>4 DEF Staged, B!Namespaces
  <2>5. QED
    BY <2>1, <2>3, <2>4 DEF Staged
<1>6. Delivers(e, k, "sinking", left \ {b}, after, ordered[e], afterId[e], output[e])
  BY <1>4, <1>5 DEF Delivers
<1>7. /\ Becomes(phase, phase', e, "sinking") /\ Becomes(unsunk, unsunk', e, left \ {b})
      /\ Becomes(ordered, ordered', e, ordered[e]) /\ Becomes(afterId, afterId', e, afterId[e])
      /\ Becomes(output, output', e, output[e])
  BY <1>1, Becoming DEF DeliveryOK
<1>8. QED
  BY <1>1, <1>3, <1>6, <1>7, OneMoves DEF after

\* Sorted, the staged batches are those of the query, in the input's order.
LEMMA SortedIsWhole ==
  ASSUME B!BufferingAssumption, NEW e, NEW l, Holds(l, e, Batches)
  PROVE  LET sorted == B!SortedByIndex(l)
         IN Holds(sorted, e, Batches) /\ Ascending(sorted)
<1> DEFINE sorted == B!SortedByIndex(l)
           n == Len(l)
<1>1. /\ l \in Seq(B!InputOf(e)) /\ {l[i].index : i \in 1..n} = Batches
      /\ n = Cardinality(Batches) /\ n \in Nat
      /\ \A i, j \in 1..n : l[i].index = l[j].index => i = j
  BY DEF Holds
<1>2. \A t \in B!InputOf(e) : t.index \in Nat
  BY DEF B!InputOf, B!BufferingAssumption
<1>3. /\ sorted \in Seq(B!InputOf(e)) /\ Len(sorted) = n
      /\ \A i \in 1..n : \E j \in 1..n : sorted[i] = l[j]
      /\ \A i \in 1..n : \E j \in 1..n : sorted[j] = l[i]
      /\ \A i, j \in 1..n : i < j => sorted[i].index < sorted[j].index
  <2> DEFINE T == B!InputOf(e)
  <2>1. (\A t \in T : t.index \in Nat) /\ l \in Seq(T)
    BY <1>1, <1>2
  <2> HIDE DEF T, sorted
  <2>2. QED
    BY <1>1, <2>1, SortIsRight DEF sorted, T
<1> HIDE DEF sorted, n
<1>4. {sorted[i].index : i \in 1..n} = Batches
  <2>1. ASSUME NEW i \in 1..n PROVE sorted[i].index \in Batches
    <3>1. PICK j \in 1..n : sorted[i] = l[j]
      BY <1>3
    <3>2. l[j].index \in Batches
      BY <1>1
    <3>3. QED
      BY <3>1, <3>2
  <2>2. ASSUME NEW b \in Batches PROVE \E i \in 1..n : sorted[i].index = b
    <3>1. PICK i \in 1..n : l[i].index = b
      BY <1>1
    <3>2. PICK j \in 1..n : sorted[j] = l[i]
      BY <1>3
    <3>3. QED
      BY <3>1, <3>2
  <2>3. QED
    BY <2>1, <2>2
<1>5. \A i \in 1..n : sorted[i].index \in Nat
  BY <1>4 DEF B!BufferingAssumption
<1>6. ASSUME NEW i \in 1..n, NEW j \in 1..n, sorted[i].index = sorted[j].index
      PROVE  i = j
  <2> DEFINE a == sorted[i].index
             b == sorted[j].index
  <2>1. ~(i < j) /\ ~(j < i)
    <3>1. (i < j => a < b) /\ (j < i => b < a) /\ a \in Nat /\ b \in Nat /\ a = b
      BY <1>3, <1>5, <1>6
    <3> HIDE DEF a, b
    <3>2. QED
      BY <3>1
  <2>2. i \in Nat /\ j \in Nat
    BY <1>1
  <2>3. QED
    BY <2>1, <2>2
<1>7. QED
  BY <1>1, <1>3, <1>4, <1>6 DEF Holds, Ascending, sorted

LEMMA Combines ==
  ASSUME B!BufferingAssumption, QueryInv, DeliveryOK, NEW e \in Executions, B!Combine(e)
  PROVE  DeliveryOK'
<1> DEFINE k == sink[e]
           logs == LogsIn(log, id[e])
           rest == IF k = "indexed" THEN B!SortedByIndex(logs["buf.unsorted"]) ELSE <<>>
<1>1. /\ unsunk[e] = {} /\ phase[e] = "sinking"
      /\ phase' = [phase EXCEPT ![e] = "combining"]
      /\ ordered' = [ordered EXCEPT ![e] = rest]
      /\ UNCHANGED <<sink, id, unsunk, log, afterId, output>>
  BY DEF B!Combine, B!At, B!Logs, LogsIn
<1>2. LogsOK' /\ LogsIn(log', id'[e]) = logs
      /\ \A f \in Executions \ {e} : LogsIn(log', id'[f]) = LogsIn(log, id[f])
  BY <1>1 DEF DeliveryOK, LogsOK, LogsIn, B!Namespaces
<1>3. Staged(e, k, unsunk[e], logs) /\ afterId[e] = 0 /\ output[e] = <<>>
  BY <1>1 DEF DeliveryOK, Delivers
<1> HIDE DEF logs, rest, k
<1>4. Batches \ unsunk[e] = Batches
  BY <1>1
<1>5. Reconciled(e, k, logs, rest)
  <2>1. CASE k = "indexed"
    <3>1. Holds(logs["buf.unsorted"], e, Batches) /\ logs["buf"] = <<>>
      BY <1>3, <1>4, <2>1 DEF Staged
    <3>2. Holds(rest, e, Batches) /\ Ascending(rest)
      BY <2>1, <3>1, SortedIsWhole DEF rest
    <3>3. rest \in Seq(B!InputOf(e)) /\ <<>> \in Seq(B!InputOf(e))
      BY <3>2 DEF Holds
    <3>4. <<>> \o rest = rest
      BY <3>3, ConcatEmptySeq
    <3>5. QED
      BY <3>1, <3>2, <3>3, <3>4 DEF Reconciled, Whole
  <2>2. CASE k # "indexed"
    <3>1. Holds(logs["buf"], e, Batches) /\ rest = <<>>
      BY <1>3, <1>4, <2>2 DEF Staged, rest
    <3>2. logs["buf"] \in Seq(B!InputOf(e)) /\ <<>> \in Seq(B!InputOf(e))
      BY <3>1 DEF Holds
    <3>3. logs["buf"] \o <<>> = logs["buf"]
      BY <3>2, ConcatEmptySeq
    <3>4. QED
      BY <2>2, <3>1, <3>2, <3>3 DEF Reconciled, Whole
  <2>3. QED
    BY <2>1, <2>2
<1>6. Delivers(e, k, "combining", unsunk[e], logs, rest, afterId[e], output[e])
  BY <1>3, <1>5 DEF Delivers
<1>7. /\ Becomes(phase, phase', e, "combining") /\ Becomes(unsunk, unsunk', e, unsunk[e])
      /\ Becomes(ordered, ordered', e, rest) /\ Becomes(afterId, afterId', e, afterId[e])
      /\ Becomes(output, output', e, output[e])
  BY <1>1, Becoming DEF DeliveryOK
<1>8. QED
  BY <1>1, <1>2, <1>6, <1>7, OneMoves DEF k

\* Moving the first entry of what is left to the end of what is there.
LEMMA MovesOver ==
  ASSUME NEW T, NEW l \in Seq(T), NEW rest \in Seq(T), rest # <<>>
  PROVE  /\ Append(l, Head(rest)) \in Seq(T) /\ Tail(rest) \in Seq(T)
         /\ Append(l, Head(rest)) \o Tail(rest) = l \o rest
<1>1. Head(rest) \in T /\ Tail(rest) \in Seq(T)
  BY HeadTailProperties
<1>2. Append(l, Head(rest)) = l \o <<Head(rest)>> /\ <<Head(rest)>> \in Seq(T)
  BY <1>1, AppendIsConcat
<1>3. rest = <<Head(rest)>> \o Tail(rest)
  <2>1. 1 \in 1..Len(rest) /\ Len(rest) \in 1..Len(rest) /\ rest[1] = Head(rest)
    OBVIOUS
  <2>2. SubSeq(rest, 1, Len(rest)) = <<rest[1]>> \o SubSeq(rest, 1 + 1, Len(rest))
    BY <2>1, SubSeqRecursiveFirst
  <2>3. SubSeq(rest, 1, Len(rest)) = rest /\ Tail(rest) = SubSeq(rest, 1 + 1, Len(rest))
    BY SubSeqFull, TailIsSubSeq
  <2>4. QED
    BY <2>1, <2>2, <2>3
<1>4. (l \o <<Head(rest)>>) \o Tail(rest) = l \o (<<Head(rest)>> \o Tail(rest))
  BY <1>1, <1>2, ConcatAssociative
<1>5. l \o <<Head(rest)>> \in Seq(T)
  BY <1>2, ConcatProperties
<1>6. QED
  BY <1>1, <1>2, <1>3, <1>4, <1>5

LEMMA CombineAppends ==
  ASSUME QueryInv, DeliveryOK, NEW e \in Executions, B!CombineAppend(e)
  PROVE  DeliveryOK'
<1> DEFINE k == sink[e]
           logs == LogsIn(log, id[e])
           after == LogsIn(log', id'[e])
           rest == ordered[e]
<1>1. /\ phase[e] = "combining" /\ rest # <<>> /\ B!AppendTo(id[e], "buf", Head(rest))
      /\ ordered' = [ordered EXCEPT ![e] = Tail(rest)]
      /\ UNCHANGED <<sink, id, phase, unsunk, afterId, output>>
  BY DEF B!CombineAppend
<1>2. LogsOK' /\ after["buf"] = Append(logs["buf"], Head(rest))
      /\ \A f \in Executions \ {e} : LogsIn(log', id'[f]) = LogsIn(log, id[f])
  <2>1. "buf" \in B!Namespaces /\ phase[e] # "bound"
    BY <1>1 DEF B!Namespaces
  <2>2. QED
    BY <1>1, <2>1, Appending
<1>3. Reconciled(e, k, logs, rest) /\ afterId[e] = 0 /\ output[e] = <<>>
  BY <1>1 DEF DeliveryOK, Delivers
<1> HIDE DEF logs, after, rest, k
<1>4. Reconciled(e, k, after, Tail(rest))
  BY <1>1, <1>2, <1>3, MovesOver DEF Reconciled
<1>5. Delivers(e, k, "combining", unsunk[e], after, Tail(rest), afterId[e], output[e])
  BY <1>3, <1>4 DEF Delivers
<1>6. /\ Becomes(phase, phase', e, "combining") /\ Becomes(unsunk, unsunk', e, unsunk[e])
      /\ Becomes(ordered, ordered', e, Tail(rest)) /\ Becomes(afterId, afterId', e, afterId[e])
      /\ Becomes(output, output', e, output[e])
  BY <1>1, Becoming DEF DeliveryOK
<1>7. QED
  BY <1>1, <1>2, <1>5, <1>6, OneMoves DEF k, after

\* A step that leaves the storage and the ids alone.
LEMMA LogsStay ==
  ASSUME DeliveryOK, NEW e \in Executions, UNCHANGED <<log, id>>
  PROVE  /\ LogsOK' /\ LogsIn(log', id'[e]) = LogsIn(log, id[e])
         /\ \A f \in Executions \ {e} : LogsIn(log', id'[f]) = LogsIn(log, id[f])
BY DEF DeliveryOK, LogsOK, LogsIn, B!Namespaces

LEMMA Closes ==
  ASSUME QueryInv, DeliveryOK, NEW e \in Executions, B!Close(e)
  PROVE  DeliveryOK'
<1> DEFINE k == sink[e]
           logs == LogsIn(log, id[e])
<1>1. /\ unsunk[e] = {} /\ k = "copy_to" /\ phase[e] = "sinking"
      /\ phase' = [phase EXCEPT ![e] = "done"]
      /\ output' = [output EXCEPT ![e] = logs["buf"]]
      /\ UNCHANGED <<sink, id, unsunk, log, ordered, afterId>>
  BY DEF B!Close, B!At, B!Logs, LogsIn
<1>2. LogsOK' /\ LogsIn(log', id'[e]) = logs
      /\ \A f \in Executions \ {e} : LogsIn(log', id'[f]) = LogsIn(log, id[f])
  BY <1>1, LogsStay
<1>3. Staged(e, k, unsunk[e], logs)
  BY <1>1 DEF DeliveryOK, Delivers
<1> HIDE DEF logs, k
<1>4. Whole(logs["buf"], e, k)
  <2>1. Batches \ unsunk[e] = Batches
    BY <1>1
  <2>2. QED
    BY <1>1, <1>3, <2>1 DEF Staged, Whole
<1>5. Delivers(e, k, "done", unsunk[e], logs, ordered[e], afterId[e], logs["buf"])
  BY <1>4 DEF Delivers
<1>6. /\ Becomes(phase, phase', e, "done") /\ Becomes(unsunk, unsunk', e, unsunk[e])
      /\ Becomes(ordered, ordered', e, ordered[e]) /\ Becomes(afterId, afterId', e, afterId[e])
      /\ Becomes(output, output', e, logs["buf"])
  BY <1>1, Becoming DEF DeliveryOK
<1>7. QED
  BY <1>1, <1>2, <1>5, <1>6, OneMoves DEF k

LEMMA BeginsToReplay ==
  ASSUME QueryInv, DeliveryOK, NEW e \in Executions, B!InitFinalize(e)
  PROVE  DeliveryOK'
<1> DEFINE k == sink[e]
           logs == LogsIn(log, id[e])
<1>1. /\ ordered[e] = <<>> /\ phase[e] = "combining"
      /\ phase' = [phase EXCEPT ![e] = "replaying"]
      /\ UNCHANGED <<sink, id, unsunk, log, ordered, afterId, output>>
  BY DEF B!InitFinalize, B!At
<1>2. LogsOK' /\ LogsIn(log', id'[e]) = logs
      /\ \A f \in Executions \ {e} : LogsIn(log', id'[f]) = LogsIn(log, id[f])
  BY <1>1, LogsStay
<1>3. Reconciled(e, k, logs, <<>>) /\ afterId[e] = 0 /\ output[e] = <<>>
  BY <1>1 DEF DeliveryOK, Delivers
<1> HIDE DEF logs, k
<1>4. Replayed(e, k, logs, 0, <<>>)
  <2>1. logs["buf"] \in Seq(B!InputOf(e)) /\ Whole(logs["buf"] \o <<>>, e, k)
    BY <1>3 DEF Reconciled
  <2>2. logs["buf"] \o <<>> = logs["buf"]
    BY <2>1, ConcatEmptySeq
  <2>3. SubSeq(logs["buf"], 1, 0) = <<>>
    BY SubSeqEmpty
  <2>4. 0 \in 0..Len(logs["buf"])
    BY <2>1
  <2>5. QED
    BY <2>1, <2>2, <2>3, <2>4 DEF Replayed
<1>5. Delivers(e, k, "replaying", unsunk[e], logs, ordered[e], afterId[e], output[e])
  BY <1>3, <1>4 DEF Delivers
<1>6. /\ Becomes(phase, phase', e, "replaying") /\ Becomes(unsunk, unsunk', e, unsunk[e])
      /\ Becomes(ordered, ordered', e, ordered[e]) /\ Becomes(afterId, afterId', e, afterId[e])
      /\ Becomes(output, output', e, output[e])
  BY <1>1, Becoming DEF DeliveryOK
<1>7. QED
  BY <1>1, <1>2, <1>5, <1>6, OneMoves DEF k

LEMMA Replays ==
  ASSUME QueryInv, DeliveryOK, NEW e \in Executions, B!NextBatch(e)
  PROVE  DeliveryOK'
<1> DEFINE k == sink[e]
           logs == LogsIn(log, id[e])
           buf == logs["buf"]
           at == afterId[e]
           more == Append(output[e], buf[at + 1])
<1>1. /\ phase[e] = "replaying" /\ at < Len(buf)
      /\ output' = [output EXCEPT ![e] = more]
      /\ afterId' = [afterId EXCEPT ![e] = at + 1]
      /\ UNCHANGED <<sink, id, phase, unsunk, log, ordered>>
  BY DEF B!NextBatch, B!Logs, LogsIn
<1>2. LogsOK' /\ LogsIn(log', id'[e]) = logs
      /\ \A f \in Executions \ {e} : LogsIn(log', id'[f]) = LogsIn(log, id[f])
  BY <1>1, LogsStay
<1>3. Replayed(e, k, logs, at, output[e])
  BY <1>1 DEF DeliveryOK, Delivers
<1> HIDE DEF logs, k, at
<1>4. /\ Whole(buf, e, k) /\ buf \in Seq(B!InputOf(e))
      /\ at \in 0..Len(buf) /\ output[e] = SubSeq(buf, 1, at)
  BY <1>3 DEF Replayed, Whole, Holds
<1>5. Len(buf) \in Nat /\ at \in Nat /\ at + 1 \in 1..Len(buf) /\ 1 \in 1..Len(buf)
      /\ (at + 1) - 1 = at
  BY <1>1, <1>4
<1>6. more = SubSeq(buf, 1, at + 1)
  <2> DEFINE T == B!InputOf(e)
             x == buf[at + 1]
             taken == SubSeq(buf, 1, at)
  <2>1. x \in T /\ \A i \in 1..at : buf[i] \in T
    BY <1>4, <1>5
  <2>2. taken \in Seq(T)
    <3> HIDE DEF buf, T
    <3>1. QED
      BY <1>5, <2>1, SubSeqProperties
  <2>3. SubSeq(buf, 1, at + 1) = taken \o <<x>>
    <3> DEFINE m == at + 1
    <3>1. buf \in Seq(T) /\ m \in 1..Len(buf) /\ m - 1 = at
      BY <1>4, <1>5
    <3> HIDE DEF buf, T, m
    <3>2. SubSeq(buf, 1, m) = SubSeq(buf, 1, m - 1) \o <<buf[m]>>
      BY <1>5, <3>1, SubSeqRecursiveSecond
    <3>3. QED
      BY <3>1, <3>2 DEF m
  <2> HIDE DEF taken, x, T
  <2>4. Append(taken, x) = taken \o <<x>>
    BY <2>1, <2>2, AppendIsConcat
  <2>5. QED
    BY <1>4, <2>3, <2>4 DEF taken, x
<1>7. Replayed(e, k, logs, at + 1, more)
  <2> HIDE DEF more
  <2>1. QED
    BY <1>4, <1>5, <1>6 DEF Replayed
<1>8. Delivers(e, k, "replaying", unsunk[e], logs, ordered[e], at + 1, more)
  BY <1>7 DEF Delivers
<1>9. /\ Becomes(phase, phase', e, "replaying") /\ Becomes(unsunk, unsunk', e, unsunk[e])
      /\ Becomes(ordered, ordered', e, ordered[e]) /\ Becomes(afterId, afterId', e, at + 1)
      /\ Becomes(output, output', e, more)
  <2> HIDE DEF more
  <2>1. QED
    BY <1>1, Becoming DEF DeliveryOK
<1>10. QED
  <2> HIDE DEF more
  <2>1. QED
    BY <1>1, <1>2, <1>8, <1>9, OneMoves DEF k

LEMMA EndsReplay ==
  ASSUME QueryInv, DeliveryOK, NEW e \in Executions, B!ReplayEnds(e)
  PROVE  DeliveryOK'
<1> DEFINE k == sink[e]
           logs == LogsIn(log, id[e])
           buf == logs["buf"]
<1>1. /\ phase[e] = "replaying" /\ afterId[e] >= Len(buf)
      /\ phase' = [phase EXCEPT ![e] = "done"]
      /\ UNCHANGED <<sink, id, unsunk, log, ordered, afterId, output>>
  BY DEF B!ReplayEnds, B!At, B!Logs, LogsIn
<1>2. LogsOK' /\ LogsIn(log', id'[e]) = logs
      /\ \A f \in Executions \ {e} : LogsIn(log', id'[f]) = LogsIn(log, id[f])
  BY <1>1, LogsStay
<1>3. Replayed(e, k, logs, afterId[e], output[e])
  BY <1>1 DEF DeliveryOK, Delivers
<1> HIDE DEF logs, k
<1>4. Whole(output[e], e, k)
  <2>1. /\ Whole(buf, e, k) /\ buf \in Seq(B!InputOf(e))
        /\ afterId[e] \in 0..Len(buf) /\ output[e] = SubSeq(buf, 1, afterId[e])
    BY <1>3 DEF Replayed, Whole, Holds
  <2>2. afterId[e] = Len(buf)
    BY <1>1, <2>1
  <2>3. SubSeq(buf, 1, Len(buf)) = buf
    BY <2>1, SubSeqFull
  <2>4. QED
    BY <2>1, <2>2, <2>3
<1>5. Delivers(e, k, "done", unsunk[e], logs, ordered[e], afterId[e], output[e])
  BY <1>4 DEF Delivers
<1>6. /\ Becomes(phase, phase', e, "done") /\ Becomes(unsunk, unsunk', e, unsunk[e])
      /\ Becomes(ordered, ordered', e, ordered[e]) /\ Becomes(afterId, afterId', e, afterId[e])
      /\ Becomes(output, output', e, output[e])
  BY <1>1, Becoming DEF DeliveryOK
<1>7. QED
  BY <1>1, <1>2, <1>5, <1>6, OneMoves DEF k

\* A query that failed or was destroyed delivers nothing more.
LEMMA Destroys ==
  ASSUME QueryInv, DeliveryOK, NEW e \in Executions, B!Destructor(e)
  PROVE  DeliveryOK'
<1>1. /\ phase[e] \in {"done", "failed"} /\ phase' = [phase EXCEPT ![e] = "destroyed"]
      /\ log' = B!Without(log, id[e])
      /\ UNCHANGED <<sink, id, unsunk, ordered, afterId, output>>
  BY DEF B!Destructor
<1>2. /\ DOMAIN log' = DOMAIN log \ {id[e]}
      /\ \A s \in DOMAIN log' : log'[s] = log[s]
  BY <1>1 DEF B!Without
<1>3. LogsOK'
  <2>1. \A s \in DOMAIN log' : DOMAIN log'[s] = B!Namespaces
    BY <1>2 DEF DeliveryOK, LogsOK
  <2>2. QED
    BY <2>1 DEF LogsOK, B!Namespaces
<1>4. ASSUME NEW f \in Executions \ {e}
      PROVE  LogsIn(log', id'[f]) = LogsIn(log, id[f])
  <2>1. id[f] # id[e]
    BY <1>1 DEF QueryInv, IdsOK
  <2>2. QED
    BY <1>1, <1>2, <2>1 DEF LogsIn
<1>5. Delivers(e, sink[e], "destroyed", unsunk[e], LogsIn(log', id'[e]), ordered[e],
               afterId[e], output[e])
  BY DEF Delivers
<1>6. /\ Becomes(phase, phase', e, "destroyed") /\ Becomes(unsunk, unsunk', e, unsunk[e])
      /\ Becomes(ordered, ordered', e, ordered[e]) /\ Becomes(afterId, afterId', e, afterId[e])
      /\ Becomes(output, output', e, output[e])
  BY <1>1, Becoming DEF DeliveryOK
<1>7. QED
  BY <1>1, <1>3, <1>4, <1>5, <1>6, OneMoves

LEMMA Fails ==
  ASSUME QueryInv, DeliveryOK, NEW e \in Executions, B!Fail(e)
  PROVE  DeliveryOK'
<1>1. /\ phase' = [phase EXCEPT ![e] = "failed"]
      /\ UNCHANGED <<sink, id, unsunk, log, ordered, afterId, output>>
  BY DEF B!Fail
<1>2. LogsOK' /\ \A f \in Executions \ {e} : LogsIn(log', id'[f]) = LogsIn(log, id[f])
  BY <1>1, LogsStay
<1>3. Delivers(e, sink[e], "failed", unsunk[e], LogsIn(log', id'[e]), ordered[e],
               afterId[e], output[e])
  BY DEF Delivers
<1>4. /\ Becomes(phase, phase', e, "failed") /\ Becomes(unsunk, unsunk', e, unsunk[e])
      /\ Becomes(ordered, ordered', e, ordered[e]) /\ Becomes(afterId, afterId', e, afterId[e])
      /\ Becomes(output, output', e, output[e])
  BY <1>1, Becoming DEF DeliveryOK
<1>5. QED
  BY <1>1, <1>2, <1>3, <1>4, OneMoves

LEMMA DeliveryFrame == ASSUME DeliveryOK, UNCHANGED bvars PROVE DeliveryOK'
<1>1. UNCHANGED <<sink, id, phase, unsunk, log, ordered, afterId, output>>
  BY DEF bvars
<1>2. LogsOK'
  BY <1>1 DEF DeliveryOK, LogsOK, B!Namespaces
<1>3. ASSUME NEW e \in Executions
      PROVE  Delivers(e, sink'[e], phase'[e], unsunk'[e], LogsIn(log', id'[e]), ordered'[e],
                      afterId'[e], output'[e])
  BY <1>1 DEF DeliveryOK
<1>4. QED
  BY <1>1, <1>2, <1>3 DEF DeliveryOK

\* For any number of queries, processes and batches, with the calls of every
\* query in any order and on any process: a query that ends has delivered each
\* of its batches once, and those of no other; the batch_index sink in the order
\* of the input (table_buffering_process, combine, Replay::next_batch).
THEOREM Delivery == Spec => []DeliversWhatWasSunk
<1>1. B!BufferingAssumption
  BY ExecutionAssumption
<1>2. Init => QueryInv /\ DeliveryOK
  BY QueryInit, DeliveryInit DEF Init
<1>3. ASSUME QueryInv, DeliveryOK, NEW e \in Executions, B!Step(e) \/ B!Destructor(e) \/ B!Fail(e)
      PROVE  DeliveryOK'
  BY <1>1, <1>3, BeginsToSink, Sinks, Combines, CombineAppends, Closes, BeginsToReplay,
     Replays, EndsReplay, Destroys, Fails DEF B!Step
<1>4. QueryInv /\ DeliveryOK /\ [Next]_vars => (QueryInv /\ DeliveryOK)'
  BY <1>3, QueryStep, QueryFrame, DeliveryFrame, QueriesOrNot
<1>5. QED
  BY <1>2, <1>4, DeliveryImplies, PTL DEF Spec
=============================================================================
