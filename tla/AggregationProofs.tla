--------------------------- MODULE AggregationProofs --------------------------
(***************************************************************************)
(* Proofs about the aggregates of Execution: grouped, windowed and running *)
(* sums are what SQL says, for any threads, updates, windows, frames and   *)
(* chunks.                                                                 *)
(***************************************************************************)
EXTENDS Execution, FiniteSetTheorems, SequenceTheorems, WellFoundedInduction, TLAPS

\* A set of naturals has a least one.
LEMMA LeastOf ==
  ASSUME NEW T \in SUBSET Nat, T # {}
  PROVE  \E a \in T : \A b \in T : a <= b
<1>1. PICK a \in T : \A b \in T : ~(<<b, a>> \in OpToRel(<, Nat))
  BY WFMin, NatLessThanWellFounded
<1>2. \A b \in T : ~(b < a)
  BY <1>1 DEF OpToRel
<1>3. QED
  BY <1>2

LEMMA Assumed ==
  /\ Threads # {} /\ A!IsFiniteSet(Threads) /\ MaxCalls \in Nat /\ Null \notin Int
  /\ \A batch \in Updates : A!AreRows(batch)
  /\ \A chunk \in Chunks :
       A!AreRows(chunk) /\ \A i \in DOMAIN chunk : chunk[i][1] \in Seq(A!KeyBytes)
  /\ \A w \in Windows :
       /\ A!IsSequence(w.rows)
       /\ w.mask \in Seq(BOOLEAN) /\ (w.mask = <<>> \/ Len(w.mask) = Len(w.rows))
  BY ExecutionAssumption DEF A!AggregationAssumption

-----------------------------------------------------------------------------
(* Sums with NULLs                                                         *)

LEMMA PlusIs ==
  /\ Null \in A!Values /\ Int \subseteq A!Values
  /\ \A a, b \in A!Values : A!Plus(a, b) \in A!Values
  /\ \A a, b, c \in A!Values : A!Plus(A!Plus(a, b), c) = A!Plus(A!Plus(a, c), b)
  /\ \A a, b, c \in A!Values : A!Plus(A!Plus(a, b), c) = A!Plus(a, A!Plus(b, c))
  /\ \A a \in A!Values : A!Plus(a, Null) = a /\ A!Plus(Null, a) = a
  /\ \A a \in A!Values : \A b \in Int : A!Plus(a, b) \in Int /\ A!Plus(b, a) \in Int
  /\ \A a, b \in Int : A!Plus(a, b) = a + b
  BY Assumed DEF A!Plus, A!Values

\* f holds the sums of the first i of n values, for every i.
Sums(f, start, values, n) ==
  f[0] = start /\ \A i \in 1..n : f[i] = A!Plus(f[i - 1], values[i])

IsSum(f, start, values, n) ==
  f = [i \in 0..n |-> IF i = 0 THEN start ELSE A!Plus(f[i - 1], values[i])]

\* The recursive definition has a solution.
LEMMA SumExists == ASSUME NEW start, NEW values, NEW n \in Nat PROVE \E f : IsSum(f, start, values, n)
<1> DEFINE bad == {m \in Nat : ~\E f : IsSum(f, start, values, m)}
<1>1. SUFFICES ASSUME bad # {} PROVE FALSE
  OBVIOUS
<1>2. PICK m \in bad : \A k \in bad : m <= k
  BY <1>1, LeastOf
<1>3. m # 0
  <2> DEFINE f == [i \in 0..0 |-> start]
  <2>1. f = [i \in 0..0 |-> IF i = 0 THEN start ELSE A!Plus(f[i - 1], values[i])]
    OBVIOUS
  <2> HIDE DEF f
  <2>2. IsSum(f, start, values, 0)
    BY <2>1 DEF IsSum
  <2>3. QED
    BY <2>2
<1>4. m - 1 \in Nat /\ ~(m <= m - 1)
  BY <1>3
<1>5. PICK f : IsSum(f, start, values, m - 1)
  BY <1>2, <1>4
<1> DEFINE Next_(h, i) == IF i = 0 THEN start ELSE A!Plus(h[i - 1], values[i])
           g == [i \in 0..m |-> Next_(f, i)]
<1>6. ASSUME NEW i \in 0..m, i # 0 PROVE g[i - 1] = f[i - 1]
  <2>1. i - 1 \in 0..m /\ i - 1 \in 0..(m - 1)
    BY <1>6, <1>4
  <2>2. f = [j \in 0..(m - 1) |-> Next_(f, j)]
    BY <1>5 DEF IsSum
  <2>3. f[i - 1] = Next_(f, i - 1)
    BY <2>1, <2>2
  <2>4. QED
    BY <2>1, <2>3
<1>7. \A i \in 0..m : g[i] = Next_(g, i)
  <2> TAKE i \in 0..m
  <2>1. g[i] = Next_(f, i)
    OBVIOUS
  <2> HIDE DEF g
  <2>2. QED
    BY <1>6, <2>1
<1>8. g = [i \in 0..m |-> g[i]]
  OBVIOUS
<1> HIDE DEF g
<1>9. IsSum(g, start, values, m)
  BY <1>7, <1>8 DEF IsSum
<1>10. QED
  BY <1>2, <1>9

LEMMA SumOfIs ==
  ASSUME NEW start, NEW values, Len(values) \in Nat
  PROVE  \E f : /\ Sums(f, start, values, Len(values))
                /\ A!SumOf(start, values) = f[Len(values)]
<1> DEFINE n == Len(values)
           f == CHOOSE g : IsSum(g, start, values, n)
<1>1. A!SumOf(start, values) = f[n]
  BY DEF A!SumOf, IsSum
<1>2. IsSum(f, start, values, n)
  BY SumExists
<1> HIDE DEF f, n
<1>3. \A i \in 0..n : f[i] = IF i = 0 THEN start ELSE A!Plus(f[i - 1], values[i])
  <2>1. f = [i \in 0..n |-> IF i = 0 THEN start ELSE A!Plus(f[i - 1], values[i])]
    BY <1>2 DEF IsSum
  <2>2. QED
    BY <2>1
<1>4. Sums(f, start, values, n)
  <2>1. 0 \in 0..n /\ \A i \in 1..n : i \in 0..n /\ i # 0
    BY DEF n
  <2>2. QED
    BY <1>3, <2>1 DEF Sums
<1>5. QED
  BY <1>1, <1>4 DEF n

\* Values that differ in the i-th place, or in the start for i = 0, by x.
Differ(v, w, s, t, i, x, n) ==
  /\ \A j \in 1..n : v[j] \in A!Values
  /\ \A j \in 1..n : w[j] = IF j = i THEN A!Plus(v[j], x) ELSE v[j]
  /\ t = IF i = 0 THEN A!Plus(s, x) ELSE s

\* The sums differ by x from there on.
SumsDifferFrom(f, g, i, x, n) ==
  \A j \in 0..n : f[j] \in A!Values /\ g[j] = IF j < i THEN f[j] ELSE A!Plus(f[j], x)

LEMMA SumsDiffer ==
  ASSUME NEW n \in Nat, NEW v, NEW w, NEW s \in A!Values, NEW t, NEW x \in A!Values,
         NEW i \in 0..n, NEW f, NEW g, Sums(f, s, v, n), Sums(g, t, w, n),
         Differ(v, w, s, t, i, x, n)
  PROVE  SumsDifferFrom(f, g, i, x, n)
<1> USE DEF Differ
<1> DEFINE Good(j) == f[j] \in A!Values /\ g[j] = IF j < i THEN f[j] ELSE A!Plus(f[j], x)
           bad == {j \in 0..n : ~Good(j)}
<1>1. SUFFICES ASSUME bad # {} PROVE FALSE
  BY DEF SumsDifferFrom
<1>2. PICK j \in bad : \A k \in bad : j <= k
  <2>1. bad \in SUBSET Nat
    OBVIOUS
  <2>2. QED
    BY <1>1, <2>1, LeastOf
<1>3. j \in 0..n /\ ~Good(j)
  BY <1>2
<1>4. j # 0
  <2>1. f[0] = s /\ g[0] = t
    BY DEF Sums
  <2>2. 0 < i <=> i # 0
    OBVIOUS
  <2>3. Good(0)
    BY <2>1, <2>2
  <2> HIDE DEF Good
  <2>4. QED
    BY <1>3, <2>3
<1>5. j \in 1..n /\ j - 1 \in 0..n /\ ~(j <= j - 1)
  BY <1>3, <1>4
<1>6. Good(j - 1)
  BY <1>2, <1>5
<1>7. f[j] = A!Plus(f[j - 1], v[j]) /\ g[j] = A!Plus(g[j - 1], w[j]) /\ v[j] \in A!Values
  BY <1>5 DEF Sums
<1> DEFINE a == f[j - 1]
           b == v[j]
<1>8. a \in A!Values /\ b \in A!Values /\ f[j] \in A!Values
  <2>1. a \in A!Values /\ b \in A!Values
    BY <1>6, <1>7
  <2>2. f[j] = A!Plus(a, b)
    BY <1>7
  <2> HIDE DEF a, b
  <2>3. QED
    BY <2>1, <2>2, PlusIs
<1>9. CASE j < i
  <2>1. j - 1 < i /\ j # i
    BY <1>5, <1>9
  <2>2. g[j] = f[j]
    BY <1>5, <1>6, <1>7, <2>1
  <2>3. QED
    BY <1>3, <1>8, <1>9, <2>2
<1>10. CASE j = i
  <2>1. j - 1 < i /\ ~(j < i)
    BY <1>5, <1>10
  <2>2. g[j] = A!Plus(a, A!Plus(b, x)) /\ f[j] = A!Plus(a, b)
    BY <1>5, <1>6, <1>7, <1>10, <2>1
  <2> HIDE DEF a, b
  <2>3. g[j] = A!Plus(f[j], x)
    BY <1>8, <2>2, PlusIs
  <2>4. QED
    BY <1>3, <1>8, <2>1, <2>3
<1>11. CASE j > i
  <2>1. ~(j - 1 < i) /\ ~(j < i) /\ j # i
    BY <1>5, <1>11
  <2>2. g[j] = A!Plus(A!Plus(a, x), b) /\ f[j] = A!Plus(a, b)
    BY <1>5, <1>6, <1>7, <2>1
  <2> HIDE DEF a, b
  <2>3. g[j] = A!Plus(f[j], x)
    BY <1>8, <2>2, PlusIs
  <2>4. QED
    BY <1>3, <1>8, <2>1, <2>3
<1>12. QED
  <2>1. j < i \/ j = i \/ j > i
    BY <1>3
  <2>2. QED
    BY <1>9, <1>10, <1>11, <2>1

AreValues(v) == Len(v) \in Nat /\ \A i \in 1..Len(v) : v[i] \in A!Values

\* A sum that starts with x more is x more.
LEMMA SumShifted ==
  ASSUME NEW v, AreValues(v), NEW s \in A!Values, NEW x \in A!Values
  PROVE  /\ A!SumOf(s, v) \in A!Values
         /\ A!SumOf(A!Plus(s, x), v) = A!Plus(A!SumOf(s, v), x)
<1> DEFINE n == Len(v)
<1>1. n \in Nat /\ \A j \in 1..n : v[j] \in A!Values
  BY DEF AreValues
<1>2. PICK f : Sums(f, s, v, n) /\ A!SumOf(s, v) = f[n]
  BY <1>1, SumOfIs
<1>3. PICK g : Sums(g, A!Plus(s, x), v, n) /\ A!SumOf(A!Plus(s, x), v) = g[n]
  BY <1>1, SumOfIs
<1> HIDE DEF n
<1>4. 0 \in 0..n /\ n \in 0..n /\ ~(n < 0) /\ \A j \in 1..n : j # 0
  BY <1>1
<1>5. f[n] \in A!Values /\ g[n] = A!Plus(f[n], x)
  <2> DEFINE t == A!Plus(s, x)
  <2>1. Differ(v, v, s, t, 0, x, n) /\ Sums(g, t, v, n)
    BY <1>1, <1>3, <1>4 DEF Differ
  <2> HIDE DEF t
  <2>2. SumsDifferFrom(f, g, 0, x, n)
    BY <1>1, <1>2, <1>4, <2>1, SumsDiffer
  <2>3. QED
    BY <1>4, <2>2 DEF SumsDifferFrom
<1>6. QED
  BY <1>2, <1>3, <1>5

\* A sum of values of which the i-th is x more is x more.
LEMMA SumBumped ==
  ASSUME NEW v, AreValues(v), NEW w, Len(w) = Len(v), NEW s \in A!Values, NEW x \in A!Values,
         NEW i \in 1..Len(v), w[i] = A!Plus(v[i], x),
         \A j \in 1..Len(v) : j # i => w[j] = v[j]
  PROVE  A!SumOf(s, w) = A!Plus(A!SumOf(s, v), x)
<1> DEFINE n == Len(v)
<1>1. n \in Nat /\ \A j \in 1..n : v[j] \in A!Values
  BY DEF AreValues
<1>2. PICK f : Sums(f, s, v, n) /\ A!SumOf(s, v) = f[n]
  BY <1>1, SumOfIs
<1>3. PICK g : Sums(g, s, w, n) /\ A!SumOf(s, w) = g[n]
  BY <1>1, SumOfIs
<1>4. i \in 1..n /\ \A j \in 1..n : w[j] = IF j = i THEN A!Plus(v[j], x) ELSE v[j]
  OBVIOUS
<1> HIDE DEF n
<1>5. i \in 0..n /\ n \in 0..n /\ ~(n < i) /\ i # 0
  BY <1>1, <1>4
<1>6. g[n] = A!Plus(f[n], x)
  <2>1. Differ(v, w, s, s, i, x, n)
    BY <1>1, <1>4, <1>5 DEF Differ
  <2>2. SumsDifferFrom(f, g, i, x, n)
    BY <1>1, <1>2, <1>3, <1>5, <2>1, SumsDiffer
  <2>3. QED
    BY <1>5, <2>2 DEF SumsDifferFrom
<1>7. QED
  BY <1>2, <1>3, <1>6

LEMMA SumOfNulls ==
  ASSUME NEW v, Len(v) \in Nat, NEW s \in A!Values, \A i \in 1..Len(v) : v[i] = Null
  PROVE  A!SumOf(s, v) = s
<1> DEFINE n == Len(v)
<1>1. PICK f : Sums(f, s, v, n) /\ A!SumOf(s, v) = f[n]
  BY SumOfIs
<1> DEFINE bad == {j \in 0..n : f[j] # s}
<1>2. bad = {}
  <2>1. SUFFICES ASSUME bad # {} PROVE FALSE
    OBVIOUS
  <2>2. PICK j \in bad : \A k \in bad : j <= k
    <3>1. bad \in SUBSET Nat
      OBVIOUS
    <3>2. QED
      BY <2>1, <3>1, LeastOf
  <2>3. j \in 0..n /\ f[j] # s
    BY <2>2
  <2>4. j # 0
    BY <1>1, <2>3 DEF Sums
  <2>5. j \in 1..n /\ j - 1 \in 0..n /\ ~(j <= j - 1)
    BY <2>3, <2>4
  <2>6. f[j - 1] = s
    BY <2>2, <2>5
  <2>7. f[j] = A!Plus(s, Null)
    BY <1>1, <2>5, <2>6 DEF Sums
  <2>8. QED
    BY <2>3, <2>7, PlusIs
<1>3. n \in 0..n
  OBVIOUS
<1>4. QED
  BY <1>1, <1>2, <1>3

\* A sum that has an integer is one.
LEMMA SumOfSome ==
  ASSUME NEW v, AreValues(v), NEW s \in A!Values,
         s \in Int \/ \E i \in 1..Len(v) : v[i] \in Int
  PROVE  A!SumOf(s, v) \in Int
<1>1. CASE s \in Int
  <2>1. A!SumOf(Null, v) \in A!Values /\ A!SumOf(A!Plus(Null, s), v) = A!Plus(A!SumOf(Null, v), s)
    BY PlusIs, SumShifted
  <2>2. A!Plus(Null, s) = s /\ A!Plus(A!SumOf(Null, v), s) \in Int
    BY <1>1, <2>1, PlusIs
  <2>3. QED
    BY <2>1, <2>2
<1>2. CASE \E i \in 1..Len(v) : v[i] \in Int
  <2>1. PICK i \in 1..Len(v) : v[i] \in Int
    BY <1>2
  <2> DEFINE n == Len(v)
             w == [j \in 1..n |-> IF j = i THEN Null ELSE v[j]]
  <2>2. n \in Nat /\ \A j \in 1..n : v[j] \in A!Values
    BY DEF AreValues
  <2>3. /\ Len(w) = n /\ w[i] = Null /\ \A j \in 1..n : j # i => w[j] = v[j]
        /\ \A j \in 1..n : w[j] \in A!Values
    <3>1. w \in [1..n -> A!Values]
      BY <2>2, PlusIs
    <3>2. QED
      BY <2>2, <3>1
  <2> HIDE DEF w
  <2>4. AreValues(w) /\ v[i] = A!Plus(w[i], v[i]) /\ v[i] \in A!Values
    BY <2>1, <2>2, <2>3, PlusIs DEF AreValues
  <2>5. A!SumOf(s, v) = A!Plus(A!SumOf(s, w), v[i])
    BY <2>2, <2>3, <2>4, SumBumped
  <2>6. A!SumOf(s, w) \in A!Values
    BY <2>4, SumShifted
  <2>7. QED
    BY <2>1, <2>5, <2>6, PlusIs
<1>3. QED
  BY <1>1, <1>2

-----------------------------------------------------------------------------
(* Totals by key                                                           *)

LEMMA UnderIs ==
  ASSUME NEW rows, A!AreRows(rows), NEW key
  PROVE  LET v == A!ValuesUnder(rows, key)
         IN /\ AreValues(v) /\ Len(v) = Len(rows) /\ DOMAIN rows = 1..Len(rows)
            /\ \A i \in 1..Len(rows) : v[i] = IF rows[i][1] = key THEN rows[i][2] ELSE Null
<1> DEFINE n == Len(rows)
           v == A!ValuesUnder(rows, key)
<1>1. n \in Nat /\ DOMAIN rows = 1..n /\ \A i \in 1..n : rows[i][2] \in A!Values
  BY DEF A!AreRows, A!IsSequence
<1>2. v = [i \in 1..n |-> IF rows[i][1] = key THEN rows[i][2] ELSE Null]
  BY <1>1 DEF A!ValuesUnder
<1> HIDE DEF n, v
<1>3. v \in [1..n -> A!Values]
  BY <1>1, <1>2, PlusIs
<1>4. Len(v) = n
  BY <1>1, <1>3
<1>5. QED
  BY <1>1, <1>2, <1>3, <1>4 DEF AreValues, n, v

Typed(f) == \A k \in DOMAIN f : f[k] \in A!Values

\* Under each key, rows add to a total what they have under it.
LEMMA Folding ==
  ASSUME NEW f, Typed(f), NEW rows, A!AreRows(rows)
  PROVE  LET g == A!FoldRows(f, rows)
         IN /\ \A k : A!Absent(g, k) = A!SumOf(A!Absent(f, k), A!ValuesUnder(rows, k))
            /\ Typed(g)
            /\ (\A k \in DOMAIN f : f[k] \in Int) => \A k \in DOMAIN g : g[k] \in Int
            /\ DOMAIN f \subseteq DOMAIN g
            /\ \A k \in DOMAIN g : k \in DOMAIN f \/ \E i \in DOMAIN rows : rows[i][1] = k
<1> DEFINE g == A!FoldRows(f, rows)
           some == {rows[i][1] : i \in {j \in DOMAIN rows : rows[j][2] # Null}}
           Sum(k) == A!SumOf(A!Absent(f, k), A!ValuesUnder(rows, k))
<1>1. DOMAIN g = DOMAIN f \cup some /\ \A k \in DOMAIN g : g[k] = Sum(k)
  BY DEF A!FoldRows
<1> HIDE DEF g
<1>2. ASSUME NEW k
      PROVE  A!Absent(f, k) \in A!Values /\ (k \notin DOMAIN f => A!Absent(f, k) = Null)
             /\ (k \in DOMAIN f => A!Absent(f, k) = f[k])
  BY PlusIs DEF A!Absent, Typed
<1>3. ASSUME NEW k PROVE Sum(k) \in A!Values
  BY <1>2, UnderIs, SumShifted, PlusIs
<1>4. ASSUME NEW k, k \notin DOMAIN f, k \notin some PROVE Sum(k) = Null
  <2> DEFINE v == A!ValuesUnder(rows, k)
  <2>1. /\ AreValues(v) /\ Len(v) = Len(rows) /\ DOMAIN rows = 1..Len(rows)
        /\ \A i \in 1..Len(rows) : v[i] = IF rows[i][1] = k THEN rows[i][2] ELSE Null
    BY UnderIs
  <2> HIDE DEF v
  <2>2. \A i \in 1..Len(v) : v[i] = Null
    BY <1>4, <2>1
  <2>3. Len(v) \in Nat /\ Null \in A!Values
    BY <2>1, PlusIs DEF AreValues
  <2>4. A!SumOf(Null, v) = Null
    BY <2>2, <2>3, SumOfNulls
  <2>5. QED
    BY <1>2, <1>4, <2>4 DEF v
<1>5. ASSUME NEW k \in some PROVE Sum(k) \in Int
  <2> DEFINE v == A!ValuesUnder(rows, k)
  <2>1. /\ AreValues(v) /\ Len(v) = Len(rows) /\ DOMAIN rows = 1..Len(rows)
        /\ \A i \in 1..Len(rows) : v[i] = IF rows[i][1] = k THEN rows[i][2] ELSE Null
    BY UnderIs
  <2>2. PICK i \in DOMAIN rows : rows[i][1] = k /\ rows[i][2] # Null
    OBVIOUS
  <2> HIDE DEF v
  <2>3. i \in 1..Len(v) /\ v[i] \in A!Values /\ v[i] # Null
    BY <2>1, <2>2 DEF AreValues
  <2>4. v[i] \in Int
    BY <2>3 DEF A!Values
  <2>5. A!SumOf(A!Absent(f, k), v) \in Int
    BY <1>2, <2>1, <2>3, <2>4, SumOfSome
  <2>6. QED
    BY <2>5 DEF v
<1>6. ASSUME NEW k \in DOMAIN f, f[k] \in Int PROVE Sum(k) \in Int
  <2>1. A!Absent(f, k) \in Int /\ A!Absent(f, k) \in A!Values
    BY <1>2, <1>6
  <2>2. QED
    BY <2>1, UnderIs, SumOfSome
<1>7. \A k : A!Absent(g, k) = Sum(k)
  <2> TAKE k
  <2>1. CASE k \in DOMAIN g
    BY <1>1, <2>1 DEF A!Absent
  <2>2. CASE k \notin DOMAIN g
    BY <1>1, <1>4, <2>2 DEF A!Absent
  <2>3. QED
    BY <2>1, <2>2
<1>8. Typed(g)
  BY <1>1, <1>3 DEF Typed
<1>9. ASSUME \A k \in DOMAIN f : f[k] \in Int, NEW k \in DOMAIN g PROVE g[k] \in Int
  BY <1>1, <1>5, <1>6, <1>9
<1>10. DOMAIN f \subseteq DOMAIN g
       /\ \A k \in DOMAIN g : k \in DOMAIN f \/ \E i \in DOMAIN rows : rows[i][1] = k
  BY <1>1
<1>11. QED
  BY <1>7, <1>8, <1>9, <1>10 DEF g

-----------------------------------------------------------------------------
(* Totals over the threads                                                 *)

IsEnum(s) ==
  /\ Len(s) \in Nat /\ DOMAIN s = 1..Len(s)
  /\ \A i \in 1..Len(s) : s[i] \in Threads
  /\ \A i, j \in 1..Len(s) : s[i] = s[j] => i = j
  /\ \A t \in Threads : \E i \in 1..Len(s) : s[i] = t
Enum == CHOOSE s : IsEnum(s)

LEMMA Enumerated == IsEnum(Enum)
<1>1. IsFiniteSet(Threads)
  BY Assumed, Zenon DEF A!IsFiniteSet, IsFiniteSet
<1>2. PICK n \in Nat : \E f : f \in Bijection(1..n, Threads)
  BY <1>1, FS_NatBijection DEF ExistsBijection
<1>3. PICK f : f \in Bijection(1..n, Threads)
  BY <1>2
<1>4. f \in [1..n -> Threads]
  BY <1>3 DEF Bijection, Injection
<1>5. \A i, j \in 1..n : f[i] = f[j] => i = j
  BY <1>3 DEF Bijection, Injection, IsInjective
<1>6. \A t \in Threads : \E i \in 1..n : f[i] = t
  BY <1>3 DEF Bijection, Surjection
<1>7. Len(f) = n
  BY <1>4
<1>8. IsEnum(f)
  BY <1>4, <1>5, <1>6, <1>7 DEF IsEnum
<1>9. QED
  BY <1>8 DEF Enum

\* The sum of what h gives the threads.
InOrder(h) == [i \in 1..Len(Enum) |-> h[Enum[i]]]
Total(h) == A!SumOf(Null, InOrder(h))

LEMMA InOrderIs ==
  ASSUME NEW h \in [Threads -> A!Values]
  PROVE  /\ AreValues(InOrder(h)) /\ Len(InOrder(h)) = Len(Enum)
         /\ \A i \in 1..Len(Enum) : InOrder(h)[i] = h[Enum[i]]
<1>1. Len(Enum) \in Nat /\ \A i \in 1..Len(Enum) : Enum[i] \in Threads
  BY Enumerated DEF IsEnum
<1> DEFINE n == Len(Enum)
           v == InOrder(h)
<1>2. v = [i \in 1..n |-> h[Enum[i]]]
  BY DEF InOrder
<1>3. n \in Nat /\ \A i \in 1..n : Enum[i] \in Threads
  BY <1>1
<1> HIDE DEF n, v
<1>4. v \in [1..n -> A!Values]
  BY <1>2, <1>3
<1>5. Len(v) = n
  BY <1>3, <1>4
<1>6. QED
  BY <1>2, <1>3, <1>4, <1>5 DEF AreValues, n, v

LEMMA TotalBumped ==
  ASSUME NEW h \in [Threads -> A!Values], NEW k \in [Threads -> A!Values],
         NEW t \in Threads, NEW x \in A!Values, k[t] = A!Plus(h[t], x),
         \A u \in Threads : u # t => k[u] = h[u]
  PROVE  Total(k) = A!Plus(Total(h), x) /\ Total(h) \in A!Values
<1>1. PICK i \in 1..Len(Enum) : Enum[i] = t
  BY Enumerated DEF IsEnum
<1>2. \A j \in 1..Len(Enum) : Enum[j] \in Threads /\ (j # i => Enum[j] # t)
  BY <1>1, Enumerated DEF IsEnum
<1> DEFINE v == InOrder(h)
           w == InOrder(k)
<1>3. AreValues(v) /\ Len(v) = Len(Enum) /\ \A j \in 1..Len(Enum) : v[j] = h[Enum[j]]
  BY InOrderIs
<1>4. Len(w) = Len(Enum) /\ \A j \in 1..Len(Enum) : w[j] = k[Enum[j]]
  BY InOrderIs
<1> HIDE DEF v, w
<1>5. i \in 1..Len(v) /\ w[i] = A!Plus(v[i], x) /\ \A j \in 1..Len(v) : j # i => w[j] = v[j]
  BY <1>1, <1>2, <1>3, <1>4
<1>6. Null \in A!Values
  BY PlusIs
<1>7. A!SumOf(Null, w) = A!Plus(A!SumOf(Null, v), x)
  BY <1>3, <1>4, <1>5, <1>6, SumBumped
<1>8. A!SumOf(Null, v) \in A!Values
  BY <1>3, <1>6, SumShifted
<1>9. QED
  BY <1>7, <1>8 DEF Total, v, w

LEMMA TotalOfOne ==
  ASSUME NEW h \in [Threads -> A!Values], NEW t \in Threads,
         \A u \in Threads : u # t => h[u] = Null
  PROVE  Total(h) = h[t]
<1> DEFINE none == [u \in Threads |-> Null]
<1>1. none \in [Threads -> A!Values] /\ \A u \in Threads : none[u] = Null
  BY PlusIs
<1> HIDE DEF none
<1>2. Total(none) = Null
  <2> DEFINE v == InOrder(none)
  <2>1. AreValues(v) /\ Len(v) = Len(Enum) /\ \A j \in 1..Len(Enum) : v[j] = none[Enum[j]]
    BY <1>1, InOrderIs
  <2> HIDE DEF v
  <2>2. Len(v) \in Nat /\ \A j \in 1..Len(v) : v[j] = Null
    BY <1>1, <2>1, Enumerated DEF AreValues, IsEnum
  <2>3. A!SumOf(Null, v) = Null
    BY <2>2, PlusIs, SumOfNulls
  <2>4. QED
    BY <2>3 DEF Total, v
<1>3. h[t] \in A!Values /\ h[t] = A!Plus(none[t], h[t])
  BY <1>1, PlusIs
<1>4. Total(h) = A!Plus(Total(none), h[t])
  BY <1>1, <1>3, TotalBumped
<1>5. QED
  BY <1>2, <1>3, <1>4, PlusIs

-----------------------------------------------------------------------------
(* A grouped aggregate: update, combine, finalize                          *)

\* What the unmerged group ids of SQL group g hold, per thread.
Share(m, u, g) ==
  [t \in Threads |-> IF <<t, g>> \in u THEN A!Absent(m, A!StateKey(<<t, g>>)) ELSE Null]

\* What an update of t reads of m for its batch.
BatchKeys(t, batch) == {row[1] : row \in A!Range(A!Keyed(t, batch))}
Held(m, t, batch) == [k \in BatchKeys(t, batch) \cap DOMAIN m |-> m[k]]

\* m after an update of t wrote back.
Written(m, t, batch) ==
  LET states == A!FoldRows(Held(m, t, batch), A!Keyed(t, batch))
  IN [k \in DOMAIN m \cup DOMAIN states |->
        IF k \in DOMAIN states THEN states[k] ELSE m[k]]

Ints(f) == \A k \in DOMAIN f : f[k] \in Int

LEMMA KeysDiffer ==
  ASSUME NEW t, NEW u, NEW g, NEW h, A!StateKey(<<t, g>>) = A!StateKey(<<u, h>>)
  PROVE  t = u /\ g = h
  BY DEF A!StateKey

LEMMA AbsentTyped ==
  ASSUME NEW f, Ints(f)
  PROVE  Typed(f) /\ \A k : A!Absent(f, k) \in A!Values
  BY PlusIs DEF Ints, Typed, A!Absent

LEMMA ShareTyped ==
  ASSUME NEW m, Ints(m), NEW u, NEW g
  PROVE  Share(m, u, g) \in [Threads -> A!Values]
  BY AbsentTyped, PlusIs DEF Share

LEMMA KeyedIs ==
  ASSUME NEW t, NEW batch, A!AreRows(batch)
  PROVE  LET rows == A!Keyed(t, batch)
         IN /\ A!AreRows(rows) /\ DOMAIN rows = DOMAIN batch
            /\ \A i \in DOMAIN batch : rows[i][1] = A!StateKey(<<t, batch[i][1]>>) /\ rows[i][2] = batch[i][2]
            /\ \A k : k \in BatchKeys(t, batch) <=> \E i \in DOMAIN batch : k = A!StateKey(<<t, batch[i][1]>>)
            /\ \A g : A!ValuesUnder(rows, A!StateKey(<<t, g>>)) = A!ValuesUnder(batch, g)
<1> DEFINE rows == A!Keyed(t, batch)
           n == Len(batch)
           Key(g) == A!StateKey(<<t, g>>)
<1>1. n \in Nat /\ DOMAIN batch = 1..n /\ \A i \in 1..n : batch[i][2] \in A!Values
  BY DEF A!AreRows, A!IsSequence
<1>2. rows = [i \in 1..n |-> <<Key(batch[i][1]), batch[i][2]>>]
  BY <1>1 DEF A!Keyed
<1>3. \A g, h : Key(g) = Key(h) <=> g = h
  BY KeysDiffer
<1>4. /\ DOMAIN rows = 1..n
      /\ \A i \in 1..n : rows[i][1] = Key(batch[i][1]) /\ rows[i][2] = batch[i][2]
  BY <1>2
<1>5. Len(rows) = n
  <2> HIDE DEF n, Key
  <2>1. rows = [i \in 1..n |-> rows[i]]
    BY <1>2
  <2> HIDE DEF rows
  <2>2. QED
    BY <1>1, <2>1
<1>6. \A k : k \in {row[1] : row \in A!Range(rows)} <=> \E i \in 1..n : k = Key(batch[i][1])
  <2> HIDE DEF rows, n, Key
  <2>1. A!Range(rows) = {rows[i] : i \in 1..n}
    BY <1>4 DEF A!Range
  <2>2. QED
    BY <1>4, <2>1
<1>7. ASSUME NEW g PROVE A!ValuesUnder(rows, Key(g)) = A!ValuesUnder(batch, g)
  <2> HIDE DEF rows, n, Key
  <2>1. QED
    BY <1>1, <1>3, <1>4 DEF A!ValuesUnder
<1>8. A!AreRows(rows)
  <2> HIDE DEF n, Key
  <2>1. rows = [i \in 1..n |-> rows[i]]
    BY <1>2
  <2> HIDE DEF rows
  <2>2. QED
    BY <1>1, <1>4, <1>5, <2>1 DEF A!AreRows, A!IsSequence
<1>9. QED
  BY <1>1, <1>4, <1>6, <1>7, <1>8 DEF BatchKeys

LEMMA Writing ==
  ASSUME NEW m, Ints(m), NEW t, NEW batch, A!AreRows(batch)
  PROVE  LET w == Written(m, t, batch)
         IN /\ Ints(w)
            /\ \A g : A!Absent(w, A!StateKey(<<t, g>>))
                        = A!SumOf(A!Absent(m, A!StateKey(<<t, g>>)), A!ValuesUnder(batch, g))
            /\ \A u, g : LET k == A!StateKey(<<u, g>>)
                         IN u # t => (k \in DOMAIN w <=> k \in DOMAIN m) /\ A!Absent(w, k) = A!Absent(m, k)
<1> DEFINE rows == A!Keyed(t, batch)
           keys == BatchKeys(t, batch)
           held == Held(m, t, batch)
           states == A!FoldRows(held, rows)
           w == Written(m, t, batch)
<1>1. /\ A!AreRows(rows) /\ DOMAIN rows = DOMAIN batch
      /\ \A i \in DOMAIN batch : rows[i][1] = A!StateKey(<<t, batch[i][1]>>) /\ rows[i][2] = batch[i][2]
      /\ \A k : k \in keys <=> \E i \in DOMAIN batch : k = A!StateKey(<<t, batch[i][1]>>)
      /\ \A g : A!ValuesUnder(rows, A!StateKey(<<t, g>>)) = A!ValuesUnder(batch, g)
  BY KeyedIs
<1>2. DOMAIN held = keys \cap DOMAIN m /\ \A k \in DOMAIN held : held[k] = m[k]
  BY DEF Held
<1>3. DOMAIN w = DOMAIN m \cup DOMAIN states
      /\ \A k \in DOMAIN w : w[k] = IF k \in DOMAIN states THEN states[k] ELSE m[k]
  BY DEF Written
<1> HIDE DEF rows, keys, held, w
<1>4. Ints(held)
  BY <1>2 DEF Ints
<1>5. /\ \A k : A!Absent(states, k) = A!SumOf(A!Absent(held, k), A!ValuesUnder(rows, k))
      /\ Ints(states)
      /\ DOMAIN held \subseteq DOMAIN states
      /\ \A k \in DOMAIN states : k \in DOMAIN held \/ \E i \in DOMAIN rows : rows[i][1] = k
  <2>1. Typed(held) /\ \A k \in DOMAIN held : held[k] \in Int
    BY <1>4, AbsentTyped DEF Ints
  <2>2. QED
    BY <1>1, <2>1, Folding DEF Ints
<1> HIDE DEF states
<1>6. \A k \in DOMAIN states : k \in keys
  BY <1>1, <1>2, <1>5
<1>7. Ints(w)
  BY <1>3, <1>5 DEF Ints
<1>8. ASSUME NEW g
      PROVE  LET k == A!StateKey(<<t, g>>)
             IN A!Absent(w, k) = A!SumOf(A!Absent(m, k), A!ValuesUnder(batch, g))
  <2> DEFINE k == A!StateKey(<<t, g>>)
             v == A!ValuesUnder(batch, g)
  <2>1. v = A!ValuesUnder(rows, k) /\ AreValues(v) /\ Len(v) = Len(batch) /\ DOMAIN batch = 1..Len(batch)
        /\ \A i \in 1..Len(batch) : v[i] = IF batch[i][1] = g THEN batch[i][2] ELSE Null
    BY <1>1, UnderIs
  <2>2. CASE k \in keys
    <3>1. A!Absent(held, k) = A!Absent(m, k)
      BY <1>2, <2>2 DEF A!Absent
    <3>2. A!Absent(states, k) = A!SumOf(A!Absent(m, k), v)
      BY <1>5, <2>1, <3>1
    <3>3. A!Absent(w, k) = A!Absent(states, k)
      <4>1. CASE k \in DOMAIN states
        BY <1>3, <4>1 DEF A!Absent
      <4>2. CASE k \notin DOMAIN states
        <5>1. k \notin DOMAIN m
          BY <1>2, <1>5, <2>2, <4>2
        <5>2. QED
          BY <1>3, <4>2, <5>1 DEF A!Absent
      <4>3. QED
        BY <4>1, <4>2
    <3>4. QED
      BY <3>2, <3>3
  <2>3. CASE k \notin keys
    <3>1. \A i \in DOMAIN batch : batch[i][1] # g
      BY <1>1, <2>3
    <3> HIDE DEF v
    <3>2. Len(v) \in Nat /\ \A i \in 1..Len(v) : v[i] = Null
      BY <2>1, <3>1 DEF AreValues
    <3>3. A!Absent(m, k) \in A!Values
      BY AbsentTyped
    <3>4. A!SumOf(A!Absent(m, k), v) = A!Absent(m, k)
      BY <3>2, <3>3, SumOfNulls
    <3>5. A!Absent(w, k) = A!Absent(m, k)
      BY <1>3, <1>6, <2>3 DEF A!Absent
    <3>6. QED
      BY <3>4, <3>5 DEF v
  <2>4. QED
    BY <2>2, <2>3
<1>9. ASSUME NEW u, NEW g, u # t
      PROVE  LET k == A!StateKey(<<u, g>>)
             IN (k \in DOMAIN w <=> k \in DOMAIN m) /\ A!Absent(w, k) = A!Absent(m, k)
  <2> DEFINE k == A!StateKey(<<u, g>>)
  <2>1. \A i \in DOMAIN batch : k # A!StateKey(<<t, batch[i][1]>>)
    BY <1>9, KeysDiffer
  <2>2. k \notin keys
    BY <1>1, <2>1
  <2>3. QED
    BY <1>3, <1>6, <2>2 DEF A!Absent
<1>10. QED
  BY <1>7, <1>8, <1>9 DEF w

\* An update that writes back adds to its groups what its batch has of them.
LEMMA ShareWritten ==
  ASSUME NEW m, Ints(m), NEW t \in Threads, NEW batch, A!AreRows(batch), NEW g, NEW u,
         \A r \in Threads : <<r, g>> \in u, NEW f, Ints(f),
         Total(Share(m, u, g)) = A!Absent(f, g)
  PROVE  Total(Share(Written(m, t, batch), u, g)) = A!Absent(A!FoldRows(f, batch), g)
<1> DEFINE w == Written(m, t, batch)
           h == Share(m, u, g)
           k == Share(w, u, g)
           v == A!ValuesUnder(batch, g)
           x == A!SumOf(Null, v)
           Key(r) == A!StateKey(<<r, g>>)
<1>1. Ints(w) /\ A!Absent(w, Key(t)) = A!SumOf(A!Absent(m, Key(t)), v)
      /\ \A r : r # t => A!Absent(w, Key(r)) = A!Absent(m, Key(r))
  BY Writing
<1>2. AreValues(v)
  BY UnderIs
<1> HIDE DEF w
<1>3. h \in [Threads -> A!Values] /\ k \in [Threads -> A!Values]
  BY <1>1, ShareTyped
<1>4. \A r \in Threads : h[r] = A!Absent(m, Key(r)) /\ k[r] = A!Absent(w, Key(r))
  BY DEF Share
<1> HIDE DEF h, k, v, Key
<1>5. ASSUME NEW s \in A!Values PROVE A!SumOf(s, v) = A!Plus(s, x)
  <2>1. x \in A!Values /\ A!SumOf(A!Plus(Null, s), v) = A!Plus(x, s)
    BY <1>2, PlusIs, SumShifted
  <2> HIDE DEF x
  <2>2. A!Plus(Null, s) = s /\ A!Plus(A!Plus(Null, s), x) = A!Plus(A!Plus(Null, x), s) /\ A!Plus(Null, x) = x
    BY <2>1, PlusIs
  <2>3. QED
    BY <2>1, <2>2
<1>6. x \in A!Values
  BY <1>2, PlusIs, SumShifted
<1>7. A!Absent(A!FoldRows(f, batch), g) = A!SumOf(A!Absent(f, g), v) /\ A!Absent(f, g) \in A!Values
  <2>1. Typed(f)
    BY AbsentTyped
  <2>2. QED
    BY <2>1, AbsentTyped, Folding DEF v
<1> HIDE DEF x
<1>8. k[t] = A!Plus(h[t], x) /\ \A r \in Threads : r # t => k[r] = h[r]
  <2>1. h[t] \in A!Values
    BY <1>3
  <2>2. A!SumOf(h[t], v) = A!Plus(h[t], x)
    BY <1>5, <2>1
  <2>3. QED
    BY <1>1, <1>4, <2>2
<1>9. Total(k) = A!Plus(Total(h), x)
  BY <1>3, <1>6, <1>8, TotalBumped
<1>10. Total(h) = A!Absent(f, g)
  BY DEF h
<1>11. QED
  BY <1>5, <1>7, <1>9, <1>10 DEF k, w

MergedIn(m, s, d) ==
  IF s \notin DOMAIN m THEN m
  ELSE A!With(m, d, IF d \in DOMAIN m THEN m[d] + m[s] ELSE m[s])

LEMMA Merging ==
  ASSUME NEW m, Ints(m), NEW s, NEW d
  PROVE  LET w == MergedIn(m, s, d)
         IN /\ Ints(w)
            /\ A!Absent(w, d) = A!Plus(A!Absent(m, d), A!Absent(m, s))
            /\ \A k : k # d => A!Absent(w, k) = A!Absent(m, k)
<1> DEFINE w == MergedIn(m, s, d)
<1>1. CASE s \notin DOMAIN m
  <2>1. w = m /\ A!Absent(m, s) = Null /\ A!Absent(m, d) \in A!Values
    BY <1>1, AbsentTyped DEF MergedIn, A!Absent
  <2>2. QED
    BY <2>1, PlusIs
<1>2. CASE s \in DOMAIN m
  <2> DEFINE v == IF d \in DOMAIN m THEN m[d] + m[s] ELSE m[s]
  <2>1. v \in Int /\ v = A!Plus(A!Absent(m, d), A!Absent(m, s))
    <3>1. m[s] \in Int /\ A!Absent(m, s) = m[s] /\ (d \in DOMAIN m => m[d] \in Int)
      BY <1>2 DEF Ints, A!Absent
    <3>2. CASE d \in DOMAIN m
      <4>1. A!Absent(m, d) = m[d]
        BY <3>2 DEF A!Absent
      <4>2. v = m[d] + m[s] /\ m[d] \in Int /\ m[s] \in Int
        BY <3>1, <3>2
      <4>3. A!Plus(m[d], m[s]) = m[d] + m[s]
        BY <4>2, PlusIs
      <4>4. QED
        BY <3>1, <4>1, <4>2, <4>3
    <3>3. CASE d \notin DOMAIN m
      <4>1. A!Absent(m, d) = Null /\ m[s] \in A!Values
        BY <3>1, <3>3, PlusIs DEF A!Absent
      <4>2. QED
        BY <3>1, <3>3, <4>1, PlusIs
    <3>4. QED
      BY <3>2, <3>3
  <2>2. w = A!With(m, d, v)
    BY <1>2 DEF MergedIn
  <2> HIDE DEF v
  <2>3. DOMAIN w = DOMAIN m \cup {d} /\ \A k \in DOMAIN w : w[k] = IF k = d THEN v ELSE m[k]
    BY <2>2 DEF A!With
  <2> HIDE DEF w
  <2>4. QED
    BY <2>1, <2>3 DEF Ints, A!Absent, w
<1>3. QED
  BY <1>1, <1>2

\* A combine keeps the total of every group.
LEMMA ShareMerged ==
  ASSUME NEW m, Ints(m), NEW u, NEW s \in Threads, NEW d \in Threads, s # d, NEW c, NEW g,
         <<s, c>> \in u, <<d, c>> \in u
  PROVE  Total(Share(MergedIn(m, A!StateKey(<<s, c>>), A!StateKey(<<d, c>>)), u \ {<<s, c>>}, g))
           = Total(Share(m, u, g))
<1> DEFINE Key(r, q) == A!StateKey(<<r, q>>)
           w == MergedIn(m, Key(s, c), Key(d, c))
           rest == u \ {<<s, c>>}
           h == Share(m, u, g)
           k == Share(w, rest, g)
<1>1. /\ Ints(w) /\ A!Absent(w, Key(d, c)) = A!Plus(A!Absent(m, Key(d, c)), A!Absent(m, Key(s, c)))
      /\ \A j : j # Key(d, c) => A!Absent(w, j) = A!Absent(m, j)
  BY Merging
<1> HIDE DEF w
<1>2. h \in [Threads -> A!Values] /\ k \in [Threads -> A!Values]
  BY <1>1, ShareTyped
<1>3. \A r \in Threads : /\ h[r] = IF <<r, g>> \in u THEN A!Absent(m, Key(r, g)) ELSE Null
                         /\ k[r] = IF <<r, g>> \in rest THEN A!Absent(w, Key(r, g)) ELSE Null
  BY DEF Share
<1>4. CASE g # c
  <2>1. \A r \in Threads : Key(r, g) # Key(d, c)
    BY <1>4, KeysDiffer
  <2>2. \A r \in Threads : <<r, g>> \in u <=> <<r, g>> \in rest
    BY <1>4
  <2> HIDE DEF Key, rest, h, k
  <2>3. \A r \in Threads : h[r] = k[r]
    BY <1>1, <1>3, <2>1, <2>2
  <2>4. h = k
    BY <1>2, <2>3
  <2>5. QED
    BY <2>4 DEF h, k, w, rest, Key
<1>5. CASE g = c
  <2> DEFINE x == h[s]
             mid == [r \in Threads |-> IF r = s THEN Null ELSE h[r]]
  <2>1. \A r \in Threads : r # d => Key(r, g) # Key(d, c)
    BY <1>5, KeysDiffer
  <2>2. \A r \in Threads : <<r, g>> \in rest <=> (<<r, g>> \in u /\ r # s)
    BY <1>5
  <2>3. <<s, g>> \in u /\ <<d, g>> \in u
    BY <1>5
  <2>4. x = A!Absent(m, Key(s, c)) /\ h[d] = A!Absent(m, Key(d, c)) /\ x \in A!Values
    BY <1>2, <1>3, <1>5, <2>3
  <2>5. mid \in [Threads -> A!Values] /\ mid[s] = Null
        /\ \A r \in Threads : r # s => mid[r] = h[r]
    BY <1>2, PlusIs
  <2> HIDE DEF mid
  <2>6. k[d] = A!Plus(mid[d], x)
    <3> HIDE DEF Key, x, h, k, rest
    <3>1. k[d] = A!Absent(w, Key(d, c))
      BY <1>3, <1>5, <2>2, <2>3
    <3>2. mid[d] = h[d]
      BY <2>5
    <3>3. QED
      BY <1>1, <2>4, <3>1, <3>2
  <2>7. \A r \in Threads : r # d => k[r] = mid[r]
    <3> HIDE DEF Key, x, h, k, rest
    <3> TAKE r \in Threads
    <3> HAVE r # d
    <3>1. A!Absent(w, Key(r, g)) = A!Absent(m, Key(r, g))
      BY <1>1, <2>1
    <3>2. QED
      BY <1>3, <2>2, <2>5, <3>1
  <2>8. h[s] = A!Plus(mid[s], x) /\ \A r \in Threads : r # s => h[r] = mid[r]
    BY <2>4, <2>5, PlusIs
  <2> HIDE DEF x, h, k
  <2>9. Total(h) = A!Plus(Total(mid), x)
    BY <1>2, <2>4, <2>5, <2>8, TotalBumped
  <2>10. Total(k) = A!Plus(Total(mid), x)
    BY <1>2, <2>4, <2>5, <2>6, <2>7, TotalBumped
  <2>11. QED
    BY <2>9, <2>10 DEF h, k, w, rest, Key
<1>6. QED
  BY <1>4, <1>5

LEMMA ShareLeft ==
  ASSUME NEW m, Ints(m), NEW u, NEW g, NEW t \in Threads, <<t, g>> \in u,
         \A r \in Threads : <<r, g>> \in u => r = t
  PROVE  Total(Share(m, u, g)) = A!Absent(m, A!StateKey(<<t, g>>))
<1> DEFINE h == Share(m, u, g)
<1>1. h \in [Threads -> A!Values]
  BY ShareTyped
<1>2. h[t] = A!Absent(m, A!StateKey(<<t, g>>)) /\ \A r \in Threads : r # t => h[r] = Null
  BY DEF Share
<1> HIDE DEF h
<1>3. Total(h) = h[t]
  BY <1>1, <1>2, TotalOfOne
<1>4. QED
  BY <1>2, <1>3 DEF h

LEMMA ShareEmpty ==
  ASSUME NEW u, NEW g
  PROVE  Total(Share(A!Empty, u, g)) = Null
<1> DEFINE h == Share(A!Empty, u, g)
<1>1. Ints(A!Empty) /\ \A k : A!Absent(A!Empty, k) = Null
  BY DEF Ints, A!Empty, A!Absent
<1>2. h \in [Threads -> A!Values] /\ \A r \in Threads : h[r] = Null
  BY <1>1, ShareTyped DEF Share
<1> HIDE DEF h
<1>3. PICK t \in Threads : TRUE
  BY Assumed
<1>4. Total(h) = h[t]
  BY <1>2, TotalOfOne
<1>5. QED
  BY <1>2, <1>4 DEF h

-----------------------------------------------------------------------------
(* A partition of a window, and its FILTER                                 *)

\* unpack_mask is the inverse of the packing, for any number of rows.
LEMMA MaskSurvives ==
  ASSUME NEW mask \in Seq(BOOLEAN), NEW n \in Nat, mask = <<>> \/ Len(mask) = n
  PROVE  A!Unpack(A!Pack(mask), n) = mask
<1> DEFINE packed == A!Pack(mask)
           bytes == (Len(mask) + 7) \div 8
<1>1. Len(mask) \in Nat /\ mask \in [1..Len(mask) -> BOOLEAN] /\ (mask = <<>> <=> Len(mask) = 0)
  BY LenProperties, EmptySeq
<1>2. bytes \in Nat /\ (bytes = 0 <=> Len(mask) = 0)
  <2>1. \A x \in Nat : (x + 7) \div 8 \in Nat /\ ((x + 7) \div 8 = 0 <=> x = 0)
    OBVIOUS
  <2>2. QED
    BY <1>1, <2>1
<1> HIDE DEF bytes
<1>3. packed = [b \in 1..bytes |->
                  {i \in 0..7 : 8 * (b - 1) + i < Len(mask) /\ mask[8 * (b - 1) + i + 1]}]
  BY DEF A!Pack, bytes
<1>4. Len(packed) = bytes /\ (packed = <<>> <=> bytes = 0)
  <2>1. packed \in [1..bytes -> SUBSET (0..7)]
    BY <1>3
  <2> HIDE DEF packed
  <2>2. packed \in Seq(SUBSET (0..7)) /\ Len(packed) = bytes
    BY <1>2, <2>1
  <2>3. QED
    BY <2>2, EmptySeq, LenProperties
<1> HIDE DEF packed
<1>5. CASE mask = <<>>
  BY <1>1, <1>2, <1>4, <1>5 DEF A!Unpack, packed
<1>6. CASE mask # <<>>
  <2>1. Len(mask) = n /\ n > 0 /\ packed # <<>> /\ ~(n <= 0)
    <3>1. Len(mask) = n /\ Len(mask) # 0
      BY <1>1, <1>6
    <3>2. packed # <<>>
      BY <1>2, <1>4, <3>1
    <3>3. QED
      BY <3>1, <3>2
  <2>2. A!Unpack(packed, n) =
          [i \in 1..n |-> /\ (i - 1) \div 8 < bytes /\ (i - 1) % 8 \in packed[(i - 1) \div 8 + 1]]
    BY <1>4, <2>1 DEF A!Unpack
  <2>3. ASSUME NEW i \in 1..n
        PROVE  ((i - 1) \div 8 < bytes /\ (i - 1) % 8 \in packed[(i - 1) \div 8 + 1]) = mask[i]
    <3> DEFINE q == (i - 1) \div 8
               r == (i - 1) % 8
    <3>1. q \in Nat /\ r \in 0..7 /\ 8 * q + r = i - 1
      OBVIOUS
    <3>2. q < bytes
      BY <2>1, <3>1 DEF bytes
    <3> HIDE DEF q, r
    <3>3. q + 1 \in 1..bytes /\ (q + 1) - 1 = q /\ 8 * q + r + 1 = i /\ 8 * q + r < Len(mask)
      BY <1>2, <2>1, <3>1, <3>2
    <3>4. packed[q + 1] = {j \in 0..7 : 8 * q + j < Len(mask) /\ mask[8 * q + j + 1]}
      BY <1>3, <3>3
    <3>5. mask[i] \in BOOLEAN
      BY <1>1, <2>1
    <3>6. r \in packed[q + 1] <=> mask[i]
      BY <3>1, <3>3, <3>4
    <3>7. QED
      BY <3>2, <3>5, <3>6, Zenon DEF q, r
  <2>4. mask = [i \in 1..n |-> mask[i]]
    BY <1>1, <2>1
  <2>5. QED
    BY <2>2, <2>3, <2>4 DEF packed
<1>7. QED
  BY <1>5, <1>6

-----------------------------------------------------------------------------
(* The log of a streaming session                                          *)

Keys == Seq(A!KeyBytes)

\* An entry loads as what was stored.
LEMMA BlobLoads ==
  ASSUME NEW k \in Keys, NEW s \in A!Values
  PROVE  A!KeyOf(A!Blob(k, s)) = k /\ A!StateOf(A!Blob(k, s)) = s
<1> DEFINE All == Nat \cup A!Values
           tail == IF s = Null THEN <<>> ELSE <<s>>
           n == Len(k)
           blob == A!Blob(k, s)
           size == Len(tail)
<1>1. k \in Seq(All) /\ n \in Nat /\ \A i \in 1..n : k[i] \in A!KeyBytes
  <2>1. A!KeyBytes \subseteq All
    BY DEF A!KeyBytes
  <2>2. QED
    BY <2>1, SeqMonotonic, LenProperties, ElementOfSeq DEF Keys
<1>2. /\ tail \in Seq(All) /\ <<A!NUL>> \in Seq(All)
      /\ (s = Null => size = 0) /\ (s # Null => size = 1 /\ tail[1] = s)
  <2>1. s \in All /\ A!NUL \in All
    BY DEF A!NUL
  <2> HIDE DEF All
  <2>2. <<s>> \in Seq(All) /\ Len(<<s>>) = 1 /\ <<s>>[1] = s /\ <<A!NUL>> \in Seq(All)
    BY <2>1
  <2>3. <<>> \in Seq(All) /\ Len(<<>>) = 0
    BY EmptySeq
  <2>4. QED
    BY <2>2, <2>3
<1>3. /\ blob \in Seq(All) /\ Len(blob) = n + 1 + size
      /\ \A i \in 1..n : blob[i] = k[i]
      /\ blob[n + 1] = A!NUL
      /\ s # Null => blob[n + 2] = s
  <2> DEFINE head == k \o <<A!NUL>>
  <2> HIDE DEF All, tail
  <2>1. head \in Seq(All) /\ Len(head) = n + 1
        /\ \A i \in 1..(n + 1) : head[i] = IF i <= n THEN k[i] ELSE <<A!NUL>>[i - n]
    BY <1>1, <1>2, ConcatProperties
  <2>2. \A i \in 1..n : head[i] = k[i]
    BY <1>1, <2>1
  <2>3. head[n + 1] = A!NUL
    BY <1>1, <2>1
  <2>4. blob = head \o tail
    BY DEF A!Blob, tail
  <2> HIDE DEF head, blob, n
  <2>5. /\ blob \in Seq(All) /\ Len(blob) = n + 1 + size
        /\ \A i \in 1..(n + 1 + size) : blob[i] = IF i <= n + 1 THEN head[i] ELSE tail[i - (n + 1)]
    <3>1. /\ blob \in Seq(All) /\ Len(blob) = Len(head) + Len(tail)
          /\ \A i \in 1..(Len(head) + Len(tail)) :
               blob[i] = IF i <= Len(head) THEN head[i] ELSE tail[i - Len(head)]
      BY <1>2, <2>1, <2>4, ConcatProperties
    <3>2. QED
      BY <2>1, <3>1
  <2>6. size \in Nat /\ n \in Nat
    BY <1>1, <1>2
  <2>7. \A i \in 1..(n + 1) : blob[i] = head[i]
    BY <2>5, <2>6
  <2>8. ASSUME s # Null PROVE blob[n + 2] = s
    <3>0. size = 1
      BY <1>2, <2>8
    <3> DEFINE p == n + 2
    <3>1. p \in 1..(n + 1 + size) /\ ~(p <= n + 1) /\ p - (n + 1) = 1
      BY <2>6, <3>0
    <3> HIDE DEF p
    <3>2. blob[p] = tail[p - (n + 1)]
      BY <2>5, <3>1
    <3>3. blob[p] = s
      BY <1>2, <2>8, <3>1, <3>2
    <3>4. QED
      BY <3>3 DEF p
  <2>9. QED
    BY <2>2, <2>3, <2>5, <2>6, <2>7, <2>8
<1> HIDE DEF All, tail, n, blob, size
<1> USE DEF A!NUL
<1>4. A!SelectInSeq(blob, LAMBDA b : b = 0) = n + 1
  <2> DEFINE I == {i \in 1..Len(blob) : blob[i] = 0}
  <2>0. size \in Nat /\ n + 1 \in 1..Len(blob)
    BY <1>1, <1>2, <1>3
  <2>1. n + 1 \in I
    BY <1>3, <2>0
  <2>2. \A i \in I : n + 1 <= i
    <3> TAKE i \in I
    <3>1. i \in 1..Len(blob) /\ blob[i] = 0
      OBVIOUS
    <3>2. ~(i \in 1..n)
      BY <1>1, <1>3, <3>1 DEF A!KeyBytes
    <3>3. QED
      BY <1>1, <2>0, <3>1, <3>2
  <2>3. I \subseteq Nat
    OBVIOUS
  <2> HIDE DEF I
  <2>4. A!Min(I) = n + 1
    <3>1. \A x \in I : (\A y \in I : x <= y) => x = n + 1
      BY <1>1, <2>1, <2>2, <2>3
    <3>2. QED
      BY <2>1, <2>2, <3>1 DEF A!Min
  <2>5. A!SelectInSeq(blob, LAMBDA b : b = 0) = A!Min(I)
    BY <2>1 DEF A!SelectInSeq, I
  <2>6. QED
    BY <2>4, <2>5
<1>5. A!KeyOf(blob) = SubSeq(blob, 1, n)
  <2>1. A!KeyOf(blob) = SubSeq(blob, 1, A!SelectInSeq(blob, LAMBDA b : b = 0) - 1)
    BY DEF A!KeyOf
  <2>2. QED
    BY <1>1, <1>4, <2>1
<1>6. A!KeyOf(blob) = k
  <2>1. \A i \in 1..n : blob[i] \in All
    BY <1>1, <1>2, <1>3, ElementOfSeq DEF All, A!KeyBytes
  <2> DEFINE sub == SubSeq(blob, 1, n)
  <2>2. /\ sub \in Seq(All)
        /\ Len(sub) = IF 1 <= n THEN n - 1 + 1 ELSE 0
        /\ \A i \in 1..(n - 1 + 1) : sub[i] = blob[1 + i - 1]
    BY <1>1, <2>1, SubSeqProperties
  <2> HIDE DEF sub
  <2>3. Len(sub) = n /\ \A i \in 1..n : sub[i] = blob[i]
    BY <1>1, <2>2
  <2>4. sub = k
    BY <1>1, <1>3, <2>2, <2>3, SeqEqual DEF n
  <2>5. QED
    BY <1>5, <2>4 DEF sub
<1>7. A!StateOf(blob) = s
  <2> DEFINE rest == SubSeq(blob, n + 2, Len(blob))
  <2>1. A!StateOf(blob) = IF rest = <<>> THEN Null ELSE Head(rest)
    BY <1>6 DEF A!StateOf, n
  <2>2. CASE s = Null
    <3>1. Len(blob) = n + 1
      BY <1>1, <1>2, <1>3, <2>2
    <3>2. rest = <<>>
      BY <1>1, <3>1, SubSeqEmpty
    <3>3. QED
      BY <2>1, <2>2, <3>2
  <2>3. CASE s # Null
    <3>1. Len(blob) = n + 2 /\ blob[n + 2] = s
      BY <1>1, <1>2, <1>3, <2>3
    <3>2. n + 2 \in 1..Len(blob) /\ n + 2 \in (n + 2)..Len(blob) /\ n + 2 \in Int /\ (n + 2)..(n + 2) = {n + 2}
      BY <1>1, <3>1
    <3>3. rest # <<>> /\ Head(rest) = s
      <4> DEFINE p == n + 2
      <4>1. p \in 1..Len(blob) /\ Len(blob) \in p..Len(blob) /\ p \in Int /\ Len(blob) = p /\ blob[p] = s
        BY <3>1, <3>2
      <4>2. rest = SubSeq(blob, p, p)
        BY <3>1
      <4> HIDE DEF p, rest
      <4>3. Head(rest) = s
        BY <1>3, <4>1, <4>2, HeadTailOfSubSeq
      <4>4. rest \in Seq(A!Values) /\ Len(rest) = 1
        <5>1. \A i \in p..p : blob[i] \in A!Values
          BY <4>1
        <5>2. p <= p /\ p - p + 1 = 1
          BY <4>1
        <5>3. rest \in Seq(A!Values) /\ Len(rest) = IF p <= p THEN p - p + 1 ELSE 0
          BY <4>1, <4>2, <5>1, SubSeqProperties
        <5>4. QED
          BY <5>2, <5>3
      <4>5. QED
        BY <4>3, <4>4, EmptySeq
    <3>4. QED
      BY <2>1, <3>3
  <2>4. QED
    BY <2>2, <2>3
<1>8. QED
  BY <1>6, <1>7 DEF blob

\* All of a finite set, each once.
IsListing(s, T) ==
  /\ Len(s) \in Nat /\ s \in [1..Len(s) -> T]
  /\ \A i, j \in 1..Len(s) : s[i] = s[j] => i = j
  /\ \A x \in T : \E i \in 1..Len(s) : s[i] = x

LEMMA Listed ==
  ASSUME NEW T, IsFiniteSet(T)
  PROVE  IsListing(A!SetToSeq(T), T)
<1> DEFINE n == Cardinality(T)
           s == A!SetToSeq(T)
<1>1. A!Cardinality(T) = Cardinality(T)
  BY DEF A!Cardinality, Cardinality
<1>2. n \in Nat /\ \E f : f \in Bijection(1..n, T)
  BY FS_CardinalityType DEF ExistsBijection
<1>3. PICK f : f \in Bijection(1..n, T)
  BY <1>2
<1>4. f \in [1..n -> T] /\ A!IsInjective(f)
  BY <1>3 DEF Bijection, Injection, IsInjective, A!IsInjective
<1>5. s = CHOOSE g \in [1..n -> T] : A!IsInjective(g)
  BY <1>1 DEF A!SetToSeq
<1> HIDE DEF s, n
<1>6. s \in [1..n -> T] /\ A!IsInjective(s)
  BY <1>4, <1>5
<1>7. s \in Injection(1..n, T)
  BY <1>6 DEF Injection, IsInjective, A!IsInjective
<1>8. IsFiniteSet(1..n) /\ Cardinality(1..n) = n
  <2>1. 1 \in Int /\ n \in Int /\ n - 1 + 1 = n /\ (1 > n => n = 0)
    BY <1>2
  <2>2. QED
    BY <2>1, FS_Interval
<1>9. s \in Surjection(1..n, T)
  BY <1>7, <1>8, FS_Injection DEF n
<1>10. Len(s) = n
  BY <1>2, <1>6
<1>11. \A x \in T : \E i \in 1..n : s[i] = x
  BY <1>9 DEF Surjection
<1>12. \A i, j \in 1..n : s[i] = s[j] => i = j
  BY <1>6 DEF A!IsInjective
<1>13. QED
  BY <1>2, <1>6, <1>10, <1>11, <1>12 DEF IsListing, s

Blobs == {A!Blob(k, v) : k \in Keys, v \in A!Values}

LoadedOf(es) ==
  LET newest(k) == CHOOSE i \in DOMAIN es :
                     /\ A!KeyOf(es[i]) = k
                     /\ \A j \in DOMAIN es : j > i => A!KeyOf(es[j]) # k
  IN [k \in {A!KeyOf(es[i]) : i \in DOMAIN es} |-> A!StateOf(es[newest(k)])]

LEMMA BlobIs ==
  ASSUME NEW b \in Blobs
  PROVE  A!KeyOf(b) \in Keys /\ A!StateOf(b) \in A!Values
  BY BlobLoads DEF Blobs

\* The log loads with the keys of its entries and states of theirs.
LEMMA LoadedIs ==
  ASSUME NEW es \in Seq(Blobs)
  PROVE  LET f == LoadedOf(es)
         IN /\ DOMAIN f = {A!KeyOf(es[i]) : i \in DOMAIN es} /\ DOMAIN f \subseteq Keys
            /\ \A k \in DOMAIN f : \E i \in DOMAIN es :
                 /\ f[k] = A!StateOf(es[i]) /\ A!KeyOf(es[i]) = k
                 /\ \A j \in DOMAIN es : j > i => A!KeyOf(es[j]) # k
            /\ Typed(f) /\ IsFiniteSet(DOMAIN f)
<1> DEFINE f == LoadedOf(es)
           n == Len(es)
           newest(k) == CHOOSE i \in DOMAIN es :
                          /\ A!KeyOf(es[i]) = k
                          /\ \A j \in DOMAIN es : j > i => A!KeyOf(es[j]) # k
<1>1. n \in Nat /\ DOMAIN es = 1..n /\ \A i \in 1..n : es[i] \in Blobs
  BY LenProperties, ElementOfSeq
<1>2. \A i \in 1..n : A!KeyOf(es[i]) \in Keys /\ A!StateOf(es[i]) \in A!Values
  BY <1>1, BlobIs
<1>3. DOMAIN f = {A!KeyOf(es[i]) : i \in DOMAIN es} /\ \A k \in DOMAIN f : f[k] = A!StateOf(es[newest(k)])
  BY DEF LoadedOf
<1> HIDE DEF f
<1>4. ASSUME NEW k \in DOMAIN f
      PROVE  LET i == newest(k)
             IN /\ i \in 1..n /\ A!KeyOf(es[i]) = k
                /\ \A j \in 1..n : j > i => A!KeyOf(es[j]) # k
  <2> HIDE DEF n
  <2> DEFINE back == {m \in Nat : m < n /\ A!KeyOf(es[n - m]) = k}
  <2>1. PICK a \in 1..n : A!KeyOf(es[a]) = k
    BY <1>1, <1>3
  <2>2. n - a \in back
    <3>1. n - a \in Nat /\ n - a < n /\ n - (n - a) = a
      BY <1>1
    <3>2. QED
      BY <2>1, <3>1
  <2>3. back \subseteq Nat
    OBVIOUS
  <2>4. PICK m \in back : \A b \in back : m <= b
    <3> HIDE DEF back
    <3>1. QED
      BY <2>2, <2>3, LeastOf
  <2>5. m \in Nat /\ m < n /\ A!KeyOf(es[n - m]) = k
    BY <2>4
  <2>6. n - m \in 1..n
    BY <1>1, <2>5
  <2>7. ASSUME NEW j \in 1..n, j > n - m PROVE A!KeyOf(es[j]) # k
    <3>1. n - j \in Nat /\ n - j < n /\ n - (n - j) = j /\ ~(m <= n - j)
      BY <1>1, <2>5, <2>7
    <3>2. n - j \notin back
      BY <2>4, <3>1
    <3>3. QED
      BY <3>1, <3>2
  <2>8. \E i \in DOMAIN es : /\ A!KeyOf(es[i]) = k
                             /\ \A j \in DOMAIN es : j > i => A!KeyOf(es[j]) # k
    <3> DEFINE c == n - m
    <3>1. c \in DOMAIN es /\ A!KeyOf(es[c]) = k /\ \A j \in DOMAIN es : j > c => A!KeyOf(es[j]) # k
      BY <1>1, <2>5, <2>6, <2>7
    <3> HIDE DEF c
    <3>2. QED
      BY <3>1
  <2>9. QED
    BY <1>1, <2>8
<1> HIDE DEF newest
<1>5. Typed(f) /\ DOMAIN f \subseteq Keys
  BY <1>1, <1>2, <1>3, <1>4 DEF Typed
<1>6. IsFiniteSet(DOMAIN f)
  <2> DEFINE key == [i \in 1..n |-> A!KeyOf(es[i])]
  <2>1. IsFiniteSet(1..n)
    BY <1>1, FS_Interval
  <2>2. key \in [1..n -> DOMAIN f] /\ \A k \in DOMAIN f : \E i \in 1..n : key[i] = k
    BY <1>1, <1>3
  <2> HIDE DEF key, n
  <2>3. key \in Surjection(1..n, DOMAIN f)
    BY <2>2 DEF Surjection
  <2>4. QED
    BY <2>1, <2>3, FS_Surjection
<1>7. \A k \in DOMAIN f : \E i \in DOMAIN es :
        /\ f[k] = A!StateOf(es[i]) /\ A!KeyOf(es[i]) = k
        /\ \A j \in DOMAIN es : j > i => A!KeyOf(es[j]) # k
  BY <1>1, <1>3, <1>4
<1>8. QED
  BY <1>3, <1>5, <1>6, <1>7 DEF f

\* The log with the states f of the keys appended.
Appended(es, f, keys) ==
  es \o [i \in DOMAIN A!SetToSeq(keys) |->
           A!Blob(A!SetToSeq(keys)[i], A!Absent(f, A!SetToSeq(keys)[i]))]

Agree(f, h) == \A k : A!Absent(f, k) = A!Absent(h, k)

\* ... loads as f.
LEMMA AppendedLoads ==
  ASSUME NEW es \in Seq(Blobs), NEW f, Typed(f), NEW keys, IsFiniteSet(keys), keys \subseteq Keys,
         DOMAIN f \subseteq keys, DOMAIN LoadedOf(es) \subseteq keys
  PROVE  Appended(es, f, keys) \in Seq(Blobs) /\ Agree(LoadedOf(Appended(es, f, keys)), f)
<1> DEFINE s == A!SetToSeq(keys)
           m == Len(s)
           n == Len(es)
           new == [i \in DOMAIN s |-> A!Blob(s[i], A!Absent(f, s[i]))]
           all == es \o new
           g == LoadedOf(all)
<1>1. /\ m \in Nat /\ s \in [1..m -> keys]
      /\ \A i, j \in 1..m : s[i] = s[j] => i = j
      /\ \A x \in keys : \E i \in 1..m : s[i] = x
  BY Listed DEF IsListing
<1> HIDE DEF s, m
<1>2. \A k : A!Absent(f, k) \in A!Values
  BY PlusIs DEF Typed, A!Absent
<1>3. DOMAIN new = 1..m /\ \A i \in 1..m : new[i] = A!Blob(s[i], A!Absent(f, s[i])) /\ s[i] \in Keys
  BY <1>1
<1>4. \A i \in 1..m : /\ new[i] \in Blobs /\ A!KeyOf(new[i]) = s[i]
                      /\ A!StateOf(new[i]) = A!Absent(f, s[i])
  BY <1>2, <1>3, BlobLoads DEF Blobs
<1>5. new \in Seq(Blobs) /\ Len(new) = m
  <2>1. new = [i \in 1..m |-> new[i]]
    BY <1>3
  <2> HIDE DEF new
  <2>2. new \in [1..m -> Blobs]
    BY <1>4, <2>1
  <2>3. QED
    BY <1>1, <2>2
<1> HIDE DEF new
<1>6. n \in Nat /\ DOMAIN es = 1..n
  BY LenProperties
<1>7. /\ all \in Seq(Blobs) /\ DOMAIN all = 1..(n + m)
      /\ \A i \in 1..(n + m) : all[i] = IF i <= n THEN es[i] ELSE new[i - n]
  <2>1. /\ all \in Seq(Blobs) /\ Len(all) = Len(es) + Len(new)
        /\ \A i \in 1..(Len(es) + Len(new)) : all[i] = IF i <= Len(es) THEN es[i] ELSE new[i - Len(es)]
    BY <1>5, ConcatProperties
  <2>2. DOMAIN all = 1..Len(all)
    BY <2>1, LenProperties
  <2> HIDE DEF all
  <2>3. QED
    BY <1>5, <2>1, <2>2
<1> HIDE DEF n, all
<1>8. /\ DOMAIN g = {A!KeyOf(all[i]) : i \in DOMAIN all}
      /\ \A k \in DOMAIN g : \E i \in DOMAIN all :
           /\ g[k] = A!StateOf(all[i]) /\ A!KeyOf(all[i]) = k
           /\ \A j \in DOMAIN all : j > i => A!KeyOf(all[j]) # k
  BY <1>7, LoadedIs
<1>9. \A i \in 1..n : A!KeyOf(es[i]) \in keys
  <2>1. DOMAIN LoadedOf(es) = {A!KeyOf(es[i]) : i \in DOMAIN es}
    BY LoadedIs
  <2>2. QED
    BY <1>6, <2>1
<1> HIDE DEF g
<1>10. ASSUME NEW k \in keys
       PROVE  \E c \in 1..(n + m) : c > n /\ A!KeyOf(all[c]) = k
  <2>1. PICK i \in 1..m : s[i] = k
    BY <1>1
  <2> DEFINE c == n + i
  <2>2. c \in 1..(n + m) /\ c > n /\ ~(c <= n) /\ c - n = i
    BY <1>1, <1>6
  <2> HIDE DEF c
  <2>3. all[c] = new[i]
    BY <1>7, <2>2
  <2>4. QED
    BY <1>4, <2>1, <2>2, <2>3
<1>11. ASSUME NEW i \in 1..(n + m), i > n
       PROVE  A!KeyOf(all[i]) \in keys /\ A!StateOf(all[i]) = A!Absent(f, A!KeyOf(all[i]))
  <2> DEFINE c == i - n
  <2>1. c \in 1..m /\ ~(i <= n)
    BY <1>1, <1>6, <1>11
  <2>2. all[i] = new[c]
    BY <1>7, <2>1
  <2> HIDE DEF c
  <2>3. QED
    BY <1>1, <1>4, <2>1, <2>2
<1>12. DOMAIN g = keys
  <2>1. ASSUME NEW i \in 1..(n + m) PROVE A!KeyOf(all[i]) \in keys
    <3>1. CASE i <= n
      <4>1. i \in 1..n /\ all[i] = es[i]
        BY <1>6, <1>7, <3>1
      <4>2. QED
        BY <1>9, <4>1
    <3>2. CASE i > n
      BY <1>11, <3>2
    <3>3. QED
      BY <1>1, <1>6, <3>1, <3>2
  <2>2. QED
    BY <1>7, <1>8, <1>10, <2>1
<1>13. ASSUME NEW k \in keys PROVE g[k] = A!Absent(f, k)
  <2>1. PICK i \in 1..(n + m) :
          /\ g[k] = A!StateOf(all[i]) /\ A!KeyOf(all[i]) = k
          /\ \A j \in 1..(n + m) : j > i => A!KeyOf(all[j]) # k
    BY <1>7, <1>8, <1>12
  <2>2. PICK c \in 1..(n + m) : c > n /\ A!KeyOf(all[c]) = k
    BY <1>10
  <2>3. ~(c > i)
    BY <2>1, <2>2
  <2>4. i > n
    BY <1>1, <1>6, <2>2, <2>3
  <2>5. QED
    BY <1>11, <2>1, <2>4
<1>14. Agree(g, f)
  <2>1. ASSUME NEW k PROVE A!Absent(g, k) = A!Absent(f, k)
    <3>1. CASE k \in keys
      BY <1>12, <1>13, <3>1 DEF A!Absent
    <3>2. CASE k \notin keys
      BY <1>12, <3>2 DEF A!Absent
    <3>3. QED
      BY <3>1, <3>2
  <2>2. QED
    BY <2>1 DEF Agree
<1>15. all = Appended(es, f, keys)
  BY DEF all, new, s, Appended
<1>16. QED
  BY <1>7, <1>14, <1>15 DEF g

\* Totals that agree agree after the same rows ...
LEMMA FoldsAgree ==
  ASSUME NEW f, Typed(f), NEW h, Typed(h), Agree(f, h), NEW rows, A!AreRows(rows)
  PROVE  Agree(A!FoldRows(f, rows), A!FoldRows(h, rows))
<1>1. \A k : A!Absent(A!FoldRows(f, rows), k) = A!SumOf(A!Absent(f, k), A!ValuesUnder(rows, k))
  BY Folding
<1>2. \A k : A!Absent(A!FoldRows(h, rows), k) = A!SumOf(A!Absent(h, k), A!ValuesUnder(rows, k))
  BY Folding
<1>3. QED
  BY <1>1, <1>2 DEF Agree

\* ... and run on alike.
LEMMA RunningAgrees ==
  ASSUME NEW f, Typed(f), NEW h, Typed(h), Agree(f, h), NEW chunk, A!AreRows(chunk)
  PROVE  A!Running(f, chunk) = A!Running(h, chunk)
<1> DEFINE n == Len(chunk)
           At(p, i) == A!Absent(A!FoldRows(p, SubSeq(chunk, 1, i)), chunk[i][1])
<1>1. n \in Nat /\ DOMAIN chunk = 1..n /\ \A i \in 1..n : chunk[i][2] \in A!Values
  BY DEF A!AreRows, A!IsSequence
<1>2. ASSUME NEW i \in 1..n PROVE At(f, i) = At(h, i)
  <2> DEFINE rows == SubSeq(chunk, 1, i)
             T == {chunk[j] : j \in 1..n}
  <2>1. \A j \in 1..i : j \in 1..n /\ chunk[j] \in T
    BY <1>1
  <2>2. i \in Int /\ 1 <= i /\ i - 1 + 1 = i
    OBVIOUS
  <2> HIDE DEF T, n
  <2>3. /\ rows \in Seq(T) /\ Len(rows) = IF 1 <= i THEN i - 1 + 1 ELSE 0
        /\ \A j \in 1..(i - 1 + 1) : rows[j] = chunk[1 + j - 1]
    BY <2>1, <2>2, SubSeqProperties
  <2> HIDE DEF rows
  <2>4. Len(rows) = i /\ rows \in [1..i -> T] /\ i \in Nat
    BY <2>2, <2>3, LenProperties
  <2>5. A!AreRows(rows)
    <3>1. \A j \in 1..i : rows[j][2] \in A!Values
      BY <1>1, <2>4 DEF T
    <3>2. QED
      BY <2>4, <3>1 DEF A!AreRows, A!IsSequence
  <2>6. Agree(A!FoldRows(f, rows), A!FoldRows(h, rows))
    BY <2>5, FoldsAgree
  <2>7. QED
    BY <2>6 DEF Agree, rows
<1>3. QED
  BY <1>1, <1>2 DEF A!Running

-----------------------------------------------------------------------------
(* The invariant                                                           *)

\* An update of t has read, and what it read still is in the scope.
Pending(t) ==
  /\ step = "feeding" /\ unmerged = A!GroupIds
  /\ \E batch \in Updates : call[t] = [batch |-> batch, states |-> Held(kv, t, batch)]

\* While it is fed, the unmerged states of a group add up to what it was fed.
Grouped ==
  /\ Ints(kv) /\ Ints(fed)
  /\ DOMAIN call = Threads /\ \A t \in Threads : call[t] = A!NoCall \/ Pending(t)
  /\ unmerged # A!GroupIds => calls = MaxCalls
  /\ \A g \in A!SqlGroups : \E t \in Threads : <<t, g>> \in unmerged
  /\ step = "feeding" => \A g \in A!SqlGroups : Total(Share(kv, unmerged, g)) = A!Absent(fed, g)

\* m holds partition p as w was shipped.
Holds(m, p, w) ==
  /\ w \in Windows /\ A!WindowKeys(p) \subseteq DOMAIN m
  /\ m[<<"window.partition", p>>] = w.rows
  /\ m[<<"window.mask", p>>] = A!Pack(w.mask)
  /\ m[<<"window.rows", p>>] = Len(w.rows)

\* The log loads as the totals.
Streamed == entries \in Seq(Blobs) /\ Typed(fed) /\ Agree(LoadedOf(entries), fed)

AInv ==
  /\ answer.is = answer.should
  /\ unmerged \subseteq A!GroupIds
  /\ shape = "grouped" => Grouped
  /\ shape # "grouped" => call = [t \in Threads |-> A!NoCall]
  /\ shape # "window" => DOMAIN shipped = {}
  /\ \A p \in DOMAIN shipped : Holds(kv, p, shipped[p])
  /\ shape = "streaming" /\ step = "feeding" => Streamed

LEMMA AInit == A!Init => AInv
<1> SUFFICES ASSUME A!Init PROVE AInv
  OBVIOUS
<1> USE DEF A!Init
<1>1. Ints(A!Empty) /\ DOMAIN A!Empty = {} /\ \A k : A!Absent(A!Empty, k) = Null
  BY DEF Ints, A!Empty, A!Absent
<1>2. \A g \in A!SqlGroups : \E t \in Threads : <<t, g>> \in A!GroupIds
  BY Assumed DEF A!GroupIds
<1>3. Grouped
  BY <1>1, <1>2, ShareEmpty DEF Grouped
<1>4. Streamed
  <2>1. entries \in Seq(Blobs) /\ DOMAIN entries = {}
    BY EmptySeq
  <2>2. DOMAIN LoadedOf(entries) = {}
    BY <2>1, LoadedIs
  <2>3. Agree(LoadedOf(entries), fed)
    BY <1>1, <2>2 DEF Agree, A!Absent
  <2>4. QED
    BY <1>1, <2>1, <2>3 DEF Streamed, Typed
<1>5. QED
  BY <1>1, <1>3, <1>4 DEF AInv, A!NoAnswer

LEMMA AReads ==
  ASSUME AInv, NEW t \in Threads, NEW batch \in Updates, A!UpdateReads(t, batch)
  PROVE  AInv'
<1> DEFINE new == [batch |-> batch, states |-> Held(kv, t, batch)]
<1>1. /\ shape = "grouped" /\ step = "feeding" /\ calls < MaxCalls
      /\ UNCHANGED <<shape, step, kv, entries, unmerged, fed, shipped, answer>>
      /\ call' = [call EXCEPT ![t] = new]
  BY DEF A!UpdateReads, Held, BatchKeys
<1>2. Grouped /\ unmerged = A!GroupIds
  <2>1. Grouped
    BY <1>1 DEF AInv
  <2>2. calls # MaxCalls
    BY <1>1, Assumed
  <2>3. QED
    BY <2>1, <2>2 DEF Grouped
<1>3. DOMAIN call' = Threads /\ call'[t] = new /\ \A u \in Threads : u # t => call'[u] = call[u]
  <2> HIDE DEF new
  <2>1. QED
    BY <1>1, <1>2 DEF Grouped
<1>4. \A u \in Threads : call'[u] = A!NoCall \/ Pending(u)'
  BY <1>1, <1>2, <1>3 DEF Grouped, Pending
<1>5. Grouped'
  BY <1>1, <1>2, <1>3, <1>4 DEF Grouped
<1>6. QED
  BY <1>1, <1>5 DEF AInv

LEMMA AWrites ==
  ASSUME AInv, NEW t \in Threads, A!UpdateWrites(t)
  PROVE  AInv'
<1>1. /\ call[t] # A!NoCall /\ call' = [call EXCEPT ![t] = A!NoCall]
      /\ UNCHANGED <<shape, step, entries, unmerged, calls, shipped, answer>>
  BY DEF A!UpdateWrites
<1>2. shape = "grouped" /\ Grouped
  BY <1>1 DEF AInv
<1>3. step = "feeding" /\ unmerged = A!GroupIds
  BY <1>1, <1>2 DEF Grouped, Pending
<1>4. PICK batch \in Updates : call[t] = [batch |-> batch, states |-> Held(kv, t, batch)]
  BY <1>1, <1>2 DEF Grouped, Pending
<1>5. call[t].batch = batch /\ call[t].states = Held(kv, t, batch)
  BY <1>4
<1>6. kv' = Written(kv, t, batch) /\ fed' = A!FoldRows(fed, batch)
  BY <1>5 DEF A!UpdateWrites, A!Updated, Written
<1>7. A!AreRows(batch)
  BY Assumed
<1>8. Ints(kv) /\ Ints(fed) /\ DOMAIN call = Threads
  BY <1>2 DEF Grouped
<1>9. Ints(kv') /\ Ints(fed')
  <2>1. Ints(Written(kv, t, batch))
    BY <1>7, <1>8, Writing
  <2>2. Typed(fed) /\ \A k \in DOMAIN fed : fed[k] \in Int
    BY <1>8, AbsentTyped DEF Ints
  <2>3. Ints(A!FoldRows(fed, batch))
    BY <1>7, <2>2, Folding DEF Ints
  <2>4. QED
    BY <1>6, <2>1, <2>3
<1>10. ASSUME NEW g \in A!SqlGroups PROVE Total(Share(kv', unmerged, g)) = A!Absent(fed', g)
  <2>1. \A r \in Threads : <<r, g>> \in unmerged
    BY <1>3 DEF A!GroupIds
  <2>2. Total(Share(kv, unmerged, g)) = A!Absent(fed, g)
    BY <1>2, <1>3 DEF Grouped
  <2>3. QED
    BY <1>6, <1>7, <1>8, <2>1, <2>2, ShareWritten
<1>11. call'[t] = A!NoCall /\ DOMAIN call' = Threads /\ \A u \in Threads : u # t => call'[u] = call[u]
  BY <1>1, <1>8
<1>12. ASSUME NEW u \in Threads PROVE call'[u] = A!NoCall \/ Pending(u)'
  <2>1. CASE u = t
    BY <1>11, <2>1
  <2>2. CASE u # t /\ call[u] = A!NoCall
    BY <1>11, <2>2
  <2>3. CASE u # t /\ call[u] # A!NoCall
    <3>1. PICK other \in Updates : call[u] = [batch |-> other, states |-> Held(kv, u, other)]
      BY <1>2, <2>3 DEF Grouped, Pending
    <3>2. A!AreRows(other)
      BY Assumed
    <3>3. \A k \in BatchKeys(u, other) : (k \in DOMAIN kv' <=> k \in DOMAIN kv) /\ A!Absent(kv', k) = A!Absent(kv, k)
      <4> TAKE k \in BatchKeys(u, other)
      <4>1. PICK i \in DOMAIN other : k = A!StateKey(<<u, other[i][1]>>)
        BY <3>2, KeyedIs
      <4> DEFINE q == other[i][1]
      <4> HIDE DEF q
      <4>2. LET j == A!StateKey(<<u, q>>) IN (j \in DOMAIN kv' <=> j \in DOMAIN kv) /\ A!Absent(kv', j) = A!Absent(kv, j)
        BY <1>6, <1>7, <1>8, <2>3, Writing
      <4>3. QED
        BY <4>1, <4>2 DEF q
    <3>4. Held(kv', u, other) = Held(kv, u, other)
      <4>1. BatchKeys(u, other) \cap DOMAIN kv' = BatchKeys(u, other) \cap DOMAIN kv
        BY <3>3
      <4>2. \A k \in BatchKeys(u, other) \cap DOMAIN kv : kv'[k] = kv[k]
        BY <3>3 DEF A!Absent
      <4>3. QED
        BY <4>1, <4>2 DEF Held
    <3>5. QED
      BY <1>1, <1>3, <1>11, <2>3, <3>1, <3>4 DEF Pending
  <2>4. QED
    BY <2>1, <2>2, <2>3
<1>13. Grouped'
  BY <1>1, <1>2, <1>9, <1>10, <1>11, <1>12 DEF Grouped
<1>14. QED
  BY <1>1, <1>2, <1>13 DEF AInv

LEMMA ACombines ==
  ASSUME AInv, NEW source \in A!GroupIds, NEW target \in A!GroupIds, A!Combine(source, target)
  PROVE  AInv'
<1>1. /\ shape = "grouped" /\ step = "feeding" /\ \A t \in Threads : call[t] = A!NoCall
      /\ source \in unmerged /\ target \in unmerged /\ source # target /\ source[2] = target[2]
      /\ kv' = MergedIn(kv, A!StateKey(source), A!StateKey(target))
      /\ unmerged' = unmerged \ {source} /\ calls' = MaxCalls
      /\ UNCHANGED <<shape, step, entries, call, fed, shipped, answer>>
  BY DEF A!Combine, A!Merged, MergedIn
<1>2. Grouped /\ unmerged \subseteq A!GroupIds
  BY <1>1 DEF AInv
<1>3. PICK s \in Threads, d \in Threads, c \in A!SqlGroups :
        source = <<s, c>> /\ target = <<d, c>> /\ s # d
  <2>1. PICK s \in Threads, b \in A!SqlGroups : source = <<s, b>>
    BY DEF A!GroupIds
  <2>2. PICK d \in Threads, c \in A!SqlGroups : target = <<d, c>>
    BY DEF A!GroupIds
  <2>3. QED
    BY <1>1, <2>1, <2>2
<1>4. Ints(kv) /\ Ints(fed)
  BY <1>2 DEF Grouped
<1>5. Ints(kv')
  BY <1>1, <1>4, Merging
<1>6. ASSUME NEW g \in A!SqlGroups PROVE Total(Share(kv', unmerged', g)) = A!Absent(fed, g)
  <2>1. Total(Share(kv, unmerged, g)) = A!Absent(fed, g)
    BY <1>1, <1>2 DEF Grouped
  <2>2. Total(Share(MergedIn(kv, A!StateKey(<<s, c>>), A!StateKey(<<d, c>>)), unmerged \ {<<s, c>>}, g))
          = Total(Share(kv, unmerged, g))
    BY <1>1, <1>3, <1>4, ShareMerged
  <2>3. QED
    BY <1>1, <1>3, <2>1, <2>2
<1>7. ASSUME NEW g \in A!SqlGroups PROVE \E t \in Threads : <<t, g>> \in unmerged'
  <2>1. CASE g = c
    <3>1. <<d, g>> \in unmerged'
      BY <1>1, <1>3, <2>1
    <3>2. QED
      BY <3>1
  <2>2. CASE g # c
    <3>1. PICK t \in Threads : <<t, g>> \in unmerged
      BY <1>2 DEF Grouped
    <3>2. <<t, g>> \in unmerged'
      BY <1>1, <1>3, <2>2, <3>1
    <3>3. QED
      BY <3>2
  <2>3. QED
    BY <2>1, <2>2
<1>8. Grouped'
  BY <1>1, <1>2, <1>4, <1>5, <1>6, <1>7 DEF Grouped
<1>9. QED
  BY <1>1, <1>2, <1>8 DEF AInv

LEMMA AFinalizes ==
  ASSUME AInv, A!Finalize
  PROVE  AInv'
<1> DEFINE left(g) == CHOOSE i \in unmerged : i[2] = g
<1>1. /\ shape = "grouped" /\ step = "feeding" /\ \A t \in Threads : call[t] = A!NoCall
      /\ \A i, j \in unmerged : i[2] = j[2] => i = j
      /\ answer' = [is |-> [g \in A!SqlGroups |-> A!Absent(kv, A!StateKey(left(g)))],
                    should |-> [g \in A!SqlGroups |-> A!Absent(fed, g)]]
      /\ step' = "answered"
      /\ UNCHANGED <<shape, kv, entries, call, unmerged, calls, fed, shipped>>
  BY DEF A!Finalize
<1>2. Grouped /\ unmerged \subseteq A!GroupIds
  BY <1>1 DEF AInv
<1>3. ASSUME NEW g \in A!SqlGroups
      PROVE  A!Absent(kv, A!StateKey(left(g))) = A!Absent(fed, g)
  <2>1. PICK t \in Threads : <<t, g>> \in unmerged
    BY <1>2 DEF Grouped
  <2>2. \A r \in Threads : <<r, g>> \in unmerged => r = t
    BY <1>1, <2>1
  <2>3. left(g) = <<t, g>>
    <3>1. <<t, g>>[2] = g
      OBVIOUS
    <3>2. \E i \in unmerged : i[2] = g
      BY <2>1, <3>1
    <3>3. left(g) \in unmerged /\ left(g)[2] = g
      BY <3>2
    <3> HIDE DEF left
    <3>4. QED
      BY <1>1, <2>1, <3>1, <3>3
  <2>4. Total(Share(kv, unmerged, g)) = A!Absent(kv, A!StateKey(<<t, g>>))
    BY <1>2, <2>1, <2>2, ShareLeft DEF Grouped
  <2>5. Total(Share(kv, unmerged, g)) = A!Absent(fed, g)
    BY <1>1, <1>2 DEF Grouped
  <2>6. QED
    BY <2>3, <2>4, <2>5
<1> HIDE DEF left
<1>4. answer'.is = answer'.should
  BY <1>1, <1>3
<1>5. Grouped'
  BY <1>1, <1>2 DEF Grouped
<1>6. QED
  BY <1>1, <1>2, <1>4, <1>5 DEF AInv

LEMMA WindowKeysDiffer ==
  ASSUME NEW p, NEW q, p # q
  PROVE  A!WindowKeys(p) \cap A!WindowKeys(q) = {}
  BY DEF A!WindowKeys

LEMMA WindowKeysAre ==
  ASSUME NEW p
  PROVE  A!WindowKeys(p) = {<<"window.partition", p>>, <<"window.schema", p>>,
                            <<"window.mask", p>>, <<"window.rows", p>>}
  BY DEF A!WindowKeys

\* A partition stays held where its keys do.
LEMMA StillHeld ==
  ASSUME NEW m, NEW n, NEW q, NEW w, Holds(m, q, w),
         \A k \in A!WindowKeys(q) : k \in DOMAIN n /\ n[k] = m[k]
  PROVE  Holds(n, q, w)
  BY WindowKeysAre DEF Holds

LEMMA AWindowInit ==
  ASSUME AInv, NEW p, NEW w \in Windows, A!WindowInit(p, w)
  PROVE  AInv'
<1>1. /\ shape = "window" /\ p \notin DOMAIN shipped
      /\ shipped' = A!With(shipped, p, w) /\ answer' = A!NoAnswer
      /\ UNCHANGED <<shape, step, entries, call, unmerged, fed>>
  BY DEF A!WindowInit
<1>2. /\ DOMAIN kv' = DOMAIN kv \cup A!WindowKeys(p)
      /\ kv'[<<"window.partition", p>>] = w.rows
      /\ kv'[<<"window.mask", p>>] = A!Pack(w.mask)
      /\ kv'[<<"window.rows", p>>] = Len(w.rows)
      /\ \A k \in DOMAIN kv : k \notin A!WindowKeys(p) => kv'[k] = kv[k]
  <2> DEFINE Value(k) == CASE k = <<"window.partition", p>> -> w.rows
                           [] k = <<"window.schema", p>> -> "schema"
                           [] k = <<"window.mask", p>> -> A!Pack(w.mask)
                           [] k = <<"window.rows", p>> -> Len(w.rows)
                           [] OTHER -> kv[k]
  <2>1. kv' = [k \in DOMAIN kv \cup A!WindowKeys(p) |-> Value(k)]
    BY DEF A!WindowInit
  <2>2. /\ Value(<<"window.partition", p>>) = w.rows
        /\ Value(<<"window.mask", p>>) = A!Pack(w.mask)
        /\ Value(<<"window.rows", p>>) = Len(w.rows)
    OBVIOUS
  <2>3. \A k : k \notin A!WindowKeys(p) => Value(k) = kv[k]
    BY WindowKeysAre
  <2> HIDE DEF Value
  <2>4. QED
    BY <2>1, <2>2, <2>3, WindowKeysAre
<1>3. DOMAIN shipped' = DOMAIN shipped \cup {p} /\ shipped'[p] = w
      /\ \A q \in DOMAIN shipped : shipped'[q] = shipped[q]
  BY <1>1 DEF A!With
<1>4. Holds(kv', p, w)
  BY <1>2 DEF Holds
<1>5. ASSUME NEW q \in DOMAIN shipped PROVE Holds(kv', q, shipped[q])
  <2>1. Holds(kv, q, shipped[q]) /\ q # p
    BY <1>1 DEF AInv
  <2>2. \A k \in A!WindowKeys(q) : k \in DOMAIN kv' /\ kv'[k] = kv[k]
    <3>1. \A k \in A!WindowKeys(q) : k \in DOMAIN kv /\ k \notin A!WindowKeys(p)
      BY <2>1, WindowKeysDiffer DEF Holds
    <3>2. QED
      BY <1>2, <3>1
  <2>3. QED
    BY <2>1, <2>2, StillHeld
<1>6. \A q \in DOMAIN shipped' : Holds(kv', q, shipped'[q])
  BY <1>3, <1>4, <1>5
<1>7. answer'.is = answer'.should
  BY <1>1 DEF A!NoAnswer
<1>8. QED
  BY <1>1, <1>6, <1>7 DEF AInv

LEMMA AWindowResult ==
  ASSUME AInv, NEW p, NEW frames, A!WindowResult(p, frames)
  PROVE  AInv'
<1> DEFINE w == shipped[p]
           mask == A!Unpack(kv[<<"window.mask", p>>], kv[<<"window.rows", p>>])
<1>1. /\ p \in DOMAIN shipped
      /\ UNCHANGED <<shape, step, kv, entries, call, unmerged, calls, fed, shipped>>
  BY DEF A!WindowResult
<1>2. Holds(kv, p, w) /\ shape = "window"
  BY <1>1 DEF AInv
<1>3. w.mask \in Seq(BOOLEAN) /\ (w.mask = <<>> \/ Len(w.mask) = Len(w.rows)) /\ Len(w.rows) \in Nat
  BY <1>2, Assumed DEF Holds, A!IsSequence
<1>4. mask = w.mask
  <2>1. mask = A!Unpack(A!Pack(w.mask), Len(w.rows))
    BY <1>2 DEF Holds
  <2>2. QED
    BY <1>3, <2>1, MaskSurvives
<1>5. answer' = [is |-> <<A!WindowSum(w.rows, frames, w.mask)>>,
                 should |-> <<A!WindowSum(w.rows, frames, w.mask)>>]
  <2>1. A!WindowKeys(p) \subseteq DOMAIN kv /\ kv[<<"window.partition", p>>] = w.rows
    BY <1>2 DEF Holds
  <2>2. answer' = [is |-> <<A!WindowSum(kv[<<"window.partition", p>>], frames, mask)>>,
                   should |-> <<A!WindowSum(w.rows, frames, w.mask)>>]
    BY <2>1 DEF A!WindowResult
  <2>3. QED
    BY <1>4, <2>1, <2>2
<1>6. answer'.is = answer'.should
  BY <1>5
<1>7. QED
  BY <1>1, <1>2, <1>6 DEF AInv

LEMMA AWindowDestructor ==
  ASSUME AInv, NEW p, A!WindowDestructor(p)
  PROVE  AInv'
<1>1. /\ p \in DOMAIN shipped /\ kv' = A!Without(kv, A!WindowKeys(p))
      /\ shipped' = A!Without(shipped, {p}) /\ answer' = A!NoAnswer
      /\ UNCHANGED <<shape, step, entries, call, unmerged, calls, fed>>
  BY DEF A!WindowDestructor
<1>2. shape = "window"
  BY <1>1 DEF AInv
<1>3. DOMAIN shipped' = DOMAIN shipped \ {p} /\ \A q \in DOMAIN shipped' : shipped'[q] = shipped[q]
  BY <1>1 DEF A!Without
<1>4. DOMAIN kv' = DOMAIN kv \ A!WindowKeys(p) /\ \A k \in DOMAIN kv' : kv'[k] = kv[k]
  BY <1>1 DEF A!Without
<1>5. ASSUME NEW q \in DOMAIN shipped' PROVE Holds(kv', q, shipped'[q])
  <2>1. Holds(kv, q, shipped[q]) /\ q # p /\ shipped'[q] = shipped[q]
    BY <1>3 DEF AInv
  <2>2. \A k \in A!WindowKeys(q) : k \in DOMAIN kv' /\ kv'[k] = kv[k]
    <3>1. \A k \in A!WindowKeys(q) : k \in DOMAIN kv /\ k \notin A!WindowKeys(p)
      BY <2>1, WindowKeysDiffer DEF Holds
    <3>2. QED
      BY <1>4, <3>1
  <2>3. QED
    BY <2>1, <2>2, StillHeld
<1>6. answer'.is = answer'.should
  BY <1>1 DEF A!NoAnswer
<1>7. QED
  BY <1>1, <1>2, <1>5, <1>6 DEF AInv

LEMMA AStreams ==
  ASSUME AInv, NEW chunk \in Chunks, A!StreamingChunk(chunk)
  PROVE  AInv'
<1> DEFINE old == LoadedOf(entries)
           after == A!FoldRows(old, chunk)
           keys == DOMAIN after \cup {row[1] : row \in A!Range(chunk)}
<1>1. /\ shape = "streaming" /\ step = "feeding"
      /\ answer' = [is |-> A!Running(old, chunk), should |-> A!Running(fed, chunk)]
      /\ fed' = A!FoldRows(fed, chunk)
      /\ entries' = Appended(entries, after, keys)
      /\ UNCHANGED <<shape, step, kv, call, unmerged, shipped>>
  <2>1. A!Loaded = old
    BY DEF A!Loaded, LoadedOf
  <2>2. QED
    BY <2>1 DEF A!StreamingChunk, Appended
<1>2. entries \in Seq(Blobs) /\ Typed(fed) /\ Agree(old, fed)
  BY <1>1 DEF AInv, Streamed
<1>3. A!AreRows(chunk) /\ \A i \in DOMAIN chunk : chunk[i][1] \in Keys
  BY Assumed DEF Keys
<1>4. Typed(old) /\ IsFiniteSet(DOMAIN old) /\ DOMAIN old \subseteq Keys
  BY <1>2, LoadedIs
<1> DEFINE named == {row[1] : row \in A!Range(chunk)}
<1>5. Typed(after) /\ DOMAIN old \subseteq DOMAIN after
      /\ \A k \in DOMAIN after : k \in DOMAIN old \/ \E i \in DOMAIN chunk : chunk[i][1] = k
  BY <1>3, <1>4, Folding
<1>6. Typed(fed')
  BY <1>1, <1>2, <1>3, Folding
<1> HIDE DEF old, after
<1>7. named = {chunk[i][1] : i \in DOMAIN chunk}
  BY DEF A!Range
<1>8. IsFiniteSet(named)
  <2> DEFINE n == Len(chunk)
             key == [i \in 1..n |-> chunk[i][1]]
  <2>1. n \in Nat /\ DOMAIN chunk = 1..n
    BY <1>3 DEF A!AreRows, A!IsSequence
  <2>2. IsFiniteSet(1..n)
    BY <2>1, FS_Interval
  <2> HIDE DEF n, named
  <2>3. key \in [1..n -> named] /\ \A k \in named : \E i \in 1..n : key[i] = k
    BY <1>7, <2>1
  <2> HIDE DEF key
  <2>4. key \in Surjection(1..n, named)
    BY <2>3 DEF Surjection
  <2>5. QED
    BY <2>2, <2>4, FS_Surjection
<1>9. keys = DOMAIN old \cup named
  <2> HIDE DEF named
  <2>1. keys = DOMAIN after \cup named
    BY DEF named
  <2>2. QED
    BY <1>5, <1>7, <2>1
<1> HIDE DEF keys, named
<1>10. IsFiniteSet(keys) /\ keys \subseteq Keys /\ DOMAIN after \subseteq keys /\ DOMAIN old \subseteq keys
  <2>1. IsFiniteSet(keys)
    BY <1>4, <1>8, <1>9, FS_Union
  <2>2. DOMAIN after \subseteq keys
    BY DEF keys
  <2>3. QED
    BY <1>3, <1>4, <1>7, <1>9, <2>1, <2>2
<1>11. entries' \in Seq(Blobs) /\ Agree(LoadedOf(entries'), after)
  BY <1>1, <1>2, <1>5, <1>10, AppendedLoads DEF old
<1>12. Agree(after, fed')
  BY <1>1, <1>2, <1>3, <1>4, FoldsAgree DEF after
<1>13. Streamed'
  BY <1>6, <1>11, <1>12 DEF Streamed, Agree
<1>14. answer'.is = answer'.should
  BY <1>1, <1>2, <1>3, <1>4, RunningAgrees
<1>15. QED
  BY <1>1, <1>13, <1>14 DEF AInv

LEMMA ACloses ==
  ASSUME AInv, A!Destructor
  PROVE  AInv'
<1>1. /\ step' = "closed" /\ kv' = A!Empty /\ answer' = A!NoAnswer
      /\ (shape = "grouped" => step = "answered")
      /\ (shape # "grouped" => shipped = A!Empty)
      /\ UNCHANGED <<shape, call, unmerged, calls, fed, shipped>>
  BY DEF A!Destructor
<1>2. answer'.is = answer'.should /\ Ints(kv')
  BY <1>1 DEF A!NoAnswer, Ints, A!Empty
<1>3. DOMAIN shipped' = {}
  BY <1>1 DEF AInv, A!Empty
<1>4. ASSUME shape = "grouped" PROVE Grouped'
  <2>1. Grouped /\ step # "feeding"
    BY <1>1, <1>4 DEF AInv
  <2>2. \A t \in Threads : call[t] = A!NoCall
    BY <2>1 DEF Grouped, Pending
  <2>3. QED
    BY <1>1, <1>2, <2>1, <2>2 DEF Grouped
<1>5. QED
  BY <1>1, <1>2, <1>3, <1>4 DEF AInv

LEMMA AIdles == ASSUME AInv, UNCHANGED avars PROVE AInv'
  BY DEF AInv, Grouped, Pending, Streamed, avars

\* However the rows of an aggregate are batched, interleaved over threads and
\* combined (src/aggregate.cpp: update, combine, finalize), a group's answer is
\* the SUM of its rows; a window's is that of the partition and FILTER it names;
\* a running total continues across the chunks of a session.
THEOREM Aggregates == Spec => []AggregatesAreRight
<1>1. Init => AInv
  BY AInit DEF Init
<1>2. AInv /\ [Next]_vars => AInv'
  <2> SUFFICES ASSUME AInv, [Next]_vars PROVE AInv'
    OBVIOUS
  <2>1. CASE Aggregate
    <3>1. A!Next
      BY <2>1 DEF Aggregate
    <3>2. QED
      BY <3>1, AReads, AWrites, ACombines, AFinalizes, AWindowInit, AWindowResult,
         AWindowDestructor, AStreams, ACloses DEF A!Next
  <2>2. CASE ~Aggregate
    <3>1. UNCHANGED avars
      BY <2>2 DEF Next, vars, Bind, InitCall, AggregateBind, Exchange, Buffer, Scan
    <3>2. QED
      BY <3>1, AIdles
  <2>3. QED
    BY <2>1, <2>2
<1>3. AInv => AggregatesAreRight
  BY DEF AInv, AggregatesAreRight, A!GroupTotals, A!WindowTotals, A!RunningTotals
<1>4. QED
  BY <1>1, <1>2, <1>3, PTL DEF Spec
=============================================================================
