--------------------------- MODULE SplitScanProofs ----------------------------
(***************************************************************************)
(* Proofs about SplitScan, for any calls, fleets, number of readers, claim *)
(* size and number of workers that die: a plan of a snapshot that no       *)
(* worker serves is never read, and a scan that is read to its end has     *)
(* delivered every row once, as many as the plan promised, in batches      *)
(* whose indices ascend.                                                   *)
(***************************************************************************)
EXTENDS SplitScan, WellFoundedInduction, SequenceTheorems, FiniteSetTheorems,
        TLAPS

\* The library's Min, of a set of naturals, is in it.
LEMMA MinIsThere ==
  ASSUME NEW A \in SUBSET Nat, A # {}
  PROVE  Min(A) \in A
<1>1. PICK i \in A : \A j \in A : ~(<<j, i>> \in OpToRel(<, Nat))
  BY WFMin, NatLessThanWellFounded
<1>2. \A j \in A : ~(j < i)
  BY <1>1 DEF OpToRel
<1>3. \A j \in A : i <= j
  BY <1>2
<1>4. QED
  BY <1>3 DEF Min

-----------------------------------------------------------------------------
(* What a plan answers is a list, whichever function it is asked of        *)

IsList(f) == f \in Seq(Range(f))

\* A function on a range of integers that begins at 1 is a list, an empty range
\* included.
LEMMA ListOnRange ==
  ASSUME NEW n \in Int, NEW f, f = [i \in 1..n |-> f[i]]
  PROVE  IsList(f)
<1>1. CASE n >= 0
  <2>1. f \in [1..n -> Range(f)] /\ n \in Nat
    BY <1>1 DEF Range
  <2>2. QED
    BY <2>1 DEF IsList
<1>2. CASE n < 0
  <2>1. 1..n = 1..0
    BY <1>2
  <2>2. f \in [1..0 -> Range(f)]
    BY <2>1 DEF Range
  <2>3. QED
    BY <2>2 DEF IsList
<1>3. QED
  BY <1>1, <1>2

\* So is a concatenation, whose members are those of its two parts.
LEMMA ListsConcatenate ==
  ASSUME NEW s, NEW t, IsList(s), IsList(t)
  PROVE  IsList(s \o t) /\ Range(s \o t) = Range(s) \cup Range(t)
<1> DEFINE S == Range(s) \cup Range(t)
<1>1. s \in Seq(S) /\ t \in Seq(S)
  BY DEF IsList
<1>2. /\ s \o t \in Seq(S) /\ Len(s \o t) = Len(s) + Len(t)
      /\ \A i \in 1..Len(s) : (s \o t)[i] = s[i]
      /\ \A i \in 1..Len(t) : (s \o t)[Len(s) + i] = t[i]
  BY <1>1, ConcatProperties
<1>3. Len(s) \in Nat /\ Len(t) \in Nat /\ DOMAIN s = 1..Len(s) /\ DOMAIN t = 1..Len(t)
      /\ DOMAIN (s \o t) = 1..(Len(s) + Len(t))
  BY <1>1, <1>2
<1>4. Range(s \o t) = S
  <2>1. ASSUME NEW x \in Range(s \o t) PROVE x \in S
    <3>1. PICK i \in DOMAIN (s \o t) : x = (s \o t)[i]
      BY DEF Range
    <3>2. QED
      BY <1>2, <3>1
  <2>2. ASSUME NEW x \in Range(s) PROVE x \in Range(s \o t)
    <3>1. PICK i \in DOMAIN s : x = s[i]
      BY DEF Range
    <3>2. i \in DOMAIN (s \o t) /\ x = (s \o t)[i]
      BY <1>2, <1>3, <3>1
    <3>3. QED
      BY <3>2 DEF Range
  <2>3. ASSUME NEW x \in Range(t) PROVE x \in Range(s \o t)
    <3>1. PICK i \in DOMAIN t : x = t[i]
      BY DEF Range
    <3>2. Len(s) + i \in DOMAIN (s \o t) /\ x = (s \o t)[Len(s) + i]
      BY <1>2, <1>3, <3>1
    <3>3. QED
      BY <3>2 DEF Range
  <2>4. QED
    BY <2>1, <2>2, <2>3
<1>5. QED
  BY <1>2, <1>4 DEF IsList

\* plan, of every function there is, at any cursor: a list, and a cursor.
LEMMA PlansAreLists ==
  ASSUME SplitAssumption, NEW q \in SplitCalls, NEW at \in Int
  PROVE  LET page == plan(q.fn, q, at)
         IN IsList(page.payloads) /\ page.next \in Int
<1> DEFINE rows == Rows(q.n)
           count == Wanted(q.splits)
           Shaped == {"split_sequence", "split_stale_plan", "split_dynamic_filter",
                      "split_empty_ranges", "split_skewed", "split_zero"}
           Good(page) == IsList(page.payloads) /\ page.next \in Int
<1>1. rows \in Nat /\ count \in Nat \ {0} /\ q.fn \in SplitFunctions
  BY DEF SplitAssumption, Rows, Wanted
<1> HIDE DEF rows, count
<1>2. ASSUME NEW x PROVE IsList(<<x>>)
  <2>1. x \in Range(<<x>>)
    BY 1 \in DOMAIN <<x>>, <<x>>[1] = x DEF Range
  <2>2. \A S : x \in S => <<x>> \in Seq(S)
    OBVIOUS
  <2>3. QED
    BY <2>1, <2>2 DEF IsList
<1>3. Good(Page(<<Whole>>, FALSE, NoCursor))
  BY <1>2 DEF Page, NoCursor
<1>4. Good(PaginatedPlan(rows, count, at))
  <2> DEFINE page == IF at = NoCursor THEN 0 ELSE at
             from == page * kPerPage
             to == IF count < from + kPerPage THEN count ELSE from + kPerPage
             shares == [i \in 1..(to - from) |-> Share(rows, from + i - 1, count)]
             next == IF to < count THEN page + 1 ELSE NoCursor
  <2>1. to - from \in Int /\ next \in Int
    BY <1>1 DEF kPerPage, NoCursor
  <2>2. IsList(shares)
    <3> DEFINE n == to - from
    <3>1. n \in Int /\ shares = [i \in 1..n |-> shares[i]]
      BY <2>1
    <3> HIDE DEF shares, n
    <3>2. QED
      BY <3>1, ListOnRange
  <2>3. PaginatedPlan(rows, count, at) = Page(shares, TRUE, next)
    BY DEF PaginatedPlan
  <2> HIDE DEF shares, next
  <2>4. QED
    BY <2>1, <2>2, <2>3 DEF Page
<1>5. Good(BatchIndexPlan(rows, count))
  <2> DEFINE shares == BatchIndexPlan(rows, count).payloads
  <2>1. shares = [i \in 1..count |-> shares[i]]
    BY DEF BatchIndexPlan, Page
  <2>2. BatchIndexPlan(rows, count).next \in Int
    BY DEF BatchIndexPlan, Page, NoCursor
  <2> HIDE DEF shares
  <2>3. IsList(shares)
    BY <1>1, <2>1, ListOnRange
  <2>4. QED
    BY <2>2, <2>3 DEF shares
<1>6. Good(PartitionedPlan(rows))
  <2> DEFINE shares == PartitionedPlan(rows).payloads
  <2>1. shares = [i \in 1..kCountries |-> shares[i]] /\ kCountries \in Int
    BY DEF PartitionedPlan, Page, kCountries
  <2>2. PartitionedPlan(rows).next \in Int
    BY DEF PartitionedPlan, Page, NoCursor
  <2> HIDE DEF shares
  <2>3. IsList(shares)
    BY <2>1, ListOnRange
  <2>4. QED
    BY <2>2, <2>3 DEF shares
<1>7. IsList(Even(rows, count)) /\ IsList(EmptyRanges(rows, count)) /\ IsList(Zero(count))
  <2>1. Even(rows, count) = [i \in 1..count |-> Even(rows, count)[i]]
    BY DEF Even
  <2>2. EmptyRanges(rows, count) = [i \in 1..count |-> EmptyRanges(rows, count)[i]]
    BY DEF EmptyRanges
  <2>3. Zero(count) = [i \in 1..count |-> Zero(count)[i]]
    BY DEF Zero
  <2>4. QED
    BY <1>1, <2>1, <2>2, <2>3, ListOnRange
<1>8. IsList(Skewed(rows, count))
  <2> DEFINE head == rows \div 2
             tail == [i \in 1..(count - 1) |->
                        [first |-> head + Share(rows - head, i - 1, count - 1).first,
                         last  |-> head + Share(rows - head, i - 1, count - 1).last]]
  <2>1. CASE count = 1 \/ rows = 0
    BY <1>2, <2>1 DEF Skewed
  <2>2. CASE ~(count = 1 \/ rows = 0)
    <3>1. Skewed(rows, count) = <<[first |-> 0, last |-> head]>> \o tail
      BY <2>2 DEF Skewed
    <3>2. IsList(tail)
      <4> DEFINE n == count - 1
      <4>1. n \in Int /\ tail = [i \in 1..n |-> tail[i]]
        BY <1>1
      <4> HIDE DEF tail, n
      <4>2. QED
        BY <4>1, ListOnRange
    <3> HIDE DEF tail
    <3>3. IsList(<<[first |-> 0, last |-> head]>>)
      BY <1>2
    <3>4. QED
      BY <3>1, <3>2, <3>3, ListsConcatenate
  <2>3. QED
    BY <2>1, <2>2
<1>9. Good(FailAtPlan(rows, count))
  BY <1>7 DEF FailAtPlan, Page, NoCursor
<1>10. Good(EndlessPlan(rows, at))
  BY <1>2 DEF EndlessPlan, Page, NoCursor
<1>11. Good(EchoPlan(count, q.bounds, q.projection))
  <2> DEFINE all == {i \in 0..(count - 1) : ~ \E b \in q.bounds : i < b.min \/ i > b.max}
             shares == EchoPlan(count, q.bounds, q.projection).payloads
  <2>1. IsFiniteSet(all)
    <3>1. IsFiniteSet(0..(count - 1))
      BY <1>1, FS_Interval
    <3>2. all \in SUBSET (0..(count - 1))
      OBVIOUS
    <3> HIDE DEF all
    <3>3. QED
      BY <3>1, <3>2, FS_Subset
  <2>2. Len(Ascending(all)) \in Int
    <3>1. Cardinality(all) \in Nat
      BY <2>1, FS_CardinalityType
    <3>2. QED
      BY <3>1 DEF Ascending
  <2>3. \E n \in Int : shares = [i \in 1..n |-> shares[i]]
    BY <2>2 DEF EchoPlan, Page
  <2>4. EchoPlan(count, q.bounds, q.projection).next \in Int
    BY DEF EchoPlan, Page, NoCursor
  <2> HIDE DEF shares
  <2>5. IsList(shares)
    BY <2>3, ListOnRange
  <2>6. QED
    BY <2>4, <2>5 DEF shares
<1>12. ASSUME q.fn \in Shaped PROVE IsList(divide(ShapeOf(q.fn), rows, count))
  <2>1. ShapeOf(q.fn) \in {"even", "empty_ranges", "skewed", "zero"}
    BY <1>12 DEF ShapeOf
  <2>2. divide(ShapeOf(q.fn), rows, count)
          \in {Even(rows, count), EmptyRanges(rows, count), Skewed(rows, count), Zero(count)}
    BY <2>1 DEF divide
  <2>3. QED
    BY <2>2, <1>7, <1>8
<1>13. NoCursor \in Int
  BY DEF NoCursor
<1>14. \A p, e, x : Page(p, e, x).payloads = p /\ Page(p, e, x).next = x
  BY DEF Page
<1>15. QED
  <2> DEFINE page == plan(q.fn, q, at)
  <2>1. q.fn \in Shaped
          => page = Page(divide(ShapeOf(q.fn), rows, count), TRUE, NoCursor)
    BY DEF plan, rows, count
  <2>2. /\ q.fn = "sequence" => page = Page(<<Whole>>, FALSE, NoCursor)
        /\ q.fn = "split_paginated" => page = PaginatedPlan(rows, count, at)
        /\ q.fn = "split_batch_index" => page = BatchIndexPlan(rows, count)
        /\ q.fn = "split_partitioned" => page = PartitionedPlan(rows)
        /\ q.fn = "split_fail_at" => page = FailAtPlan(rows, count)
        /\ q.fn = "split_endless_cursor" => page = EndlessPlan(rows, at)
        /\ q.fn = "split_echo_filters"
             => page = EchoPlan(count, q.bounds, q.projection)
    BY DEF plan, rows, count
  <2> HIDE DEF page
  <2>3. Good(page)
    <3>1. q.fn \in Shaped => Good(page)
      <4> HAVE q.fn \in Shaped
      <4> DEFINE parts == divide(ShapeOf(q.fn), rows, count)
      <4>1. IsList(parts) /\ page = Page(parts, TRUE, NoCursor)
        BY <1>12, <2>1
      <4> HIDE DEF parts
      <4>2. page.payloads = parts /\ page.next = NoCursor
        BY <1>14, <4>1
      <4>3. QED
        BY <1>13, <4>1, <4>2
    <3>2. QED
      BY <1>1, <1>3, <1>4, <1>5, <1>6, <1>9, <1>10, <1>11, <2>2, <3>1 DEF SplitFunctions
  <2>4. QED
    BY <2>3 DEF page

-----------------------------------------------------------------------------
(* The inductive invariant                                                 *)

\* What a token is bound to: the call, its snapshot, and a worker's key.
Bound(token) ==
  /\ token.fingerprint = <<asking.fn, asking.n, asking.splits>>
  /\ token.anchor = Anchor(asking.fn)
  /\ \E w \in DOMAIN fleet : token.key = fleet[w]

Stale == Anchor(asking.fn) # current_catalog_version

CallOK == asking \in SplitCalls /\ fleet \in Fleets /\ cursor \in Int

TokensAreBound == IsList(tokens) /\ \A t \in Range(tokens) : Bound(t)

\* A stale plan is one page, of which nothing was ever redeemed.
StaleInv ==
  Stale =>
    /\ delivered = EmptyBag /\ reader = [r \in Readers |-> NoReader]
    /\ planned \in {"planning", "reading", "read", "expired"}
    /\ planned = "planning" => pages = 0 /\ tokens = <<>>
    /\ planned \in {"planning", "reading"} => claimed = 0
    /\ planned = "read" => tokens = <<>>

PInv == CallOK /\ TokensAreBound /\ StaleInv

\* A list that is not empty has a first member.
LEMMA FirstOfAList ==
  ASSUME NEW s, IsList(s), s # <<>>
  PROVE  s[1] \in Range(s)
<1> DEFINE S == Range(s)
<1>1. s \in Seq(S)
  BY DEF IsList
<1> HIDE DEF S
<1>2. 1 \in DOMAIN s
  BY <1>1
<1>3. QED
  BY <1>2 DEF Range

\* What the invariant says of a stale plan.
LEMMA SplitInvImplies == PInv => StalePlanIsNotRead
<1> SUFFICES ASSUME PInv, tokens # <<>>, tokens[1].anchor # current_catalog_version
             PROVE  /\ delivered = EmptyBag /\ \A r \in Readers : ~reader[r].busy
                    /\ planned \in {"planning", "reading", "expired"}
  BY DEF StalePlanIsNotRead
<1>1. Bound(tokens[1])
  BY FirstOfAList DEF PInv, TokensAreBound
<1>2. Stale
  BY <1>1 DEF Bound, Stale
<1>3. QED
  BY <1>2 DEF PInv, StaleInv, NoReader

\* Nothing is planned at first.
LEMMA SplitInitHolds == ASSUME SplitAssumption, SplitInit PROVE PInv
<1>1. CallOK
  BY DEF SplitInit, CallOK, NoCursor
<1>2. TokensAreBound
  <2>1. tokens = <<>>
    BY DEF SplitInit
  <2>2. IsList(<<>>) /\ Range(<<>>) = {}
    BY DEF IsList, Range
  <2>3. QED
    BY <2>1, <2>2 DEF TokensAreBound
<1>3. StaleInv
  BY DEF SplitInit, StaleInv
<1>4. QED
  BY <1>1, <1>2, <1>3 DEF PInv

-----------------------------------------------------------------------------
(* Redeeming a stale plan                                                  *)

\* Every token of a stale plan expires, at every worker.
LEMMA StaleExpires ==
  ASSUME SplitAssumption, fleet \in Fleets, Stale, NEW token, Bound(token),
         NEW w \in DOMAIN fleet
  PROVE  open_error(token, w) = "expired"
<1>1. (token.key = NoKey) = (fleet[w] = NoKey)
  BY DEF Bound, SplitAssumption
<1>2. /\ token.fingerprint = <<asking.fn, asking.n, asking.splits>>
      /\ token.anchor # current_catalog_version
  BY DEF Bound, Stale
<1>3. QED
  BY <1>1, <1>2 DEF open_error

\* So a claim of them is refused as a whole.
LEMMA StaleIsRefused ==
  ASSUME SplitAssumption, fleet \in Fleets, Stale, NEW r \in Readers,
         NEW w \in DOMAIN fleet, NEW claim, Len(claim) \in Nat \ {0},
         \A i \in 1..Len(claim) : Bound(claim[i]), Redeem(r, claim, w)
  PROVE  planned' = "expired" /\ reader' = [reader EXCEPT ![r] = NoReader]
<1>1. \A i \in 1..Len(claim) : open_error(claim[i], w) = "expired"
  BY StaleExpires
<1>2. {open_error(claim[i], w) : i \in 1..Len(claim)} \ {"none"} # {}
  <2>1. 1 \in 1..Len(claim)
    OBVIOUS
  <2>2. QED
    BY <1>1, <2>1
<1> DEFINE bad == {i \in 1..Len(claim) : open_error(claim[i], w) # "none"}
<1>3. bad = 1..Len(claim) /\ bad # {} /\ bad \in SUBSET Nat
  BY <1>1
<1>4. Min(bad) \in 1..Len(claim)
  BY <1>3, MinIsThere
<1>5. QED
  BY <1>1, <1>2, <1>4 DEF Redeem

-----------------------------------------------------------------------------
(* The steps                                                               *)

\* What the planning worker answers with is bound to the call.
LEMMA PlannedTokens ==
  ASSUME SplitAssumption, PInv, NEW w \in DOMAIN fleet, Plan(w)
  PROVE  TokensAreBound' /\ CallOK'
<1> DEFINE page == plan(asking.fn, asking, cursor)
           Token(i) == build(page.payloads[i], page.exact, w)
           new == [i \in 1..Len(page.payloads) |-> Token(i)]
<1>1. /\ tokens' = tokens \o new /\ cursor' = page.next
      /\ asking' = asking /\ fleet' = fleet
  BY DEF Plan
<1>2. IsList(page.payloads) /\ page.next \in Int
  BY PlansAreLists DEF PInv, CallOK
<1> HIDE DEF page
<1>3. CallOK'
  BY <1>1, <1>2 DEF PInv, CallOK
<1>4. IsList(new)
  <2> DEFINE n == Len(page.payloads)
  <2>1. n \in Int
    <3> DEFINE payloads == page.payloads
               S == Range(payloads)
    <3>1. payloads \in Seq(S)
      BY <1>2 DEF IsList
    <3> HIDE DEF payloads, S
    <3>2. Len(payloads) \in Int
      BY <3>1
    <3>3. QED
      BY <3>2 DEF payloads
  <2>2. new = [i \in 1..n |-> new[i]]
    OBVIOUS
  <2> HIDE DEF new, n
  <2>3. QED
    BY <2>1, <2>2, ListOnRange
<1>5. \A t \in Range(new) : Bound(t)
  <2>1. \A i : Bound(Token(i))
    BY DEF build, Bound
  <2> HIDE DEF Token
  <2>2. QED
    BY <2>1 DEF Range
<1> HIDE DEF new
<1>6. IsList(tokens') /\ \A t \in Range(tokens') : Bound(t)
  BY <1>1, <1>4, <1>5, ListsConcatenate DEF PInv, TokensAreBound
<1>7. \A t : Bound(t) => Bound(t)'
  BY <1>1 DEF Bound, Anchor
<1>8. QED
  BY <1>3, <1>6, <1>7 DEF TokensAreBound

\* A plan that is stale is whole with its first page.
LEMMA StaleIsOnePage ==
  ASSUME SplitAssumption, PInv, NEW w \in DOMAIN fleet, Plan(w)
  PROVE  StaleInv'
<1>1. asking' = asking /\ UNCHANGED <<claimed, reader, delivered>> /\ planned = "planning"
      /\ planned' = IF plan(asking.fn, asking, cursor).next = NoCursor
                    THEN "reading" ELSE "planning"
  BY DEF Plan
<1>2. Stale' = Stale
  BY <1>1 DEF Stale, Anchor, current_catalog_version
<1>3. ASSUME Stale PROVE planned' = "reading"
  <2>1. asking.fn = "split_stale_plan"
    BY <1>3 DEF Stale, Anchor, Pinned, current_catalog_version
  <2>2. plan(asking.fn, asking, cursor).next = NoCursor
    BY <2>1 DEF plan, Page
  <2>3. QED
    BY <1>1, <2>2
<1>4. QED
  BY <1>1, <1>2, <1>3 DEF PInv, StaleInv

\* The other steps leave the plan as it is.
LEMMA PlanIsKept ==
  ASSUME PInv, UNCHANGED <<asking, fleet, tokens, cursor>>
  PROVE  CallOK' /\ TokensAreBound' /\ Stale' = Stale
BY DEF PInv, CallOK, TokensAreBound, Bound, Stale, Anchor, current_catalog_version

\* A stale plan that is claimed expires; no redemption of it ever runs, so the
\* steps of one do not happen.
LEMMA StaleIsNotRead ==
  ASSUME SplitAssumption, PInv, Stale,
         \/ GiveUp
         \/ \E r \in Readers, w \in DOMAIN fleet : Claim(r, w) \/ WorkerDies(r, w)
         \/ \E r \in Readers : Tick(r) \/ StreamEnds(r)
         \/ ScanEnds
  PROVE  StaleInv' /\ UNCHANGED <<asking, fleet, tokens, cursor>>
<1>1. /\ delivered = EmptyBag /\ reader = [r \in Readers |-> NoReader]
      /\ planned \in {"planning", "reading", "read", "expired"}
      /\ planned = "planning" => pages = 0
      /\ planned = "reading" => claimed = 0
      /\ IsList(tokens) /\ fleet \in Fleets
  BY DEF PInv, StaleInv, TokensAreBound, CallOK
<1>2. \A r \in Readers : ~reader[r].busy
  BY <1>1 DEF NoReader
<1>3. ~GiveUp
  BY <1>1 DEF GiveUp, SplitAssumption
<1>4. ASSUME NEW r \in Readers, NEW w \in DOMAIN fleet, Claim(r, w)
      PROVE  StaleInv' /\ UNCHANGED <<asking, fleet, tokens, cursor>>
  <2>1. PICK k \in 1..MaxClaim :
          k <= Len(tokens) /\ Redeem(r, SubSeq(tokens, 1, k), w) /\ planned = "reading"
    <3>1. planned = "reading" /\ claimed = 0
      BY <1>1, <1>4 DEF Claim
    <3>2. PICK k \in 1..MaxClaim :
            /\ claimed + k <= Len(tokens)
            /\ Redeem(r, SubSeq(tokens, claimed + 1, claimed + k), w)
      BY <1>4 DEF Claim
    <3>3. claimed + k = k /\ claimed + 1 = 1
      BY <3>1 DEF SplitAssumption
    <3>4. QED
      BY <3>1, <3>2, <3>3
  <2> DEFINE claim == SubSeq(tokens, 1, k)
  <2>2. Len(claim) \in Nat \ {0} /\ \A i \in 1..Len(claim) : Bound(claim[i])
    <3> DEFINE S == Range(tokens)
    <3>1. tokens \in Seq(S) /\ \A t \in S : Bound(t)
      BY DEF PInv, TokensAreBound, IsList
    <3> HIDE DEF S
    <3>2. k \in Nat \ {0} /\ k <= Len(tokens)
      BY <2>1 DEF SplitAssumption
    <3>3. claim \in Seq(S) /\ Len(claim) = k
      BY <3>1, <3>2, SubSeqProperties
    <3>4. QED
      BY <3>1, <3>2, <3>3
  <2>3. planned' = "expired" /\ reader' = [reader EXCEPT ![r] = NoReader]
    BY <1>1, <2>1, <2>2, StaleIsRefused
  <2>4. reader' = [q \in Readers |-> NoReader]
    BY <1>1, <2>3
  <2>5. UNCHANGED <<asking, fleet, tokens, cursor, delivered>>
    BY <1>4 DEF Claim
  <2>6. QED
    BY <1>1, <2>3, <2>4, <2>5 DEF StaleInv
<1>5. \A r \in Readers, w \in DOMAIN fleet : ~WorkerDies(r, w)
  BY <1>2 DEF WorkerDies
<1>6. \A r \in Readers : ~Tick(r) /\ ~StreamEnds(r)
  BY <1>2 DEF Tick, StreamEnds
<1>7. ASSUME ScanEnds PROVE StaleInv' /\ UNCHANGED <<asking, fleet, tokens, cursor>>
  <2>1. /\ planned = "reading" /\ planned' = "read" /\ claimed = Len(tokens)
        /\ UNCHANGED <<asking, fleet, tokens, cursor, delivered, reader>>
    BY <1>7 DEF ScanEnds
  <2>2. tokens = <<>>
    <3> DEFINE S == Range(tokens)
    <3>1. tokens \in Seq(S)
      BY <1>1 DEF IsList
    <3> HIDE DEF S
    <3>2. QED
      BY <1>1, <2>1, <3>1
  <2>3. QED
    BY <1>1, <2>1, <2>2 DEF StaleInv
<1>8. QED
  BY <1>3, <1>4, <1>5, <1>6, <1>7

\* No step reads a stale plan.
LEMMA SplitStep == ASSUME SplitAssumption, PInv, [SplitNext]_splitVars PROVE PInv'
<1>1. ASSUME NEW w \in DOMAIN fleet, Plan(w) PROVE PInv'
  BY <1>1, PlannedTokens, StaleIsOnePage DEF PInv
<1> DEFINE Other == \/ GiveUp
                    \/ \E r \in Readers, w \in DOMAIN fleet : Claim(r, w) \/ WorkerDies(r, w)
                    \/ \E r \in Readers : Tick(r) \/ StreamEnds(r)
                    \/ ScanEnds
<1>2. ASSUME Other PROVE PInv'
  <2>1. UNCHANGED <<asking, fleet, tokens, cursor>>
    BY <1>2 DEF GiveUp, Claim, WorkerDies, Tick, StreamEnds, ScanEnds
  <2>2. CallOK' /\ TokensAreBound' /\ Stale' = Stale
    BY <2>1, PlanIsKept
  <2>3. CASE Stale
    BY <1>2, <2>2, <2>3, StaleIsNotRead DEF PInv
  <2>4. CASE ~Stale
    BY <2>2, <2>4 DEF PInv, StaleInv
  <2>5. QED
    BY <2>3, <2>4
<1>3. ASSUME UNCHANGED splitVars PROVE PInv'
  <2>1. UNCHANGED <<asking, fleet, tokens, cursor>>
    BY <1>3 DEF splitVars
  <2>2. CallOK' /\ TokensAreBound' /\ Stale' = Stale
    BY <2>1, PlanIsKept
  <2>3. StaleInv'
    BY <1>3, <2>2 DEF PInv, StaleInv, splitVars
  <2>4. QED
    BY <2>2, <2>3 DEF PInv
<1>4. QED
  BY <1>1, <1>2, <1>3 DEF SplitNext

\* For any calls, fleets of one transport, readers and claim sizes, and however
\* many workers die: a plan pinned to a snapshot that no worker serves delivers
\* no row and ends expired, never read (split_token::open before the payloads
\* are used, init with split_tokens).
THEOREM StalePlan == ASSUME SplitAssumption PROVE SplitSpec => []StalePlanIsNotRead
<1>1. SplitInit => PInv
  BY SplitInitHolds
<1>2. PInv /\ [SplitNext]_splitVars => PInv'
  BY SplitStep
<1>3. QED
  BY <1>1, <1>2, SplitInvImplies, PTL DEF SplitSpec

-----------------------------------------------------------------------------
(* Arithmetic of shares                                                    *)

\* Products of naturals grow with each factor.
LEMMA TimesGrows ==
  ASSUME NEW a \in Nat, NEW b \in Nat, NEW c \in Nat, a <= b
  PROVE  c * a <= c * b /\ a * c <= b * c /\ c * a \in Nat /\ a * c \in Nat
<1> DEFINE d == b - a
<1>1. d \in Nat /\ b = a + d
  OBVIOUS
<1> HIDE DEF d
<1>2. c * b = c * a + c * d /\ b * c = a * c + d * c /\ c * d \in Nat /\ d * c \in Nat
      /\ c * a \in Nat /\ a * c \in Nat
  BY <1>1
<1>3. QED
  BY <1>2

\* What a quotient is.
LEMMA Quotient ==
  ASSUME NEW a \in Nat, NEW c \in Nat \ {0}
  PROVE  /\ a \div c \in Nat
         /\ (a \div c) * c <= a
         /\ a < (a \div c + 1) * c
<1> DEFINE q == a \div c
           r == a % c
<1>1. q \in Int /\ r \in 0..(c - 1) /\ a = c * q + r
  BY SMT
<1> HIDE DEF q, r
<1>2. q >= 0
  <2>1. SUFFICES ASSUME q < 0 PROVE FALSE
    BY <1>1
  <2> DEFINE m == 0 - q
  <2>2. m \in Nat /\ m >= 1 /\ q = 0 - m
    BY <1>1, <2>1
  <2> HIDE DEF m
  <2>3. c * 1 <= c * m /\ c * m \in Nat /\ c * 1 = c
    BY <2>2, TimesGrows
  <2>4. c * q = 0 - c * m
    BY <2>2
  <2> DEFINE p == c * m
  <2>5. p \in Nat /\ c <= p /\ c * q = 0 - p
    BY <2>3, <2>4
  <2> HIDE DEF p
  <2>6. r \in Int /\ r < c
    BY <1>1
  <2>7. a = (0 - p) + r
    BY <1>1, <2>5
  <2>8. QED
    BY <2>5, <2>6, <2>7
<1>3. q \in Nat
  BY <1>1, <1>2
<1>4. q * c = c * q /\ (q + 1) * c = c * q + c
  BY <1>3
<1>5. QED
  BY <1>1, <1>3, <1>4 DEF q

\* A larger dividend has no smaller quotient.
LEMMA QuotientGrows ==
  ASSUME NEW a \in Nat, NEW b \in Nat, NEW c \in Nat \ {0}, a <= b
  PROVE  a \div c <= b \div c
<1> DEFINE p == a \div c
           q == b \div c
<1>1. p \in Nat /\ q \in Nat /\ p * c <= a /\ b < (q + 1) * c
  BY Quotient
<1> HIDE DEF p, q
<1>2. SUFFICES ASSUME q + 1 <= p PROVE FALSE
  BY <1>1 DEF p, q
<1>3. (q + 1) * c <= p * c
  BY <1>1, <1>2, TimesGrows
<1>4. (q + 1) * c \in Nat /\ p * c \in Nat
  BY <1>1
<1>5. QED
  BY <1>1, <1>3, <1>4

\* A product divides.
LEMMA ExactQuotient ==
  ASSUME NEW a \in Nat, NEW c \in Nat \ {0}
  PROVE  (a * c) \div c = a
<1> DEFINE q == (a * c) \div c
<1>1. a * c \in Nat
  OBVIOUS
<1>2. q \in Nat /\ q * c <= a * c /\ a * c < (q + 1) * c
  BY <1>1, Quotient
<1> HIDE DEF q
<1>3. ~(q < a)
  <2> SUFFICES ASSUME q + 1 <= a PROVE FALSE
    BY <1>2
  <2>1. (q + 1) * c <= a * c
    BY <1>2, TimesGrows
  <2>2. (q + 1) * c \in Nat
    BY <1>2
  <2>3. QED
    BY <1>1, <1>2, <2>1, <2>2
<1>4. ~(a < q)
  <2> SUFFICES ASSUME a + 1 <= q PROVE FALSE
    BY <1>2
  <2>1. (a + 1) * c <= q * c
    BY <1>2, TimesGrows
  <2>2. (a + 1) * c = a * c + c /\ q * c \in Nat
    BY <1>2
  <2>3. QED
    BY <1>1, <1>2, <2>1, <2>2
<1>5. QED
  BY <1>2, <1>3, <1>4 DEF q

\* The first k of count shares of rows end here.
Upto(rows, k, count) == (rows * k) \div count

\* The ends of the shares grow from nothing to all the rows.
LEMMA SharesGrow ==
  ASSUME NEW rows \in Nat, NEW count \in Nat \ {0}
  PROVE  /\ Upto(rows, 0, count) = 0 /\ Upto(rows, count, count) = rows
         /\ \A k \in Nat : Upto(rows, k, count) \in Nat
         /\ \A j, k \in Nat : j <= k => Upto(rows, j, count) <= Upto(rows, k, count)
<1>1. Upto(rows, count, count) = rows
  BY ExactQuotient DEF Upto
<1>2. Upto(rows, 0, count) = 0
  <2>1. rows * 0 = 0 * count
    OBVIOUS
  <2>2. QED
    BY <2>1, ExactQuotient DEF Upto
<1>3. ASSUME NEW k \in Nat PROVE Upto(rows, k, count) \in Nat
  <2>1. rows * k \in Nat
    OBVIOUS
  <2>2. QED
    BY <2>1, Quotient DEF Upto
<1>4. ASSUME NEW j \in Nat, NEW k \in Nat, j <= k
      PROVE  Upto(rows, j, count) <= Upto(rows, k, count)
  <2>1. rows * j <= rows * k /\ rows * j \in Nat /\ rows * k \in Nat
    BY <1>4, TimesGrows
  <2>2. QED
    BY <2>1, QuotientGrows DEF Upto
<1>5. QED
  BY <1>1, <1>2, <1>3, <1>4

-----------------------------------------------------------------------------
(* A plan's ranges tile the scan                                           *)

\* The ranges of p are cut at the places B, which do not descend from 0.
Tiles(p, B, n) ==
  /\ B \in [0..n -> Nat] /\ B[0] = 0
  /\ \A j, k \in 0..n : j <= k => B[j] <= B[k]
  /\ \A i \in 1..n : p[i].first = B[i - 1] /\ p[i].last = B[i]

\* The rows of a range.
RangeOf(payload) == payload.first..(payload.last - 1)

\* A payload that is a range.
IsRange(payload) ==
  payload.first \in Nat /\ payload.last \in Nat /\ payload.first <= payload.last

\* A set of naturals that is not empty has a least member.
LEMMA LeastOf ==
  ASSUME NEW A \in SUBSET Nat, A # {}
  PROVE  \E i \in A : \A j \in A : i <= j
<1>1. PICK i \in A : \A j \in A : ~(<<j, i>> \in OpToRel(<, Nat))
  BY WFMin, NatLessThanWellFounded
<1>2. \A j \in A : ~(j < i)
  BY <1>1 DEF OpToRel
<1>3. QED
  BY <1>2

\* Ranges that tile are apart, and together they are everything below their end.
LEMMA TilesCover ==
  ASSUME NEW n \in Nat, NEW p, NEW B, Tiles(p, B, n)
  PROVE  /\ \A i \in 1..n : IsRange(p[i])
         /\ \A i, j \in 1..n : i # j => RangeOf(p[i]) \cap RangeOf(p[j]) = {}
         /\ UNION {RangeOf(p[i]) : i \in 1..n} = 0..(B[n] - 1)
<1>1. ASSUME NEW i \in 1..n
      PROVE  /\ p[i].first = B[i - 1] /\ p[i].last = B[i]
             /\ B[i - 1] \in Nat /\ B[i] \in Nat /\ B[i - 1] <= B[i] /\ B[i] <= B[n]
  <2> DEFINE h == i - 1
  <2>1. h \in 0..n /\ i \in 0..n /\ n \in 0..n /\ h <= i /\ i <= n
    OBVIOUS
  <2>2. p[i].first = B[h] /\ p[i].last = B[i]
    BY DEF Tiles
  <2> HIDE DEF h
  <2>3. B[h] \in Nat /\ B[i] \in Nat /\ B[h] <= B[i] /\ B[i] <= B[n]
    BY <2>1 DEF Tiles
  <2>4. QED
    BY <2>2, <2>3 DEF h
<1>2. \A i \in 1..n : IsRange(p[i])
  BY <1>1 DEF IsRange
<1>3. ASSUME NEW i \in 1..n, NEW j \in 1..n, i < j PROVE B[i] <= B[j - 1]
  <2> DEFINE h == j - 1
  <2>1. h \in 0..n /\ i \in 0..n /\ i <= h
    BY <1>3
  <2> HIDE DEF h
  <2>2. B[i] <= B[h]
    BY <2>1 DEF Tiles
  <2>3. QED
    BY <2>2 DEF h
<1>4. ASSUME NEW i \in 1..n, NEW j \in 1..n, i < j
      PROVE  RangeOf(p[i]) \cap RangeOf(p[j]) = {}
  <2>1. p[i].last \in Nat /\ p[j].first \in Nat /\ p[i].last <= p[j].first
        /\ p[i].first \in Nat /\ p[j].last \in Nat
    BY <1>1, <1>3, <1>4
  <2>2. QED
    BY <2>1 DEF RangeOf
<1>5. ASSUME NEW i \in 1..n, NEW j \in 1..n, i # j
      PROVE  RangeOf(p[i]) \cap RangeOf(p[j]) = {}
  <2>1. i < j \/ j < i
    BY <1>5
  <2>2. QED
    BY <2>1, <1>4
<1>6. B[n] \in Nat
  BY DEF Tiles
<1>7. ASSUME NEW i \in 1..n, NEW v \in RangeOf(p[i]) PROVE v \in 0..(B[n] - 1)
  <2>1. p[i].first \in Nat /\ p[i].last \in Nat /\ p[i].last <= B[n]
    BY <1>1
  <2>2. v \in p[i].first..(p[i].last - 1)
    BY DEF RangeOf
  <2>3. QED
    BY <1>6, <2>1, <2>2
<1>8. ASSUME NEW v \in 0..(B[n] - 1) PROVE \E i \in 1..n : v \in RangeOf(p[i])
  <2> DEFINE past == {k \in 0..n : v < B[k]}
  <2>0. v \in Nat
    BY <1>6
  <2>1. n \in past
    BY <1>6
  <2>2. past \in SUBSET Nat
    OBVIOUS
  <2>3. PICK k \in past : \A j \in past : k <= j
    BY <2>1, <2>2, LeastOf
  <2>4. k # 0
    BY <2>0 DEF Tiles
  <2>5. k \in 1..n /\ k - 1 \in 0..n /\ k - 1 \notin past
    BY <2>3, <2>4
  <2>6. v < B[k] /\ ~(v < B[k - 1])
    BY <2>3, <2>5
  <2>7. p[k].first = B[k - 1] /\ p[k].last = B[k] /\ B[k - 1] \in Nat /\ B[k] \in Nat
    BY <1>1, <2>5
  <2>8. v \in RangeOf(p[k])
    BY <2>0, <2>6, <2>7 DEF RangeOf
  <2>9. QED
    BY <2>5, <2>8
<1>9. UNION {RangeOf(p[i]) : i \in 1..n} = 0..(B[n] - 1)
  BY <1>7, <1>8
<1>10. QED
  BY <1>2, <1>5, <1>9

\* Even shares of the rows.
LEMMA EvenTiles ==
  ASSUME NEW rows \in Nat, NEW count \in Nat \ {0}
  PROVE  \E B : Tiles(Even(rows, count), B, count) /\ B[count] = rows
<1> DEFINE B == [k \in 0..count |-> Upto(rows, k, count)]
<1>1. /\ \A k \in 0..count : Upto(rows, k, count) \in Nat
      /\ \A j, k \in 0..count : j <= k => Upto(rows, j, count) <= Upto(rows, k, count)
      /\ Upto(rows, 0, count) = 0 /\ Upto(rows, count, count) = rows
  BY SharesGrow
<1>2. /\ B \in [0..count -> Nat] /\ B[0] = 0 /\ B[count] = rows
      /\ \A j, k \in 0..count : j <= k => B[j] <= B[k]
  BY <1>1
<1>3. ASSUME NEW i \in 1..count
      PROVE  /\ Even(rows, count)[i].first = B[i - 1]
             /\ Even(rows, count)[i].last = B[i]
  <2>1. i - 1 \in 0..count /\ i \in 0..count /\ (i - 1) + 1 = i
    OBVIOUS
  <2>2. B[i - 1] = Upto(rows, i - 1, count) /\ B[i] = Upto(rows, i, count)
    BY <2>1
  <2>3. Even(rows, count)[i] = Share(rows, i - 1, count)
    BY DEF Even
  <2>4. Share(rows, i - 1, count).first = Upto(rows, i - 1, count)
        /\ Share(rows, i - 1, count).last = Upto(rows, (i - 1) + 1, count)
    BY DEF Share, Upto
  <2>5. QED
    BY <2>1, <2>2, <2>3, <2>4
<1> HIDE DEF B
<1>4. Tiles(Even(rows, count), B, count) /\ B[count] = rows
  BY <1>2, <1>3 DEF Tiles
<1>5. QED
  BY <1>4

\* With every other range empty.
LEMMA EmptyRangesTile ==
  ASSUME NEW rows \in Nat, NEW count \in Nat \ {0}
  PROVE  \E B : Tiles(EmptyRanges(rows, count), B, count) /\ B[count] = rows
<1> DEFINE real == (count + 1) \div 2
           Half(k) == (k + 1) \div 2
           B == [k \in 0..count |-> Upto(rows, Half(k), real)]
<1>1. real \in Nat \ {0}
  OBVIOUS
<1>2. /\ Half(0) = 0 /\ Half(count) = real
      /\ \A k \in 0..count : Half(k) \in Nat
      /\ \A j, k \in 0..count : j <= k => Half(j) <= Half(k)
  OBVIOUS
<1> HIDE DEF real
<1>3. /\ \A k \in Nat : Upto(rows, k, real) \in Nat
      /\ \A j, k \in Nat : j <= k => Upto(rows, j, real) <= Upto(rows, k, real)
      /\ Upto(rows, 0, real) = 0 /\ Upto(rows, real, real) = rows
  BY <1>1, SharesGrow
<1>4. /\ B \in [0..count -> Nat] /\ B[0] = 0 /\ B[count] = rows
      /\ \A j, k \in 0..count : j <= k => B[j] <= B[k]
  BY <1>2, <1>3
<1>5. ASSUME NEW i \in 1..count
      PROVE  /\ EmptyRanges(rows, count)[i].first = B[i - 1]
             /\ EmptyRanges(rows, count)[i].last = B[i]
  <2>1. i - 1 \in 0..count /\ i \in 0..count /\ Half(i - 1) = i \div 2
        /\ (i % 2 = 0 => Half(i) = i \div 2) /\ (i % 2 # 0 => Half(i) = i \div 2 + 1)
    OBVIOUS
  <2>2. B[i - 1] = Upto(rows, Half(i - 1), real) /\ B[i] = Upto(rows, Half(i), real)
    BY <2>1
  <2>3. EmptyRanges(rows, count)[i]
          = IF i % 2 = 0
            THEN [first |-> Upto(rows, i \div 2, real), last |-> Upto(rows, i \div 2, real)]
            ELSE [first |-> Upto(rows, i \div 2, real), last |-> Upto(rows, i \div 2 + 1, real)]
    BY DEF EmptyRanges, Upto, real
  <2> HIDE DEF Half, B
  <2>4. CASE i % 2 = 0
    BY <2>1, <2>2, <2>3, <2>4
  <2>5. CASE i % 2 # 0
    BY <2>1, <2>2, <2>3, <2>5
  <2>6. QED
    BY <2>4, <2>5
<1> HIDE DEF B
<1>6. Tiles(EmptyRanges(rows, count), B, count) /\ B[count] = rows
  BY <1>4, <1>5 DEF Tiles
<1>7. QED
  BY <1>6

\* With half of the rows in the first range.
LEMMA SkewedTiles ==
  ASSUME NEW rows \in Nat, NEW count \in Nat \ {0}
  PROVE  \E B : /\ Tiles(Skewed(rows, count), B, Len(Skewed(rows, count)))
                /\ B[Len(Skewed(rows, count))] = rows
<1>1. CASE count = 1 \/ rows = 0
  <2> DEFINE B == [k \in 0..1 |-> IF k = 0 THEN 0 ELSE rows]
             s == <<[first |-> 0, last |-> rows]>>
  <2>1. Skewed(rows, count) = s
    BY <1>1 DEF Skewed
  <2>2. Len(s) = 1 /\ s[1].first = 0 /\ s[1].last = rows
    OBVIOUS
  <2>3. B \in [0..1 -> Nat] /\ B[0] = 0 /\ B[1] = rows
    OBVIOUS
  <2>4. \A j, k \in 0..1 : j <= k => B[j] <= B[k]
    OBVIOUS
  <2> HIDE DEF s, B
  <2>5. Tiles(s, B, 1)
    <3>1. \A i \in 1..1 : i = 1 /\ i - 1 = 0
      OBVIOUS
    <3>2. QED
      BY <2>2, <2>3, <2>4, <3>1 DEF Tiles
  <2>6. QED
    BY <2>1, <2>2, <2>3, <2>5
<1>2. CASE ~(count = 1 \/ rows = 0)
  <2> DEFINE head == rows \div 2
             rest == rows - head
             m == count - 1
             one == <<[first |-> 0, last |-> head]>>
             tail == [i \in 1..m |-> [first |-> head + Share(rest, i - 1, m).first,
                                      last  |-> head + Share(rest, i - 1, m).last]]
             s == one \o tail
             B == [k \in 0..count |-> IF k = 0 THEN 0 ELSE head + Upto(rest, k - 1, m)]
  <2>1. Skewed(rows, count) = s
    BY <1>2 DEF Skewed
  <2>2. head \in Nat /\ rest \in Nat /\ m \in Nat \ {0} /\ head + rest = rows /\ count = m + 1
    BY <1>2
  <2> HIDE DEF head, rest, m
  <2>3. /\ \A k \in Nat : Upto(rest, k, m) \in Nat
        /\ \A j, k \in Nat : j <= k => Upto(rest, j, m) <= Upto(rest, k, m)
        /\ Upto(rest, 0, m) = 0 /\ Upto(rest, m, m) = rest
    BY <2>2, SharesGrow
  <2>4. /\ B \in [0..count -> Nat] /\ B[0] = 0 /\ B[count] = rows
        /\ \A j, k \in 0..count : j <= k => B[j] <= B[k]
    <3>1. \A k \in 0..count : k = 0 \/ k - 1 \in Nat
      BY <2>2
    <3>2. count # 0 /\ count - 1 = m /\ count \in 0..count /\ 0 \in 0..count
      BY <2>2
    <3>3. B \in [0..count -> Nat]
      BY <2>2, <2>3, <3>1
    <3>4. B[0] = 0 /\ B[count] = rows
      BY <2>2, <2>3, <3>2
    <3>5. ASSUME NEW j \in 0..count, NEW k \in 0..count, j <= k PROVE B[j] <= B[k]
      <4>1. CASE j = 0
        BY <3>3, <4>1, <3>2
      <4>2. CASE j # 0
        <5>1. j - 1 \in Nat /\ k - 1 \in Nat /\ j - 1 <= k - 1 /\ k # 0
          BY <3>5, <4>2
        <5>2. Upto(rest, j - 1, m) <= Upto(rest, k - 1, m)
              /\ Upto(rest, j - 1, m) \in Nat /\ Upto(rest, k - 1, m) \in Nat
          BY <2>3, <5>1
        <5>3. B[j] = head + Upto(rest, j - 1, m) /\ B[k] = head + Upto(rest, k - 1, m)
          BY <4>2, <5>1
        <5>4. QED
          BY <2>2, <5>2, <5>3
      <4>3. QED
        BY <4>1, <4>2
    <3>6. QED
      BY <3>3, <3>4, <3>5
  <2>5. /\ Len(s) = count /\ s[1] = [first |-> 0, last |-> head]
        /\ \A i \in 1..m : s[i + 1] = tail[i]
    <3> DEFINE S == {[first |-> 0, last |-> head]} \cup Range(tail)
    <3>1. one \in Seq(S) /\ Len(one) = 1 /\ one[1] = [first |-> 0, last |-> head]
      OBVIOUS
    <3>2. tail \in Seq(S) /\ Len(tail) = m
      <4>1. tail \in [1..m -> S]
        BY DEF Range
      <4> HIDE DEF tail, S
      <4>2. QED
        BY <2>2, <4>1
    <3> HIDE DEF tail, one, S
    <3>30. one \in Seq(S) /\ tail \in Seq(S)
      BY <3>1, <3>2
    <3>3. /\ Len(s) = Len(one) + Len(tail)
          /\ \A i \in 1..Len(one) : s[i] = one[i]
          /\ \A i \in 1..Len(tail) : s[Len(one) + i] = tail[i]
      BY <3>30, ConcatProperties
    <3> HIDE DEF s
    <3>4. \A i \in 1..m : s[1 + i] = tail[i] /\ 1 + i = i + 1
      BY <3>1, <3>2, <3>3
    <3>5. QED
      BY <2>2, <3>1, <3>2, <3>3, <3>4
  <2>6. ASSUME NEW i \in 1..m
        PROVE  s[i + 1].first = B[i] /\ s[i + 1].last = B[i + 1]
    <3>1. tail[i].first = head + Share(rest, i - 1, m).first
          /\ tail[i].last = head + Share(rest, i - 1, m).last
      OBVIOUS
    <3>2. Share(rest, i - 1, m).first = Upto(rest, i - 1, m)
          /\ Share(rest, i - 1, m).last = Upto(rest, (i - 1) + 1, m)
      BY DEF Share, Upto
    <3>3. i \in 0..count /\ i + 1 \in 0..count /\ i # 0 /\ i + 1 # 0 /\ (i + 1) - 1 = i
          /\ (i - 1) + 1 = i
      BY <2>2
    <3>4. B[i] = head + Upto(rest, i - 1, m) /\ B[i + 1] = head + Upto(rest, i, m)
      BY <3>3
    <3> HIDE DEF s, tail, B
    <3>5. QED
      BY <2>5, <3>1, <3>2, <3>3, <3>4
  <2>7. B[1] = head
    <3>1. 1 \in 0..count /\ 1 - 1 = 0
      BY <2>2
    <3>2. QED
      BY <2>2, <2>3, <3>1
  <2> HIDE DEF s, tail, B, one
  <2>8. ASSUME NEW i \in 1..count PROVE s[i].first = B[i - 1] /\ s[i].last = B[i]
    <3>1. CASE i = 1
      <4>1. i - 1 = 0
        BY <3>1
      <4>2. QED
        BY <2>4, <2>5, <2>7, <3>1, <4>1
    <3>2. CASE i # 1
      <4>1. i - 1 \in 1..m /\ (i - 1) + 1 = i
        BY <2>2, <3>2
      <4>2. QED
        BY <2>6, <4>1
    <3>3. QED
      BY <3>1, <3>2
  <2>9. Tiles(s, B, count)
    BY <2>4, <2>8 DEF Tiles
  <2>10. QED
    BY <2>1, <2>4, <2>5, <2>9
<1>3. QED
  BY <1>1, <1>2

\* split_zero: ranges without rows.
LEMMA ZeroTiles ==
  ASSUME NEW count \in Nat \ {0}
  PROVE  \E B : Tiles(Zero(count), B, count) /\ B[count] = 0
<1> DEFINE B == [k \in 0..count |-> 0]
<1>1. B \in [0..count -> Nat] /\ B[0] = 0 /\ B[count] = 0
      /\ \A j, k \in 0..count : j <= k => B[j] <= B[k]
  OBVIOUS
<1>2. \A i \in 1..count : Zero(count)[i].first = B[i - 1] /\ Zero(count)[i].last = B[i]
  BY DEF Zero
<1> HIDE DEF B
<1>3. Tiles(Zero(count), B, count) /\ B[count] = 0
  BY <1>1, <1>2 DEF Tiles
<1>4. QED
  BY <1>3

\* A list that has every member of S, once.
IsListing(s, S) ==
  /\ \A i \in 1..Len(s) : s[i] \in S
  /\ \A i, j \in 1..Len(s) : i # j => s[i] # s[j]
  /\ \A x \in S : \E i \in 1..Len(s) : s[i] = x

\* Ascending lists its set, once each.
LEMMA AscendingLists ==
  ASSUME NEW S \in SUBSET Nat, IsFiniteSet(S)
  PROVE  /\ Ascending(S) = [i \in 1..Cardinality(S) |-> Ascending(S)[i]]
         /\ Len(Ascending(S)) = Cardinality(S) /\ Cardinality(S) \in Nat
         /\ IsListing(Ascending(S), S)
<1> DEFINE n == Cardinality(S)
           Below(x) == {y \in S : y < x}
           R == [x \in S |-> Cardinality(Below(x)) + 1]
           Is(x, i) == Cardinality(Below(x)) = i - 1
           s == [i \in 1..n |-> CHOOSE x \in S : Is(x, i)]
<1>1. n \in Nat
  BY FS_CardinalityType
<1>2. ASSUME NEW x \in S
      PROVE  Cardinality(Below(x)) \in Nat /\ Cardinality(Below(x)) < n
  <2>1. Below(x) \in SUBSET S /\ x \notin Below(x)
    OBVIOUS
  <2>2. IsFiniteSet(Below(x)) /\ Cardinality(Below(x)) <= n
        /\ (Cardinality(S) = Cardinality(Below(x)) => S = Below(x))
    BY <2>1, FS_Subset
  <2>3. Cardinality(Below(x)) # n
    BY <2>1, <2>2
  <2>4. Cardinality(Below(x)) \in Nat
    BY <2>2, FS_CardinalityType
  <2>5. QED
    BY <1>1, <2>2, <2>3, <2>4
<1>3. ASSUME NEW x \in S, NEW y \in S, x < y
      PROVE  Cardinality(Below(x)) < Cardinality(Below(y))
  <2>1. IsFiniteSet(Below(y))
    <3>1. Below(y) \in SUBSET S
      OBVIOUS
    <3>2. QED
      BY <3>1, FS_Subset
  <2>2. Below(x) \in SUBSET Below(y) /\ x \in Below(y) /\ x \notin Below(x)
    <3>1. ASSUME NEW z \in Below(x) PROVE z \in Below(y)
      <4>1. z \in Nat /\ x \in Nat /\ y \in Nat /\ z < x
        OBVIOUS
      <4>2. z < y
        BY <1>3, <4>1
      <4>3. QED
        BY <4>2
    <3>2. x \in Below(y) /\ x \notin Below(x)
      BY <1>3
    <3> HIDE DEF Below
    <3>3. QED
      BY <3>1, <3>2
  <2>3. Cardinality(Below(x)) <= Cardinality(Below(y))
        /\ (Cardinality(Below(y)) = Cardinality(Below(x)) => Below(y) = Below(x))
    BY <2>1, <2>2, FS_Subset
  <2>4. Cardinality(Below(x)) \in Nat /\ Cardinality(Below(y)) \in Nat
    BY <1>2
  <2>5. QED
    BY <2>2, <2>3, <2>4
<1> HIDE DEF Below, n
<1>4. ASSUME NEW x \in S, NEW y \in S, Cardinality(Below(x)) = Cardinality(Below(y))
      PROVE  x = y
  <2>1. x < y \/ y < x \/ x = y
    OBVIOUS
  <2>2. Cardinality(Below(x)) \in Nat /\ Cardinality(Below(y)) \in Nat
    BY <1>2
  <2>3. QED
    BY <1>3, <1>4, <2>1, <2>2
<1>5. R \in Injection(S, 1..n)
  <2>1. R \in [S -> 1..n]
    BY <1>1, <1>2
  <2>2. \A x, y \in S : R[x] = R[y] => x = y
    BY <1>2, <1>4
  <2> HIDE DEF R
  <2>3. QED
    BY <2>1, <2>2 DEF Injection, IsInjective
<1>6. R \in Surjection(S, 1..n)
  <2>1. IsFiniteSet(1..n) /\ Cardinality(1..n) = n
    <3>1. IsFiniteSet(1..n) /\ Cardinality(1..n) = IF 1 > n THEN 0 ELSE n - 1 + 1
      BY <1>1, FS_Interval
    <3>2. QED
      BY <1>1, <3>1
  <2>2. Cardinality(S) = Cardinality(1..n)
    BY <2>1 DEF n
  <2> HIDE DEF R
  <2>3. QED
    BY <1>5, <2>1, <2>2, FS_Injection
<1>7. ASSUME NEW i \in 1..n PROVE s[i] \in S /\ Is(s[i], i)
  <2>1. \E x \in S : R[x] = i
    BY <1>6 DEF Surjection
  <2>2. PICK x \in S : R[x] = i
    BY <2>1
  <2>3. Is(x, i)
    BY <1>2, <2>2
  <2>4. s[i] = CHOOSE z \in S : Is(z, i)
    OBVIOUS
  <2> HIDE DEF Is, s
  <2>5. QED
    BY <2>3, <2>4
<1>8. ASSUME NEW i \in 1..n, NEW j \in 1..n, s[i] = s[j] PROVE i = j
  <2>1. Is(s[i], i) /\ Is(s[j], j) /\ s[i] \in S
    BY <1>7
  <2>2. Cardinality(Below(s[i])) \in Nat
    BY <2>1, <1>2
  <2> HIDE DEF s
  <2>3. QED
    BY <1>1, <1>8, <2>1, <2>2
<1>9. ASSUME NEW x \in S PROVE \E i \in 1..n : s[i] = x
  <2> DEFINE i == Cardinality(Below(x)) + 1
  <2>1. i \in 1..n /\ Is(x, i)
    BY <1>1, <1>2
  <2>2. s[i] \in S /\ Is(s[i], i)
    BY <1>7, <2>1
  <2>3. Cardinality(Below(s[i])) = Cardinality(Below(x))
    BY <1>2, <2>1, <2>2
  <2>4. s[i] = x
    <3> HIDE DEF s, i
    <3>1. QED
      BY <1>4, <2>2, <2>3
  <2>5. QED
    BY <2>1, <2>4
<1>10. Ascending(S) = s
  BY DEF Ascending, n, Below
<1>11. Len(s) = n
  BY <1>1
<1> HIDE DEF s
<1>12. IsListing(s, S)
  BY <1>7, <1>8, <1>9, <1>11 DEF IsListing
<1>13. s = [i \in 1..n |-> s[i]]
  BY DEF s
<1>14. QED
  BY <1>1, <1>10, <1>11, <1>12, <1>13 DEF n

\* What a call plans, all its pages together.
FullPlan(q) ==
  IF q.fn = "split_paginated" THEN Even(Rows(q.n), Wanted(q.splits))
  ELSE plan(q.fn, q, NoCursor).payloads

\* The functions whose payloads are ranges of the sequence.
RangeFns ==
  SplitFunctions \ {"sequence", "split_partitioned", "split_echo_filters",
                    "split_endless_cursor"}

\* The rows a payload stands for.
RowsFor(q, payload) ==
  IF q.fn = "split_partitioned"
  THEN {<<payload.country, payload.country * 100 + k>> : k \in 1..payload.rows}
  ELSE IF q.fn = "split_echo_filters" THEN {EchoRow(payload)}
  ELSE IF q.fn = "sequence" THEN 0..(Rows(q.n) - 1)
  ELSE RangeOf(payload)

\* What is known of a payload, by the function that planned it.
PayloadOK(q, payload) ==
  /\ q.fn = "split_partitioned" => payload.rows \in Nat /\ payload.country \in Nat
  /\ q.fn \in RangeFns => IsRange(payload)

\* WholeScan, of any call.
ScanOf(q) ==
  CASE q.fn = "split_zero" -> {}
    [] q.fn = "split_partitioned" ->
         {<<c, c * 100 + k>> : c \in 0..(kCountries - 1), k \in 1..Rows(q.n)}
    [] q.fn = "split_echo_filters" ->
         {<<i, q.bounds # {},
            IF Cardinality(q.projection) \in 1..(kColumns - 1)
            THEN Cardinality(q.projection) ELSE 0>> :
            i \in {j \in 0..(Wanted(q.splits) - 1) :
                     \A b \in q.bounds : b.min <= j /\ j <= b.max}}
    [] OTHER -> 0..(Rows(q.n) - 1)

\* A plan of which every row of the scan has exactly one place.
PlanOf(q, p) ==
  /\ Len(p) \in Nat /\ p = [i \in 1..Len(p) |-> p[i]]
  /\ \A i \in 1..Len(p) : PayloadOK(q, p[i])
  /\ \A i, j \in 1..Len(p) : i # j => RowsFor(q, p[i]) \cap RowsFor(q, p[j]) = {}
  /\ ScanOf(q) = UNION {RowsFor(q, p[i]) : i \in 1..Len(p)}
  /\ q.fn = "split_batch_index" =>
       \A i \in 1..Len(p) : /\ p[i].ordinal = i - 1
                            /\ p[i].first = Share(Rows(q.n), i - 1, Wanted(q.splits)).first
                            /\ p[i].last = Share(Rows(q.n), i - 1, Wanted(q.splits)).last

\* The arguments after they are clamped.
LEMMA RowsAndSplits ==
  ASSUME SplitAssumption, NEW q \in SplitCalls
  PROVE  Rows(q.n) \in Nat /\ Wanted(q.splits) \in Nat \ {0} /\ q.fn \in SplitFunctions
BY DEF SplitAssumption, Rows, Wanted

\* The functions of ranges.
LEMMA RangePlans ==
  ASSUME SplitAssumption, NEW q \in SplitCalls, q.fn \in RangeFns
  PROVE  LET p == FullPlan(q)
         IN /\ Len(p) \in Nat /\ p = [i \in 1..Len(p) |-> p[i]]
            /\ \E B : /\ Tiles(p, B, Len(p))
                      /\ B[Len(p)] = IF q.fn = "split_zero" THEN 0 ELSE Rows(q.n)
<1> DEFINE rows == Rows(q.n)
           count == Wanted(q.splits)
           Good(p, top) == /\ Len(p) \in Nat /\ p = [i \in 1..Len(p) |-> p[i]]
                           /\ \E B : Tiles(p, B, Len(p)) /\ B[Len(p)] = top
<1>1. rows \in Nat /\ count \in Nat \ {0}
  BY RowsAndSplits
<1> HIDE DEF rows, count
<1>2. Good(Even(rows, count), rows)
  <2>1. Even(rows, count) = [i \in 1..count |-> Even(rows, count)[i]]
    BY DEF Even
  <2>2. Len(Even(rows, count)) = count
    BY <1>1 DEF Even
  <2>3. QED
    BY <1>1, <2>1, <2>2, EvenTiles
<1>3. Good(EmptyRanges(rows, count), rows)
  <2>1. EmptyRanges(rows, count) = [i \in 1..count |-> EmptyRanges(rows, count)[i]]
    BY DEF EmptyRanges
  <2>2. Len(EmptyRanges(rows, count)) = count
    BY <1>1 DEF EmptyRanges
  <2>3. QED
    BY <1>1, <2>1, <2>2, EmptyRangesTile
<1>4. Good(Zero(count), 0)
  <2>1. Zero(count) = [i \in 1..count |-> Zero(count)[i]]
    BY DEF Zero
  <2>2. Len(Zero(count)) = count
    BY <1>1 DEF Zero
  <2>3. QED
    BY <1>1, <2>1, <2>2, ZeroTiles
<1>5. Good(Skewed(rows, count), rows)
  <2> DEFINE s == Skewed(rows, count)
             S == Range(s)
  <2>1. \E T : s \in Seq(T)
    <3> DEFINE head == rows \div 2
               one == <<[first |-> 0, last |-> head]>>
               tail == [i \in 1..(count - 1) |->
                          [first |-> head + Share(rows - head, i - 1, count - 1).first,
                           last  |-> head + Share(rows - head, i - 1, count - 1).last]]
               all == <<[first |-> 0, last |-> rows]>>
    <3>1. s = all \/ s = one \o tail
      BY DEF Skewed
    <3>2. all \in Seq({[first |-> 0, last |-> rows]})
      OBVIOUS
    <3> DEFINE R == {[first |-> 0, last |-> head]} \cup Range(tail)
               m == count - 1
    <3>3. m \in Nat /\ tail \in [1..m -> R]
      BY <1>1 DEF Range
    <3>4. one \in Seq(R)
      OBVIOUS
    <3> HIDE DEF m, tail, R, all, one, s
    <3>5. tail \in Seq(R)
      BY <3>3
    <3>6. one \o tail \in Seq(R)
      BY <3>4, <3>5
    <3>7. QED
      BY <3>1, <3>2, <3>6
  <2>2. PICK T : s \in Seq(T)
    BY <2>1
  <2>3. \E B : Tiles(s, B, Len(s)) /\ B[Len(s)] = rows
    BY <1>1, SkewedTiles
  <2> HIDE DEF s
  <2>4. Len(s) \in Nat /\ s = [i \in 1..Len(s) |-> s[i]]
    BY <2>2
  <2>5. QED
    BY <2>3, <2>4 DEF s
<1>6. Good(BatchIndexPlan(rows, count).payloads, rows)
  <2> DEFINE s == BatchIndexPlan(rows, count).payloads
             e == Even(rows, count)
  <2>1. s = [i \in 1..count |-> s[i]] /\ Len(s) = count
    BY <1>1 DEF BatchIndexPlan, Page
  <2>2. \A i \in 1..count : s[i].first = e[i].first /\ s[i].last = e[i].last
    BY DEF BatchIndexPlan, Page, Even
  <2> HIDE DEF s, e
  <2>3. PICK B : Tiles(e, B, count) /\ B[count] = rows
    BY <1>1, EvenTiles DEF e
  <2>4. Tiles(s, B, count)
    BY <2>2, <2>3 DEF Tiles
  <2>5. QED
    BY <1>1, <2>1, <2>3, <2>4 DEF s
<1>7. \A a, e, x : Page(a, e, x).payloads = a
  BY DEF Page
<1>8. /\ q.fn = "split_paginated" => FullPlan(q) = Even(rows, count)
      /\ q.fn = "split_batch_index" => FullPlan(q) = BatchIndexPlan(rows, count).payloads
      /\ q.fn = "split_fail_at" => FullPlan(q) = FailAtPlan(rows, count).payloads
  BY DEF FullPlan, plan, rows, count
<1>9. FailAtPlan(rows, count).payloads = Even(rows, count)
  BY DEF FailAtPlan, Page
<1>10. q.fn \in {"split_sequence", "split_stale_plan", "split_dynamic_filter"}
         => FullPlan(q) = Even(rows, count)
  BY DEF FullPlan, plan, rows, count, Page, divide, ShapeOf
<1>11. /\ q.fn = "split_empty_ranges" => FullPlan(q) = EmptyRanges(rows, count)
       /\ q.fn = "split_skewed" => FullPlan(q) = Skewed(rows, count)
       /\ q.fn = "split_zero" => FullPlan(q) = Zero(count)
  BY DEF FullPlan, plan, rows, count, Page, divide, ShapeOf
<1> DEFINE top == IF q.fn = "split_zero" THEN 0 ELSE rows
<1>12. Good(FullPlan(q), top)
  <2> HIDE DEF Good
  <2>1. QED
    BY <1>2, <1>3, <1>4, <1>5, <1>6, <1>8, <1>9, <1>10, <1>11 DEF RangeFns, SplitFunctions
<1>13. QED
  BY <1>12 DEF rows

\* A plan of ranges, whichever way they are cut.
LEMMA RangePlanIsWhole ==
  ASSUME SplitAssumption, NEW q \in SplitCalls, q.fn \in RangeFns
  PROVE  PlanOf(q, FullPlan(q))
<1> DEFINE p == FullPlan(q)
           n == Len(p)
           top == IF q.fn = "split_zero" THEN 0 ELSE Rows(q.n)
<1>1. n \in Nat /\ p = [i \in 1..n |-> p[i]] /\ \E B : Tiles(p, B, n) /\ B[n] = top
  BY RangePlans
<1>2. q.fn = "split_batch_index" =>
       \A i \in 1..n : /\ p[i].ordinal = i - 1
                       /\ p[i].first = Share(Rows(q.n), i - 1, Wanted(q.splits)).first
                       /\ p[i].last = Share(Rows(q.n), i - 1, Wanted(q.splits)).last
  <2> HAVE q.fn = "split_batch_index"
  <2> DEFINE rows == Rows(q.n)
             count == Wanted(q.splits)
  <2>1. p = [i \in 1..count |-> [ordinal |-> i - 1, first |-> Share(rows, i - 1, count).first,
                                 last |-> Share(rows, i - 1, count).last]]
    BY DEF FullPlan, plan, BatchIndexPlan, Page
  <2>2. n = count
    BY <2>1, RowsAndSplits
  <2> HIDE DEF p, n, rows, count
  <2>3. \A i \in 1..count :
          p[i] = [ordinal |-> i - 1, first |-> Share(rows, i - 1, count).first,
                  last |-> Share(rows, i - 1, count).last]
    BY <2>1
  <2>4. ASSUME NEW i \in 1..count
        PROVE  /\ p[i].ordinal = i - 1
               /\ p[i].first = Share(rows, i - 1, count).first
               /\ p[i].last = Share(rows, i - 1, count).last
    <3> DEFINE s == Share(rows, i - 1, count)
               o == i - 1
    <3>1. p[i] = [ordinal |-> o, first |-> s.first, last |-> s.last]
      BY <2>3
    <3> HIDE DEF s, o
    <3>2. p[i].ordinal = o /\ p[i].first = s.first /\ p[i].last = s.last
      BY <3>1
    <3>3. QED
      BY <3>2 DEF s, o
  <2>5. QED
    BY <2>2, <2>4 DEF rows, count
<1> HIDE DEF p
<1>3. PICK B : Tiles(p, B, n) /\ B[n] = top
  BY <1>1
<1>4. /\ \A i \in 1..n : IsRange(p[i])
      /\ \A i, j \in 1..n : i # j => RangeOf(p[i]) \cap RangeOf(p[j]) = {}
      /\ UNION {RangeOf(p[i]) : i \in 1..n} = 0..(top - 1)
  BY <1>1, <1>3, TilesCover
<1>5. q.fn \notin {"split_partitioned", "split_echo_filters", "sequence"}
  BY DEF RangeFns
<1>6. \A x : RowsFor(q, x) = RangeOf(x)
  BY <1>5 DEF RowsFor
<1>7. \A x : IsRange(x) => PayloadOK(q, x)
  BY <1>5 DEF PayloadOK
<1>8. ScanOf(q) = 0..(top - 1)
  <2>1. CASE q.fn = "split_zero"
    <3>1. ScanOf(q) = {} /\ 0..(top - 1) = {}
      BY <2>1 DEF ScanOf
    <3>2. QED
      BY <3>1
  <2>2. CASE q.fn # "split_zero"
    BY <1>5, <2>2 DEF ScanOf
  <2>3. QED
    BY <2>1, <2>2
<1>9. ScanOf(q) = UNION {RowsFor(q, p[i]) : i \in 1..n}
  BY <1>4, <1>6, <1>8
<1>10. PlanOf(q, p)
  <2> HIDE DEF top
  <2>1. \A i \in 1..n : PayloadOK(q, p[i])
    BY <1>4, <1>7
  <2>2. \A i, j \in 1..n : i # j => RowsFor(q, p[i]) \cap RowsFor(q, p[j]) = {}
    BY <1>4, <1>6
  <2>3. QED
    BY <1>1, <1>2, <1>9, <2>1, <2>2 DEF PlanOf
<1>11. QED
  BY <1>10 DEF p

\* SplitPartitioned::plan, a split per country.
LEMMA PartitionedPlanIsWhole ==
  ASSUME SplitAssumption, NEW q \in SplitCalls, q.fn = "split_partitioned"
  PROVE  PlanOf(q, FullPlan(q))
<1> DEFINE rows == Rows(q.n)
           p == [i \in 1..kCountries |-> [country |-> i - 1, rows |-> rows]]
<1>1. FullPlan(q) = p
  BY DEF FullPlan, plan, PartitionedPlan, Page
<1>2. rows \in Nat
  BY RowsAndSplits
<1> HIDE DEF rows
<1>3. kCountries \in Nat
  BY DEF kCountries
<1>4. Len(p) = kCountries /\ p = [i \in 1..Len(p) |-> p[i]]
  BY <1>3
<1>5. \A i \in 1..kCountries : p[i].country = i - 1 /\ p[i].rows = rows
  OBVIOUS
<1> HIDE DEF p
<1>6. ASSUME NEW i \in 1..kCountries
      PROVE  RowsFor(q, p[i]) = {<<i - 1, (i - 1) * 100 + k>> : k \in 1..rows}
  BY <1>5 DEF RowsFor
<1>7. \A i \in 1..kCountries : PayloadOK(q, p[i])
  BY <1>2, <1>3, <1>5 DEF PayloadOK, RangeFns
<1>8. ASSUME NEW i \in 1..kCountries, NEW j \in 1..kCountries, i # j
      PROVE  RowsFor(q, p[i]) \cap RowsFor(q, p[j]) = {}
  <2>1. ASSUME NEW v \in RowsFor(q, p[i]) PROVE v[1] = i - 1
    BY <1>6
  <2>2. ASSUME NEW v \in RowsFor(q, p[j]) PROVE v[1] = j - 1
    BY <1>6
  <2>3. i - 1 # j - 1
    BY <1>3, <1>8
  <2>4. QED
    BY <2>1, <2>2, <2>3
<1>9. ScanOf(q) = {<<c, c * 100 + k>> : c \in 0..(kCountries - 1), k \in 1..rows}
  BY DEF ScanOf, rows
<1>10. ASSUME NEW v \in ScanOf(q) PROVE \E i \in 1..kCountries : v \in RowsFor(q, p[i])
  <2>1. PICK c \in 0..(kCountries - 1), k \in 1..rows : v = <<c, c * 100 + k>>
    BY <1>9
  <2>2. c + 1 \in 1..kCountries /\ (c + 1) - 1 = c
    BY <1>3
  <2>3. v \in RowsFor(q, p[c + 1])
    BY <1>6, <2>1, <2>2
  <2>4. QED
    BY <2>2, <2>3
<1>11. ASSUME NEW i \in 1..kCountries, NEW v \in RowsFor(q, p[i]) PROVE v \in ScanOf(q)
  <2>1. PICK k \in 1..rows : v = <<i - 1, (i - 1) * 100 + k>>
    BY <1>6
  <2>2. i - 1 \in 0..(kCountries - 1)
    BY <1>3
  <2>3. QED
    BY <1>9, <2>1, <2>2
<1>12. ScanOf(q) = UNION {RowsFor(q, p[i]) : i \in 1..kCountries}
  BY <1>10, <1>11
<1>13. PlanOf(q, p)
  BY <1>3, <1>4, <1>7, <1>8, <1>12 DEF PlanOf
<1>14. QED
  BY <1>1, <1>13

\* A function that does not plan has one payload.
LEMMA SequencePlanIsWhole ==
  ASSUME SplitAssumption, NEW q \in SplitCalls, q.fn = "sequence"
  PROVE  PlanOf(q, FullPlan(q))
<1> DEFINE p == <<Whole>>
<1>1. FullPlan(q) = p
  BY DEF FullPlan, plan, Page
<1>2. Len(p) = 1 /\ p = [i \in 1..Len(p) |-> p[i]] /\ \A i, j \in 1..1 : i = 1 /\ i = j
  OBVIOUS
<1>3. PayloadOK(q, p[1])
  BY DEF PayloadOK, RangeFns
<1>4. ScanOf(q) = 0..(Rows(q.n) - 1) /\ RowsFor(q, p[1]) = 0..(Rows(q.n) - 1)
  BY DEF ScanOf, RowsFor
<1> HIDE DEF p
<1>5. ScanOf(q) = UNION {RowsFor(q, p[i]) : i \in 1..1}
  <2>1. 1 \in 1..1 /\ \A i \in 1..1 : RowsFor(q, p[i]) = ScanOf(q)
    BY <1>2, <1>4
  <2>2. QED
    BY <2>1
<1>6. PlanOf(q, p)
  BY <1>2, <1>3, <1>5 DEF PlanOf
<1>7. QED
  BY <1>1, <1>6

\* What a payload of split_echo_filters is read as.
LEMMA EchoReads ==
  ASSUME NEW i, NEW b \in {0, 1}, NEW m \in 0..(kColumns - 1)
  PROVE  EchoRow([first |-> i, last |-> b * kBoundsSeen + m]) = <<i, b = 1, m>>
<1>1. kBoundsSeen = 1000000 /\ m \in 0..2
  BY DEF kBoundsSeen, kColumns
<1>2. CASE b = 0
  <2>1. b * kBoundsSeen + m = m /\ ~(m >= kBoundsSeen) /\ m % kBoundsSeen = m
    BY <1>1, <1>2
  <2>2. QED
    BY <1>2, <2>1 DEF EchoRow
<1>3. CASE b = 1
  <2>1. /\ b * kBoundsSeen + m = 1000000 + m /\ 1000000 + m >= kBoundsSeen
        /\ (1000000 + m) % kBoundsSeen = m
    BY <1>1, <1>3
  <2>2. QED
    BY <1>3, <2>1 DEF EchoRow
<1>4. QED
  BY <1>2, <1>3

\* SplitEchoFilters::plan: the splits its bounds keep.
LEMMA EchoPlanIsWhole ==
  ASSUME SplitAssumption, NEW q \in SplitCalls, q.fn = "split_echo_filters"
  PROVE  PlanOf(q, FullPlan(q))
<1> DEFINE count == Wanted(q.splits)
           A == {i \in 0..(count - 1) : ~ \E b \in q.bounds : i < b.min \/ i > b.max}
           kept == Ascending(A)
           b == IF q.bounds = {} THEN 0 ELSE 1
           size == Cardinality(q.projection)
           m == IF q.projection = {} \/ size >= kColumns THEN 0 ELSE size
           p == [i \in 1..Len(kept) |-> [first |-> kept[i], last |-> b * kBoundsSeen + m]]
           n == Len(kept)
<1>1. FullPlan(q) = p
  BY DEF FullPlan, plan, EchoPlan, Page
<1>2. count \in Nat \ {0}
  BY RowsAndSplits
<1>3. /\ kept = [i \in 1..Cardinality(A) |-> kept[i]]
      /\ n = Cardinality(A) /\ n \in Nat
      /\ IsListing(kept, A)
  <2>1. A \in SUBSET Nat /\ A \in SUBSET (0..(count - 1))
    BY <1>2
  <2>2. IsFiniteSet(0..(count - 1))
    BY <1>2, FS_Interval
  <2> HIDE DEF A
  <2>3. IsFiniteSet(A)
    BY <2>1, <2>2, FS_Subset
  <2>4. QED
    BY <2>1, <2>3, AscendingLists
<1>4. size \in Nat /\ (size = 0 <=> q.projection = {})
  BY FS_CardinalityType, FS_EmptySet DEF SplitAssumption
<1>5. b \in {0, 1} /\ (b = 1) = (q.bounds # {}) /\ m \in 0..(kColumns - 1)
      /\ m = IF size \in 1..(kColumns - 1) THEN size ELSE 0
  <2>1. kColumns = 3
    BY DEF kColumns
  <2> HIDE DEF size
  <2>2. m \in 0..(kColumns - 1) /\ m = IF size \in 1..(kColumns - 1) THEN size ELSE 0
    BY <1>4, <2>1
  <2>3. b \in {0, 1} /\ (b = 1) = (q.bounds # {})
    OBVIOUS
  <2>4. QED
    BY <2>2, <2>3
<1>6. A = {j \in 0..(count - 1) : \A c \in q.bounds : c.min <= j /\ j <= c.max}
  <2>1. ASSUME NEW j \in 0..(count - 1), NEW c \in q.bounds
        PROVE  (c.min <= j /\ j <= c.max) <=> ~(j < c.min \/ j > c.max)
    <3>1. c.min \in Int /\ c.max \in Int /\ j \in Int
      BY <1>2 DEF SplitAssumption
    <3>2. QED
      BY <3>1
  <2>2. QED
    BY <2>1
<1>7. ScanOf(q) = {<<i, q.bounds # {}, m>> : i \in A}
  <2>1. ScanOf(q) = {<<i, q.bounds # {}, IF size \in 1..(kColumns - 1) THEN size ELSE 0>> :
            i \in {j \in 0..(count - 1) :
                     \A c \in q.bounds : c.min <= j /\ j <= c.max}}
    BY DEF ScanOf
  <2> HIDE DEF A, m, count, size
  <2>2. QED
    BY <1>5, <1>6, <2>1
<1> HIDE DEF A, kept, b, m, size, count
<1>8. Len(p) = n /\ p = [i \in 1..n |-> p[i]]
  <2>1. p = [i \in 1..n |-> [first |-> kept[i], last |-> b * kBoundsSeen + m]] /\ n \in Nat
    BY <1>3
  <2> HIDE DEF n, p
  <2>2. QED
    BY <2>1
<1>9. ASSUME NEW i \in 1..n PROVE RowsFor(q, p[i]) = {<<kept[i], q.bounds # {}, m>>}
  <2>1. p[i] = [first |-> kept[i], last |-> b * kBoundsSeen + m]
    OBVIOUS
  <2>2. EchoRow(p[i]) = <<kept[i], b = 1, m>>
    BY <1>5, <2>1, EchoReads
  <2>3. RowsFor(q, p[i]) = {EchoRow(p[i])}
    BY DEF RowsFor
  <2>4. QED
    BY <1>5, <2>2, <2>3
<1> HIDE DEF p, n
<1>10. \A i \in 1..n : PayloadOK(q, p[i])
  BY DEF PayloadOK, RangeFns
<1>11. ASSUME NEW i \in 1..n, NEW j \in 1..n, i # j
       PROVE  RowsFor(q, p[i]) \cap RowsFor(q, p[j]) = {}
  <2>1. kept[i] # kept[j]
    BY <1>3, <1>11 DEF n, IsListing
  <2>2. <<kept[i], q.bounds # {}, m>> # <<kept[j], q.bounds # {}, m>>
    BY <2>1
  <2>3. QED
    BY <1>9, <2>2
<1>12. /\ \A i \in 1..n : kept[i] \in A
       /\ \A x \in A : \E i \in 1..n : kept[i] = x
  BY <1>3 DEF n, IsListing
<1>13. ScanOf(q) = UNION {RowsFor(q, p[i]) : i \in 1..n}
  <2>1. ASSUME NEW v \in ScanOf(q) PROVE \E i \in 1..n : v \in RowsFor(q, p[i])
    <3>1. PICK x \in A : v = <<x, q.bounds # {}, m>>
      BY <1>7
    <3>2. PICK i \in 1..n : kept[i] = x
      BY <1>12
    <3>3. QED
      BY <1>9, <3>1, <3>2
  <2>2. ASSUME NEW i \in 1..n, NEW v \in RowsFor(q, p[i]) PROVE v \in ScanOf(q)
    BY <1>7, <1>9, <1>12
  <2>3. QED
    BY <2>1, <2>2
<1>14. PlanOf(q, p)
  BY <1>3, <1>8, <1>10, <1>11, <1>13 DEF PlanOf
<1>15. QED
  BY <1>1, <1>14

\* A plan that ends has every row of the scan in exactly one of its splits.
LEMMA PlansAreWhole ==
  ASSUME SplitAssumption, NEW q \in SplitCalls, q.fn # "split_endless_cursor"
  PROVE  PlanOf(q, FullPlan(q))
<1>1. q.fn \in RangeFns \cup {"split_partitioned", "split_echo_filters", "sequence"}
  BY RowsAndSplits DEF RangeFns
<1>2. QED
  BY <1>1, RangePlanIsWhole, PartitionedPlanIsWhole, SequencePlanIsWhole, EchoPlanIsWhole

-----------------------------------------------------------------------------
(* Planning page by page                                                   *)

\* What is planned so far, and once planning is over the whole plan.
PlanInv ==
  /\ pages \in Nat
  /\ planned = "planning" =>
       /\ asking.fn = "split_paginated" =>
            /\ cursor = IF pages = 0 THEN NoCursor ELSE pages
            /\ Len(tokens) = pages * kPerPage
            /\ pages # 0 => Len(tokens) < Wanted(asking.splits)
            /\ \A i \in 1..Len(tokens) : tokens[i].payload = FullPlan(asking)[i]
       /\ asking.fn \notin {"split_paginated", "split_endless_cursor"} =>
            cursor = NoCursor /\ tokens = <<>>
       /\ asking.fn = "split_endless_cursor" => cursor = IF pages = 0 THEN NoCursor ELSE pages
  /\ planned \notin {"planning", "refused"} =>
       /\ asking.fn # "split_endless_cursor"
       /\ Len(tokens) = Len(FullPlan(asking))
       /\ \A i \in 1..Len(tokens) : tokens[i].payload = FullPlan(asking)[i]
  /\ \A i \in 1..Len(tokens) :
       tokens[i].exact => asking.fn \notin {"sequence", "split_echo_filters"}

\* The tokens after a page: those before it, and one for each of its payloads.
LEMMA PageIsAppended ==
  ASSUME SplitAssumption, PInv, NEW w \in DOMAIN fleet, Plan(w)
  PROVE  LET page == plan(asking.fn, asking, cursor)
             L == Len(page.payloads)
         IN /\ L \in Nat /\ Len(tokens) \in Nat /\ Len(tokens') = Len(tokens) + L
            /\ \A i \in 1..Len(tokens) : tokens'[i] = tokens[i]
            /\ \A i \in 1..L : /\ tokens'[Len(tokens) + i].payload = page.payloads[i]
                               /\ tokens'[Len(tokens) + i].exact = page.exact
<1> DEFINE page == plan(asking.fn, asking, cursor)
           L == Len(page.payloads)
           new == [i \in 1..L |-> build(page.payloads[i], page.exact, w)]
<1>1. tokens' = tokens \o new
  BY DEF Plan
<1>2. IsList(page.payloads)
  BY PlansAreLists DEF PInv, CallOK
<1> HIDE DEF page
<1>3. L \in Nat
  <2> DEFINE s == page.payloads
             S == Range(s)
  <2>1. s \in Seq(S)
    BY <1>2 DEF IsList
  <2> HIDE DEF s, S
  <2>2. Len(s) \in Nat
    BY <2>1
  <2>3. QED
    BY <2>2 DEF s
<1>4. \A i \in 1..L : new[i].payload = page.payloads[i] /\ new[i].exact = page.exact
  BY DEF build
<1> HIDE DEF L
<1>5. new = [i \in 1..L |-> new[i]]
  OBVIOUS
<1> HIDE DEF new
<1>6. /\ Len(tokens) \in Nat /\ Len(tokens') = Len(tokens) + L
      /\ \A i \in 1..Len(tokens) : tokens'[i] = tokens[i]
      /\ \A i \in 1..L : tokens'[Len(tokens) + i] = new[i]
  <2> DEFINE S == Range(tokens) \cup Range(new)
  <2>1. tokens \in Seq(S) /\ new \in Seq(S) /\ Len(new) = L
    <3>1. tokens \in Seq(S)
      BY DEF PInv, TokensAreBound, IsList
    <3>2. new \in [1..L -> S]
      BY <1>5 DEF Range
    <3> HIDE DEF S
    <3>3. QED
      BY <1>3, <3>1, <3>2
  <2> HIDE DEF S
  <2>2. tokens \in Seq(S) /\ new \in Seq(S)
    BY <2>1
  <2>3. /\ Len(tokens \o new) = Len(tokens) + Len(new)
        /\ \A i \in 1..Len(tokens) : (tokens \o new)[i] = tokens[i]
        /\ \A i \in 1..Len(new) : (tokens \o new)[Len(tokens) + i] = new[i]
    BY <2>2, ConcatProperties
  <2>4. Len(tokens) \in Nat
    BY <2>1
  <2>5. QED
    BY <1>1, <2>1, <2>3, <2>4
<1>7. QED
  BY <1>3, <1>4, <1>6 DEF L, page

\* A page of split_paginated continues the shares, up to the last of them.
LEMMA PageOfShares ==
  ASSUME NEW rows \in Nat, NEW count \in Nat \ {0}, NEW k \in Nat,
         k # 0 => k * kPerPage < count
  PROVE  LET page == PaginatedPlan(rows, count, IF k = 0 THEN NoCursor ELSE k)
             L == Len(page.payloads)
             from == k * kPerPage
         IN /\ from + L <= count
            /\ \A i \in 1..L : page.payloads[i] = Even(rows, count)[from + i]
            /\ page.next = NoCursor => from + L = count
            /\ page.next # NoCursor => page.next = k + 1 /\ L = kPerPage /\ from + L < count
<1> DEFINE from == k * kPerPage
           to == IF count < from + kPerPage THEN count ELSE from + kPerPage
           L == to - from
           shares == [i \in 1..L |-> Share(rows, from + i - 1, count)]
           next == IF to < count THEN k + 1 ELSE NoCursor
           cur == IF k = 0 THEN NoCursor ELSE k
<1>1. (IF cur = NoCursor THEN 0 ELSE cur) = k
  BY DEF NoCursor
<1>2. PaginatedPlan(rows, count, cur) = Page(shares, TRUE, next)
  BY <1>1 DEF PaginatedPlan
<1>3. kPerPage = 4
  BY DEF kPerPage
<1>4. from \in Nat /\ to \in Nat /\ to <= count /\ L \in Nat /\ from + L = to
  BY <1>3
<1>5. next = NoCursor => from + L = count
  BY <1>3, <1>4 DEF NoCursor
<1>6. next # NoCursor => next = k + 1 /\ L = kPerPage /\ from + L < count
  <2>1. SUFFICES ASSUME next # NoCursor
                 PROVE  next = k + 1 /\ L = kPerPage /\ from + L < count
    OBVIOUS
  <2>2. to < count /\ next = k + 1
    BY <2>1
  <2>3. to = from + kPerPage
    BY <1>3, <1>4, <2>2
  <2> HIDE DEF to, next, from
  <2>4. QED
    BY <1>3, <1>4, <2>2, <2>3
<1>7. ASSUME NEW i \in 1..L PROVE shares[i] = Even(rows, count)[from + i]
  <2> HIDE DEF from, to
  <2>1. from + i \in 1..count /\ (from + i) - 1 = from + i - 1
    BY <1>4
  <2>2. Even(rows, count)[from + i] = Share(rows, (from + i) - 1, count)
    BY <2>1 DEF Even
  <2>3. QED
    BY <2>1, <2>2
<1> HIDE DEF L
<1>8. Len(shares) = L
  BY <1>4
<1> HIDE DEF shares, next, to
<1>9. LET page == PaginatedPlan(rows, count, cur)
      IN page.payloads = shares /\ page.next = next
  BY <1>2 DEF Page
<1>10. from + L <= count
  BY <1>4
<1> HIDE DEF from
<1>11. QED
  BY <1>5, <1>6, <1>7, <1>8, <1>9, <1>10 DEF from

\* A page is planned.
LEMMA PlanInvPlans ==
  ASSUME SplitAssumption, PInv, PlanInv, NEW w \in DOMAIN fleet, Plan(w)
  PROVE  PlanInv'
<1> DEFINE page == plan(asking.fn, asking, cursor)
           L == Len(page.payloads)
           n == Len(tokens)
           rows == Rows(asking.n)
           count == Wanted(asking.splits)
<1>1. /\ L \in Nat /\ n \in Nat /\ Len(tokens') = n + L
      /\ \A i \in 1..n : tokens'[i] = tokens[i]
      /\ \A i \in 1..L : /\ tokens'[n + i].payload = page.payloads[i]
                         /\ tokens'[n + i].exact = page.exact
  BY PageIsAppended
<1>2. /\ planned = "planning" /\ pages' = pages + 1 /\ cursor' = page.next /\ asking' = asking
      /\ planned' = IF page.next = NoCursor THEN "reading" ELSE "planning"
  BY DEF Plan
<1>3. rows \in Nat /\ count \in Nat \ {0} /\ asking.fn \in SplitFunctions /\ asking \in SplitCalls
  BY RowsAndSplits DEF PInv, CallOK
<1>4. pages \in Nat
  BY DEF PlanInv
<1>5. FullPlan(asking)' = FullPlan(asking) /\ Wanted(asking.splits)' = count
  BY <1>2 DEF FullPlan
<1>6. page.exact => asking.fn \notin {"sequence", "split_echo_filters"}
  BY DEF plan, Page, EchoPlan
<1>7. \A i \in 1..Len(tokens') :
        tokens'[i].exact => asking.fn \notin {"sequence", "split_echo_filters"}
  <2> SUFFICES ASSUME NEW i \in 1..Len(tokens'), tokens'[i].exact
               PROVE  asking.fn \notin {"sequence", "split_echo_filters"}
    OBVIOUS
  <2> HIDE DEF page, L, n
  <2>1. i \in 1..n \/ (i - n \in 1..L /\ n + (i - n) = i)
    BY <1>1
  <2>2. CASE i \in 1..n
    BY <1>1, <2>2 DEF PlanInv, n
  <2>3. CASE i - n \in 1..L /\ n + (i - n) = i
    BY <1>1, <1>6, <2>3
  <2>4. QED
    BY <2>1, <2>2, <2>3
<1>8. CASE asking.fn = "split_endless_cursor"
  <2>1. page.next = (IF cursor = NoCursor THEN 0 ELSE cursor) + 1
    BY <1>8 DEF plan, EndlessPlan, Page
  <2>2. cursor = IF pages = 0 THEN NoCursor ELSE pages
    BY <1>2, <1>8 DEF PlanInv
  <2>3. page.next = pages + 1 /\ page.next # NoCursor /\ pages + 1 # 0 /\ pages + 1 \in Nat
    BY <1>4, <2>1, <2>2 DEF NoCursor
  <2> HIDE DEF page
  <2>4. QED
    BY <1>2, <1>7, <1>8, <2>3 DEF PlanInv
<1>9. CASE asking.fn = "split_paginated"
  <2> DEFINE from == pages * kPerPage
  <2>1. /\ cursor = IF pages = 0 THEN NoCursor ELSE pages
        /\ n = from
        /\ pages # 0 => from < count
        /\ \A i \in 1..n : tokens[i].payload = FullPlan(asking)[i]
    BY <1>2, <1>9 DEF PlanInv
  <2>2. page = PaginatedPlan(rows, count, IF pages = 0 THEN NoCursor ELSE pages)
    BY <1>9, <2>1 DEF plan
  <2>3. FullPlan(asking) = Even(rows, count)
    BY <1>9 DEF FullPlan
  <2>4. Len(FullPlan(asking)) = count
    BY <1>3, <2>3 DEF Even
  <2> HIDE DEF page, rows, count
  <2>5. /\ from + L <= count
        /\ \A i \in 1..L : page.payloads[i] = Even(rows, count)[from + i]
        /\ page.next = NoCursor => from + L = count
        /\ page.next # NoCursor => page.next = pages + 1 /\ L = kPerPage /\ from + L < count
    BY <1>3, <1>4, <2>1, <2>2, PageOfShares
  <2> HIDE DEF L
  <2>6. \A i \in 1..Len(tokens') : tokens'[i].payload = FullPlan(asking)[i]
    <3> SUFFICES ASSUME NEW i \in 1..Len(tokens')
                 PROVE  tokens'[i].payload = FullPlan(asking)[i]
      OBVIOUS
    <3> HIDE DEF n, from
    <3>1. i \in 1..n \/ (i - n \in 1..L /\ n + (i - n) = i)
      BY <1>1
    <3>2. CASE i \in 1..n
      BY <1>1, <2>1, <3>2
    <3>3. CASE i - n \in 1..L /\ n + (i - n) = i
      <4> DEFINE j == i - n
      <4>1. j \in 1..L /\ n + j = i
        BY <3>3
      <4> HIDE DEF j
      <4>2. tokens'[n + j].payload = page.payloads[j]
        BY <1>1, <4>1
      <4>3. page.payloads[j] = Even(rows, count)[from + j]
        BY <2>5, <4>1
      <4>4. from + j = i
        BY <2>1, <4>1
      <4>5. QED
        BY <2>3, <4>1, <4>2, <4>3, <4>4
    <3>4. QED
      BY <3>1, <3>2, <3>3
  <2>7. pages + 1 \in Nat /\ pages + 1 # 0 /\ (pages + 1) * kPerPage = from + kPerPage
    BY <1>4 DEF kPerPage
  <2>8. CASE page.next = NoCursor
    <3>1. planned' = "reading" /\ Len(tokens') = Len(FullPlan(asking))
      BY <1>1, <1>2, <2>1, <2>4, <2>5, <2>8
    <3>2. QED
      BY <1>2, <1>5, <1>7, <1>9, <2>6, <2>7, <3>1 DEF PlanInv
  <2>9. CASE page.next # NoCursor
    <3>1. /\ planned' = "planning" /\ cursor' = pages + 1
          /\ Len(tokens') = (pages + 1) * kPerPage /\ Len(tokens') < count
      BY <1>1, <1>2, <2>1, <2>5, <2>7, <2>9
    <3>2. Wanted(asking'.splits) = count
      BY <1>5
    <3>3. QED
      BY <1>2, <1>5, <1>7, <1>9, <2>6, <2>7, <3>1, <3>2 DEF PlanInv
  <2>10. QED
    BY <2>8, <2>9
<1>10. CASE asking.fn \notin {"split_paginated", "split_endless_cursor"}
  <2>1. cursor = NoCursor /\ tokens = <<>>
    BY <1>2, <1>10 DEF PlanInv
  <2>2. page.next = NoCursor
    BY <1>10 DEF plan, Page, BatchIndexPlan, PartitionedPlan, FailAtPlan, EchoPlan
  <2>3. FullPlan(asking) = page.payloads
    BY <1>10, <2>1 DEF FullPlan
  <2>4. n = 0
    BY <2>1
  <2> HIDE DEF page
  <2>5. Len(tokens') = Len(FullPlan(asking))
        /\ \A i \in 1..Len(tokens') : tokens'[i].payload = FullPlan(asking)[i]
    <3>1. Len(tokens') = L
      BY <1>1, <2>4
    <3>2. ASSUME NEW i \in 1..L PROVE tokens'[i].payload = page.payloads[i]
      <4>1. n + i = i
        BY <2>4
      <4>2. QED
        BY <1>1, <4>1
    <3>3. QED
      BY <2>3, <3>1, <3>2
  <2>6. planned' = "reading" /\ pages' \in Nat
    BY <1>2, <1>4, <2>2
  <2>7. QED
    BY <1>2, <1>5, <1>7, <1>10, <2>5, <2>6 DEF PlanInv
<1>11. QED
  BY <1>8, <1>9, <1>10

\* The steps that do not plan leave what is planned.
LEMMA PlanInvKept ==
  ASSUME PlanInv, UNCHANGED <<asking, tokens, cursor, pages>>,
         planned' \in {planned, "refused"} \/ planned = "reading",
         planned' = "planning" => planned = "planning"
  PROVE  PlanInv'
BY DEF PlanInv, FullPlan

-----------------------------------------------------------------------------
(* Lists of rows                                                           *)

\* A list has a length, and is a function on the numbers up to it.
LEMMA ListLength ==
  ASSUME NEW s, IsList(s)
  PROVE  Len(s) \in Nat /\ DOMAIN s = 1..Len(s) /\ s = [i \in 1..Len(s) |-> s[i]]
<1> DEFINE S == Range(s)
<1>1. s \in Seq(S)
  BY DEF IsList
<1> HIDE DEF S
<1>2. QED
  BY <1>1

\* Lists of disjoint sets, one after the other, list their union.
LEMMA ListingsConcatenate ==
  ASSUME NEW s, NEW t, NEW S, NEW T, IsList(s), IsList(t), IsListing(s, S), IsListing(t, T),
         S \cap T = {}
  PROVE  IsList(s \o t) /\ IsListing(s \o t, S \cup T)
<1> DEFINE m == Len(s)
           n == Len(t)
           u == s \o t
<1>1. IsList(u) /\ m \in Nat /\ n \in Nat
  BY ListLength, ListsConcatenate
<1>2. /\ Len(u) = m + n
      /\ \A i \in 1..m : u[i] = s[i]
      /\ \A i \in 1..n : u[m + i] = t[i]
  <2> DEFINE A == Range(s) \cup Range(t)
  <2>1. s \in Seq(A) /\ t \in Seq(A)
    BY DEF IsList
  <2> HIDE DEF A
  <2>2. QED
    BY <2>1, ConcatProperties
<1>3. /\ \A i \in 1..m : s[i] \in S
      /\ \A i, j \in 1..m : i # j => s[i] # s[j]
      /\ \A x \in S : \E i \in 1..m : s[i] = x
  BY DEF IsListing
<1>4. /\ \A i \in 1..n : t[i] \in T
      /\ \A i, j \in 1..n : i # j => t[i] # t[j]
      /\ \A x \in T : \E i \in 1..n : t[i] = x
  BY DEF IsListing
<1> HIDE DEF m, n, u
<1>5. ASSUME NEW i \in 1..(m + n)
      PROVE  \/ i \in 1..m /\ u[i] = s[i] /\ u[i] \in S
             \/ \E h \in 1..n : i = m + h /\ u[i] = t[h] /\ u[i] \in T
  <2>1. CASE i \in 1..m
    BY <1>2, <1>3, <2>1
  <2>2. CASE i \notin 1..m
    <3> DEFINE h == i - m
    <3>1. h \in 1..n /\ i = m + h
      BY <1>1, <2>2
    <3> HIDE DEF h
    <3>2. QED
      BY <1>2, <1>4, <3>1
  <2>3. QED
    BY <2>1, <2>2
<1>6. \A i \in 1..(m + n) : u[i] \in S \cup T
  BY <1>5
<1>7. ASSUME NEW i \in 1..(m + n), NEW j \in 1..(m + n), i # j PROVE u[i] # u[j]
  <2>1. CASE i \in 1..m /\ j \in 1..m
    BY <1>2, <1>3, <1>7, <2>1
  <2>2. CASE i \notin 1..m /\ j \notin 1..m
    <3>1. PICK h \in 1..n : i = m + h /\ u[i] = t[h]
      BY <1>5, <2>2
    <3>2. PICK k \in 1..n : j = m + k /\ u[j] = t[k]
      BY <1>5, <2>2
    <3>3. h # k
      BY <1>7, <3>1, <3>2
    <3>4. QED
      BY <1>4, <3>1, <3>2, <3>3
  <2>3. CASE i \in 1..m /\ j \notin 1..m
    <3>1. u[i] \in S
      BY <1>2, <1>3, <2>3
    <3>2. u[j] \in T
      BY <1>5, <2>3
    <3>3. QED
      BY <3>1, <3>2
  <2>4. CASE i \notin 1..m /\ j \in 1..m
    <3>1. u[j] \in S
      BY <1>2, <1>3, <2>4
    <3>2. u[i] \in T
      BY <1>5, <2>4
    <3>3. QED
      BY <3>1, <3>2
  <2>5. QED
    BY <2>1, <2>2, <2>3, <2>4
<1>8. ASSUME NEW x \in S \cup T PROVE \E i \in 1..(m + n) : u[i] = x
  <2>1. CASE x \in S
    <3>1. PICK i \in 1..m : s[i] = x
      BY <1>3, <2>1
    <3>2. i \in 1..(m + n) /\ u[i] = x
      BY <1>1, <1>2, <3>1
    <3>3. QED
      BY <3>2
  <2>2. CASE x \in T
    <3>1. PICK h \in 1..n : t[h] = x
      BY <1>4, <2>2
    <3>2. m + h \in 1..(m + n) /\ u[m + h] = x
      BY <1>1, <1>2, <3>1
    <3>3. QED
      BY <3>2
  <2>3. QED
    BY <2>1, <2>2
<1>9. IsListing(u, S \cup T)
  BY <1>2, <1>6, <1>7, <1>8 DEF IsListing
<1>10. QED
  BY <1>1, <1>9 DEF u

\* Span, the rows of a range in order.
LEMMA SpanLists ==
  ASSUME NEW from \in Nat, NEW to \in Nat, from <= to
  PROVE  IsList(Span(from, to)) /\ IsListing(Span(from, to), from..(to - 1))
<1> DEFINE n == to - from
           s == Span(from, to)
<1>1. n \in Nat /\ s = [i \in 1..n |-> from + i - 1]
  BY DEF Span
<1> HIDE DEF s
<1>2. s = [i \in 1..n |-> s[i]] /\ \A i \in 1..n : s[i] = from + i - 1
  BY <1>1
<1>3. IsList(s)
  BY <1>1, <1>2, ListOnRange
<1>4. Len(s) = n
  BY <1>1
<1>5. ASSUME NEW x \in from..(to - 1) PROVE \E i \in 1..n : s[i] = x
  <2> DEFINE i == x - from + 1
  <2>1. i \in 1..n /\ from + i - 1 = x
    OBVIOUS
  <2> HIDE DEF i
  <2>2. QED
    BY <1>2, <2>1
<1>6. \A i \in 1..n : s[i] \in from..(to - 1)
  BY <1>1, <1>2
<1>7. \A i, j \in 1..n : i # j => s[i] # s[j]
  BY <1>1, <1>2
<1>8. IsListing(s, from..(to - 1))
  BY <1>4, <1>5, <1>6, <1>7 DEF IsListing
<1>9. QED
  BY <1>3, <1>8 DEF s

\* CountryRows, the rows of one country.
LEMMA CountryLists ==
  ASSUME NEW p, p.rows \in Nat, p.country \in Nat
  PROVE  /\ IsList(CountryRows(p))
         /\ IsListing(CountryRows(p), {<<p.country, p.country * 100 + k>> : k \in 1..p.rows})
<1> DEFINE n == p.rows
           c == p.country
           s == CountryRows(p)
           S == {<<c, c * 100 + k>> : k \in 1..n}
<1>1. n \in Nat /\ c \in Nat /\ s = [k \in 1..n |-> <<c, c * 100 + k>>]
  BY DEF CountryRows
<1> HIDE DEF n, c, s
<1>2. s = [i \in 1..n |-> s[i]] /\ \A i \in 1..n : s[i] = <<c, c * 100 + i>>
  BY <1>1
<1>3. IsList(s)
  BY <1>1, <1>2, ListOnRange
<1>4. Len(s) = n
  BY <1>1
<1>5. \A i, j \in 1..n : i # j => s[i] # s[j]
  <2>1. \A i, j \in 1..n : c * 100 + i = c * 100 + j => i = j
    BY <1>1
  <2>2. QED
    BY <1>2, <2>1
<1>6. (\A i \in 1..n : s[i] \in S) /\ \A x \in S : \E i \in 1..n : s[i] = x
  BY <1>2
<1> HIDE DEF S
<1>7. IsListing(s, S)
  BY <1>4, <1>5, <1>6 DEF IsListing
<1>8. QED
  BY <1>3, <1>7 DEF s, S, n, c

-----------------------------------------------------------------------------
(* A redemption                                                            *)

\* The rows of a claim.
ClaimRows(q, claim) == UNION {RowsFor(q, claim[j].payload) : j \in 1..Len(claim)}

\* The rows before the place where reading a claim stands.
ReadRows(q, claim, at, cur) ==
  IF q.fn \in RangeFns
  THEN UNION {{v \in RangeOf(claim[j].payload) : j < at \/ (j = at /\ v < cur)} :
                j \in 1..Len(claim)}
  ELSE IF q.fn = "split_partitioned"
  THEN UNION {RowsFor(q, claim[j].payload) : j \in {i \in 1..Len(claim) : i < at}}
  ELSE IF at > 1 THEN ClaimRows(q, claim) ELSE {}

\* Splits whose rows are apart.
IsClaim(q, claim) ==
  /\ Len(claim) \in Nat \ {0}
  /\ \A j \in 1..Len(claim) : PayloadOK(q, claim[j].payload)
  /\ \A i, j \in 1..Len(claim) :
       i # j => RowsFor(q, claim[i].payload) \cap RowsFor(q, claim[j].payload) = {}

\* A redemption that has handed out each row before its place once.
IsRedemption(q, d) ==
  /\ DOMAIN d = {"busy", "claim", "at", "local", "rows", "marks", "cursor"} /\ d.busy = TRUE
  /\ IsClaim(q, d.claim)
  /\ d.at \in Nat \ {0} /\ d.cursor \in Nat
  /\ IsList(d.rows) /\ IsListing(d.rows, ReadRows(q, d.claim, d.at, d.cursor))

EmptyLists == IsList(<<>>) /\ Len(<<>>) = 0 /\ IsListing(<<>>, {})

\* The empty list lists nothing.
LEMMA EmptyListing == EmptyLists
<1>1. Range(<<>>) = {}
  BY DEF Range
<1>2. IsList(<<>>)
  BY <1>1 DEF IsList
<1>3. Len(<<>>) = 0
  OBVIOUS
<1>4. IsListing(<<>>, {})
  BY <1>3 DEF IsListing
<1>5. QED
  BY <1>2, <1>3, <1>4 DEF EmptyLists

\* init: refused, or a redemption of the claim from its start.
LEMMA RedeemOutcomes ==
  ASSUME NEW r \in Readers, NEW w \in DOMAIN fleet, NEW claim, Len(claim) \in Nat,
         Redeem(r, claim, w)
  PROVE  \/ planned' \in {"invalid", "expired", "failed"}
         \/ planned' = planned /\ reader' = [reader EXCEPT ![r] = Redemption(claim)]
<1> DEFINE errors == {open_error(claim[i], w) : i \in 1..Len(claim)} \ {"none"}
           bad == {i \in 1..Len(claim) : open_error(claim[i], w) # "none"}
<1>1. CASE errors # {}
  <2>1. bad # {} /\ bad \in SUBSET Nat
    BY <1>1
  <2> HIDE DEF bad
  <2>2. Min(bad) \in bad
    BY <2>1, MinIsThere
  <2>3. \A i \in bad : open_error(claim[i], w) \in {"invalid", "expired"}
    BY DEF bad, open_error
  <2>4. planned' = open_error(claim[Min(bad)], w)
    BY <1>1 DEF Redeem, bad
  <2>5. QED
    BY <2>2, <2>3, <2>4
<1>2. CASE errors = {}
  BY <1>2 DEF Redeem
<1>3. QED
  BY <1>1, <1>2

\* A redemption starts with nothing read.
LEMMA RedemptionStarts ==
  ASSUME SplitAssumption, CallOK, NEW claim, IsClaim(asking, claim),
         asking.fn # "split_endless_cursor"
  PROVE  IsRedemption(asking, Redemption(claim)) /\ Redemption(claim).claim = claim
<1> DEFINE d == Redemption(claim)
           start == IF asking.fn = "split_dynamic_filter" THEN claim[1].payload.first ELSE 0
<1>1. d = [busy |-> TRUE, claim |-> claim, at |-> 1, local |-> 0, rows |-> <<>>,
           marks |-> <<>>, cursor |-> start]
  BY DEF Redemption
<1>2. 1 \in 1..Len(claim) /\ Len(claim) \in Nat
  BY DEF IsClaim
<1>3. asking.fn \in RangeFns => \A j \in 1..Len(claim) : IsRange(claim[j].payload)
  BY DEF IsClaim, PayloadOK
<1>4. start \in Nat
  BY <1>2, <1>3 DEF RangeFns, SplitFunctions, IsRange
<1>5. start = 0 \/ start = claim[1].payload.first
  OBVIOUS
<1> HIDE DEF start
<1>6. ReadRows(asking, claim, 1, start) = {}
  <2>1. CASE asking.fn \in RangeFns
    <3>1. ASSUME NEW j \in 1..Len(claim), NEW v \in RangeOf(claim[j].payload),
                 j < 1 \/ (j = 1 /\ v < start)
          PROVE  FALSE
      <4>1. j = 1 /\ v < start
        BY <1>2, <3>1
      <4>2. IsRange(claim[j].payload)
        BY <1>3, <2>1
      <4>3. QED
        BY <1>5, <4>1, <4>2 DEF RangeOf, IsRange
    <3>2. QED
      BY <2>1, <3>1 DEF ReadRows
  <2>2. CASE asking.fn \notin RangeFns
    BY <1>2, <2>2 DEF ReadRows
  <2>3. QED
    BY <2>1, <2>2
<1>7. /\ DOMAIN d = {"busy", "claim", "at", "local", "rows", "marks", "cursor"}
      /\ d.busy = TRUE /\ d.claim = claim /\ d.at = 1 /\ d.cursor = start /\ d.rows = <<>>
  BY <1>1
<1> HIDE DEF d
<1>8. IsList(d.rows) /\ IsListing(d.rows, ReadRows(asking, d.claim, d.at, d.cursor))
  BY <1>6, <1>7, EmptyListing DEF EmptyLists
<1>9. IsClaim(asking, d.claim) /\ d.at \in Nat \ {0} /\ d.cursor \in Nat
  BY <1>4, <1>7
<1>10. IsRedemption(asking, d)
  BY <1>7, <1>8, <1>9 DEF IsRedemption
<1>11. QED
  BY <1>7, <1>10 DEF d

-----------------------------------------------------------------------------
(* The next batch                                                          *)

\* The library's Min, of a set of naturals, is below the others.
LEMMA MinIsLeast ==
  ASSUME NEW A \in SUBSET Nat, A # {}
  PROVE  Min(A) \in A /\ \A j \in A : Min(A) <= j
<1>1. \E i \in A : \A j \in A : i <= j
  BY LeastOf
<1>2. QED
  BY <1>1 DEF Min

\* Range j is not read to its end.
IsLeft(ranges, at, cur, j) ==
  (j = at /\ cur < ranges[j].last) \/ (j > at /\ ranges[j].first < ranges[j].last)

\* The first place that is left to read, if there is one.
IsPosition(ranges, n, at, cur, p) ==
  \/ p.at = n + 1 /\ \A j \in 1..n : ~IsLeft(ranges, at, cur, j)
  \/ /\ p.at \in 1..n /\ p.at >= at /\ IsLeft(ranges, at, cur, p.at)
     /\ p.cursor = (IF p.at = at /\ cur >= ranges[p.at].first
                    THEN cur ELSE ranges[p.at].first)
     /\ \A j \in 1..n : j < p.at => ~IsLeft(ranges, at, cur, j)

\* Where the next batch of ranges begins, and what lies before it.
LEMMA PositionFound ==
  ASSUME NEW n \in Nat, NEW ranges, \A j \in 1..n : IsRange(ranges[j]), Len(ranges) = n,
         NEW at \in Nat \ {0}, NEW cur \in Nat
  PROVE  IsPosition(ranges, n, at, cur, Position(ranges, at, cur))
<1> DEFINE Left(j) == (j = at /\ cur < ranges[j].last) \/ (j > at /\ ranges[j].first < ranges[j].last)
           live == {j \in at..n : Left(j)}
           j0 == Min(live)
           start == IF j0 = at /\ cur >= ranges[j0].first THEN cur ELSE ranges[j0].first
           p == Position(ranges, at, cur)
<1>1. p = IF live = {} THEN [at |-> n + 1, cursor |-> cur] ELSE [at |-> j0, cursor |-> start]
  BY DEF Position
<1>2. \A j \in 1..n : Left(j) => j \in live
  OBVIOUS
<1>3. CASE live = {}
  <2>1. p.at = n + 1
    BY <1>1, <1>3
  <2>2. QED
    BY <1>2, <1>3, <2>1 DEF IsPosition, IsLeft
<1>4. CASE live # {}
  <2>1. live \in SUBSET Nat
    OBVIOUS
  <2>2. j0 \in live /\ \A j \in live : j0 <= j
    <3> HIDE DEF live
    <3>1. QED
      BY <1>4, <2>1, MinIsLeast
  <2>3. p.at = j0 /\ p.cursor = start
    <3> HIDE DEF live, start, j0
    <3>1. QED
      BY <1>1, <1>4
  <2>4. j0 \in 1..n /\ j0 >= at /\ Left(j0)
    BY <2>2
  <2>5. ASSUME NEW j \in 1..n, j < j0 PROVE ~Left(j)
    <3>1. Left(j) => j \in live
      BY <1>2
    <3> HIDE DEF live, Left
    <3>2. QED
      BY <2>2, <2>4, <2>5, <3>1
  <2> HIDE DEF j0, live, p
  <2>6. QED
    BY <2>3, <2>4, <2>5 DEF p, IsPosition, IsLeft
<1>5. QED
  BY <1>3, <1>4

\* RangeProducer::next_batch: the rows of a batch are those that were next.
LEMMA RangesAreRead ==
  ASSUME SplitAssumption, CallOK, asking.fn \in RangeFns, NEW d, IsRedemption(asking, d)
  PROVE  /\ \A b \in RangeBatch(d) : IsRedemption(asking, b.next) /\ b.next.claim = d.claim
         /\ RangeBatch(d) = {} => ReadRows(asking, d.claim, d.at, d.cursor)
                                    = ClaimRows(asking, d.claim)
<1> DEFINE n == Len(d.claim)
           ranges == Payloads(d.claim)
           at == d.at
           cur == d.cursor
           p == Position(ranges, at, cur)
           pa == p.at
           pc == p.cursor
           Left(j) == (j = at /\ cur < ranges[j].last) \/ (j > at /\ ranges[j].first < ranges[j].last)
           end == Min({pc + SplitBatchRows, ranges[pa].last})
           Before(a, c) == UNION {{v \in RangeOf(ranges[j]) : j < a \/ (j = a /\ v < c)} :
                                    j \in 1..n}
<1>1. n \in Nat /\ at \in Nat \ {0} /\ cur \in Nat
  BY DEF IsRedemption, IsClaim
<1>2. ranges = [j \in 1..n |-> d.claim[j].payload] /\ Len(ranges) = n
  BY <1>1 DEF Payloads
<1>3. \A j \in 1..n : IsRange(ranges[j])
  BY <1>2 DEF IsRedemption, IsClaim, PayloadOK
<1>4. \A i, j \in 1..n : i # j => RangeOf(ranges[i]) \cap RangeOf(ranges[j]) = {}
  <2>1. \A x : RowsFor(asking, x) = RangeOf(x)
    BY DEF RowsFor, RangeFns
  <2>2. QED
    BY <1>2, <2>1 DEF IsRedemption, IsClaim
<1>5. \A a, c : ReadRows(asking, d.claim, a, c) = Before(a, c)
  <2>1. \A j \in 1..n : ranges[j] = d.claim[j].payload
    BY <1>2
  <2>2. \A a, c : ReadRows(asking, d.claim, a, c)
                  = UNION {{v \in RangeOf(d.claim[j].payload) : j < a \/ (j = a /\ v < c)} :
                             j \in 1..n}
    BY DEF ReadRows
  <2> HIDE DEF ranges, n
  <2>3. QED
    BY <2>1, <2>2
<1>6. ClaimRows(asking, d.claim) = UNION {RangeOf(ranges[j]) : j \in 1..n}
  <2>1. \A x : RowsFor(asking, x) = RangeOf(x)
    BY DEF RowsFor, RangeFns
  <2>2. \A j \in 1..n : ranges[j] = d.claim[j].payload
    BY <1>2
  <2> HIDE DEF ranges
  <2>3. QED
    BY <2>1, <2>2 DEF ClaimRows
<1>7. IsList(d.rows) /\ IsListing(d.rows, Before(at, cur))
  BY <1>5 DEF IsRedemption
<1> HIDE DEF n, ranges, at, cur
<1>8. \/ pa = n + 1 /\ \A j \in 1..n : ~Left(j)
      \/ /\ pa \in 1..n /\ pa >= at /\ Left(pa)
         /\ pc = (IF pa = at /\ cur >= ranges[pa].first THEN cur ELSE ranges[pa].first)
         /\ \A j \in 1..n : j < pa => ~Left(j)
  <2>1. IsPosition(ranges, n, at, cur, p)
    BY <1>1, <1>2, <1>3, PositionFound
  <2> HIDE DEF p
  <2>2. QED
    BY <2>1 DEF IsPosition, IsLeft
<1>9. RangeBatch(d) = IF pa > n THEN {}
        ELSE {[rows |-> Span(pc, end),
               next |-> [d EXCEPT !.at = pa, !.cursor = end,
                               !.rows = @ \o Span(pc, end),
                               !.local = IF Indexed THEN LocalAt(d, pa) + 1 ELSE 0,
                               !.marks = IF Indexed THEN Append(@, MarkOf(d, pa))
                                         ELSE @]]}
  BY <1>2 DEF RangeBatch, ranges, at, cur
<1> HIDE DEF p
<1>10. CASE pa = n + 1
  <2>1. RangeBatch(d) = {}
    BY <1>1, <1>9, <1>10
  <2>2. ASSUME NEW j \in 1..n, NEW v \in RangeOf(ranges[j])
        PROVE  j < at \/ (j = at /\ v < cur)
    <3>1. ~Left(j)
      BY <1>1, <1>8, <1>10
    <3>2. IsRange(ranges[j])
      BY <1>3
    <3>3. QED
      BY <1>1, <3>1, <3>2 DEF IsRange, RangeOf
  <2>3. Before(at, cur) = UNION {RangeOf(ranges[j]) : j \in 1..n}
    BY <2>2
  <2>4. QED
    BY <1>5, <1>6, <2>1, <2>3 DEF at, cur
<1>11. CASE pa # n + 1
  <2>1. /\ pa \in 1..n /\ pa >= at /\ Left(pa)
        /\ pc = (IF pa = at /\ cur >= ranges[pa].first THEN cur ELSE ranges[pa].first)
        /\ \A j \in 1..n : j < pa => ~Left(j)
    BY <1>8, <1>11
  <2>2. IsRange(ranges[pa]) /\ ranges[pa].last \in Nat /\ ranges[pa].first \in Nat
    BY <1>3, <2>1 DEF IsRange
  <2>3. pc \in Nat /\ pc <= ranges[pa].last
    BY <1>1, <2>1, <2>2 DEF IsRange
  <2>4. SplitBatchRows \in Nat \ {0}
    BY DEF SplitAssumption
  <2>5. /\ end \in Nat /\ pc <= end /\ end <= ranges[pa].last
        /\ end = pc + SplitBatchRows \/ end = ranges[pa].last
    <3> DEFINE A == {pc + SplitBatchRows, ranges[pa].last}
    <3>1. A \in SUBSET Nat /\ A # {}
      BY <2>2, <2>3, <2>4
    <3>2. pc + SplitBatchRows \in A /\ ranges[pa].last \in A
      OBVIOUS
    <3>3. \A x \in A : x = pc + SplitBatchRows \/ x = ranges[pa].last
      OBVIOUS
    <3> HIDE DEF A
    <3>4. Min(A) \in A /\ \A x \in A : Min(A) <= x
      BY <3>1, MinIsLeast
    <3>5. end = Min(A)
      BY DEF A
    <3> HIDE DEF end
    <3>6. QED
      BY <2>2, <2>3, <2>4, <3>2, <3>3, <3>4, <3>5
  <2> DEFINE span == Span(pc, end)
             next == [d EXCEPT !.at = pa, !.cursor = end,
                               !.rows = @ \o Span(pc, end),
                               !.local = IF Indexed THEN LocalAt(d, pa) + 1 ELSE 0,
                               !.marks = IF Indexed THEN Append(@, MarkOf(d, pa))
                                         ELSE @]
  <2>6. RangeBatch(d) = {[rows |-> span, next |-> next]}
    BY <1>1, <1>9, <2>1
  <2>7. /\ next.at = pa /\ next.cursor = end /\ next.rows = d.rows \o span
        /\ next.claim = d.claim /\ next.busy = TRUE
        /\ DOMAIN next = {"busy", "claim", "at", "local", "rows", "marks", "cursor"}
    BY DEF IsRedemption
  <2> HIDE DEF end, span, next
  <2>8. Before(pa, end) = Before(at, cur) \cup pc..(end - 1)
    <3>1. ASSUME NEW j \in 1..n, NEW v \in RangeOf(ranges[j]), j < pa \/ (j = pa /\ v < end)
          PROVE  v \in Before(at, cur) \cup pc..(end - 1)
      <4>1. IsRange(ranges[j]) /\ v \in Nat /\ v < ranges[j].last /\ v >= ranges[j].first
        BY <1>3 DEF IsRange, RangeOf
      <4>2. CASE j < pa
        <5>1. ~Left(j)
          BY <2>1, <4>2
        <5>2. j < at \/ (j = at /\ v < cur)
          BY <1>1, <4>1, <5>1 DEF IsRange
        <5>3. QED
          BY <5>2
      <4>3. CASE j = pa /\ v < end
        <5>1. CASE v >= pc
          BY <2>3, <2>5, <4>1, <4>3, <5>1
        <5>2. CASE v < pc
          <6>1. pa = at /\ pc = cur
            BY <2>1, <2>2, <4>1, <4>3, <5>2
          <6>2. QED
            BY <4>3, <5>2, <6>1
        <5>3. QED
          BY <2>3, <4>1, <5>1, <5>2
      <4>4. QED
        BY <3>1, <4>2, <4>3
    <3>2. ASSUME NEW j \in 1..n, NEW v \in RangeOf(ranges[j]), j < at \/ (j = at /\ v < cur)
          PROVE  v \in Before(pa, end)
      <4>1. j < pa \/ (j = pa /\ v < end)
        <5>1. CASE j < pa
          BY <5>1
        <5>2. CASE ~(j < pa)
          <6>1. j = at /\ pa = at /\ v < cur
            BY <1>1, <2>1, <3>2, <5>2
          <6>2. v \in Nat /\ v >= ranges[pa].first
            BY <1>3, <6>1 DEF IsRange, RangeOf
          <6>3. pc = cur
            BY <1>1, <2>1, <2>2, <6>1, <6>2
          <6>4. QED
            BY <1>1, <2>3, <2>5, <6>1, <6>2, <6>3
        <5>3. QED
          BY <5>1, <5>2
      <4>2. QED
        BY <4>1
    <3>3. ASSUME NEW v \in pc..(end - 1) PROVE v \in Before(pa, end)
      <4>1. v \in RangeOf(ranges[pa]) /\ v < end
        BY <1>1, <2>1, <2>2, <2>3, <2>5 DEF RangeOf
      <4>2. QED
        BY <2>1, <4>1
    <3>4. QED
      BY <3>1, <3>2, <3>3
  <2>9. Before(at, cur) \cap pc..(end - 1) = {}
    <3>1. ASSUME NEW j \in 1..n, NEW v \in RangeOf(ranges[j]), j < at \/ (j = at /\ v < cur),
                 v \in pc..(end - 1)
          PROVE  FALSE
      <4>1. v \in RangeOf(ranges[pa])
        BY <1>1, <2>1, <2>2, <2>3, <2>5, <3>1 DEF RangeOf
      <4>2. j = pa
        BY <1>4, <2>1, <4>1
      <4>3. j = at /\ v < cur /\ pa = at
        BY <1>1, <2>1, <3>1, <4>2
      <4>4. QED
        BY <1>1, <2>1, <2>2, <2>3, <2>5, <3>1, <4>3
    <3>2. QED
      BY <3>1
  <2>10. IsList(span) /\ IsListing(span, pc..(end - 1))
    BY <2>3, <2>5, SpanLists DEF span
  <2> HIDE DEF Before
  <2>11. IsList(d.rows \o span) /\ IsListing(d.rows \o span, Before(pa, end))
    <3> DEFINE S == Before(at, cur)
               T == pc..(end - 1)
    <3>1. IsListing(d.rows, S) /\ IsListing(span, T) /\ S \cap T = {}
      BY <1>7, <2>9, <2>10
    <3>2. Before(pa, end) = S \cup T
      BY <2>8
    <3> HIDE DEF S, T
    <3>3. QED
      BY <1>7, <2>10, <3>1, <3>2, ListingsConcatenate
  <2>12. IsListing(next.rows, ReadRows(asking, next.claim, next.at, next.cursor))
    BY <1>5, <2>7, <2>11
  <2>13. next.at \in Nat \ {0} /\ next.cursor \in Nat /\ IsList(next.rows)
    BY <2>1, <2>5, <2>7, <2>11
  <2>14. IsClaim(asking, next.claim)
    BY <2>7 DEF IsRedemption
  <2>15. IsRedemption(asking, next)
    BY <2>7, <2>12, <2>13, <2>14 DEF IsRedemption
  <2>16. \A b \in RangeBatch(d) : b.next = next
    BY <2>6
  <2>17. RangeBatch(d) # {}
    BY <2>6
  <2>18. QED
    BY <2>7, <2>15, <2>16, <2>17
<1>12. QED
  BY <1>10, <1>11

\* SplitPartitioned::Producer::next_batch: the next country that has rows.
LEMMA CountriesAreRead ==
  ASSUME asking.fn = "split_partitioned", NEW d, IsRedemption(asking, d)
  PROVE  /\ \A b \in CountryBatch(d) : IsRedemption(asking, b.next) /\ b.next.claim = d.claim
         /\ CountryBatch(d) = {} => ReadRows(asking, d.claim, d.at, d.cursor)
                                      = ClaimRows(asking, d.claim)
<1> DEFINE n == Len(d.claim)
           at == d.at
           R(j) == RowsFor(asking, d.claim[j].payload)
           Before(a) == UNION {R(j) : j \in {i \in 1..n : i < a}}
           live == {j \in at..n : d.claim[j].payload.rows > 0}
           j0 == Min(live)
           p == d.claim[j0].payload
           batch == CountryRows(p)
           next == [d EXCEPT !.at = j0 + 1, !.rows = @ \o batch]
<1>1. n \in Nat /\ at \in Nat \ {0} /\ d.cursor \in Nat /\ IsClaim(asking, d.claim)
  BY DEF IsRedemption, IsClaim
<1>2. \A j \in 1..n : d.claim[j].payload.rows \in Nat /\ d.claim[j].payload.country \in Nat
  BY DEF IsRedemption, IsClaim, PayloadOK
<1>3. \A i, j \in 1..n : i # j => R(i) \cap R(j) = {}
  BY DEF IsRedemption, IsClaim
<1>4. \A a, c : ReadRows(asking, d.claim, a, c) = Before(a)
  BY DEF ReadRows, RangeFns
<1>5. ClaimRows(asking, d.claim) = UNION {R(j) : j \in 1..n}
  BY DEF ClaimRows
<1>6. IsList(d.rows) /\ IsListing(d.rows, Before(at))
  BY <1>4 DEF IsRedemption
<1>7. \A x : RowsFor(asking, x) = {<<x.country, x.country * 100 + k>> : k \in 1..x.rows}
  BY DEF RowsFor
<1>8. ASSUME NEW j \in 1..n, j \notin live, j >= at PROVE R(j) = {}
  <2>1. d.claim[j].payload.rows = 0
    BY <1>1, <1>2, <1>8
  <2> DEFINE x == d.claim[j].payload
  <2>2. 1..x.rows = {}
    BY <2>1
  <2> HIDE DEF x
  <2>3. RowsFor(asking, x) = {}
    BY <1>7, <2>2
  <2>4. QED
    BY <2>3 DEF x
<1>9. CountryBatch(d) = IF live = {} THEN {} ELSE {[rows |-> batch, next |-> next]}
  BY DEF CountryBatch
<1>10. CASE live = {}
  <2>1. ASSUME NEW j \in 1..n, NEW v \in R(j) PROVE j < at
    <3>1. j >= at => R(j) = {}
      BY <1>8, <1>10
    <3>2. QED
      BY <1>1, <2>1, <3>1
  <2>2. Before(at) = UNION {R(j) : j \in 1..n}
    <3> HIDE DEF R
    <3>1. QED
      BY <2>1
  <2>3. CountryBatch(d) = {}
    BY <1>9, <1>10
  <2>4. QED
    BY <1>4, <1>5, <2>2, <2>3
<1>11. CASE live # {}
  <2>1. live \in SUBSET Nat
    BY <1>1
  <2>2. j0 \in live /\ \A j \in live : j0 <= j
    <3> HIDE DEF live
    <3>1. QED
      BY <1>11, <2>1, MinIsLeast
  <2>3. j0 \in 1..n /\ j0 >= at
    BY <1>1, <2>2
  <2>4. CountryBatch(d) = {[rows |-> batch, next |-> next]}
    BY <1>9, <1>11
  <2> HIDE DEF batch, j0
  <2>5. /\ next.at = j0 + 1 /\ next.cursor = d.cursor /\ next.rows = d.rows \o batch
        /\ next.claim = d.claim /\ next.busy = TRUE
        /\ DOMAIN next = {"busy", "claim", "at", "local", "rows", "marks", "cursor"}
    BY DEF IsRedemption
  <2>6. IsList(batch) /\ IsListing(batch, R(j0))
    <3>1. p.rows \in Nat /\ p.country \in Nat
      BY <1>2, <2>3
    <3>2. R(j0) = {<<p.country, p.country * 100 + k>> : k \in 1..p.rows}
      BY <1>7
    <3> HIDE DEF p
    <3>3. QED
      BY <3>1, <3>2, CountryLists DEF batch
  <2> HIDE DEF next
  <2>7. Before(j0 + 1) = Before(at) \cup R(j0)
    <3>1. ASSUME NEW j \in 1..n, j < j0 + 1, NEW v \in R(j) PROVE v \in Before(at) \cup R(j0)
      <4>1. CASE j < at
        <5> HIDE DEF R
        <5>1. QED
          BY <3>1, <4>1
      <4>2. CASE j >= at /\ j # j0
        <5>1. j \notin live
          BY <1>1, <2>2, <2>3, <3>1, <4>2
        <5>2. R(j) = {}
          BY <1>8, <4>2, <5>1
        <5>3. QED
          BY <3>1, <5>2
      <4>3. CASE j = j0
        BY <3>1, <4>3
      <4>4. QED
        BY <1>1, <4>1, <4>2, <4>3
    <3>2. \A j \in 1..n : j < at => j < j0 + 1
      BY <1>1, <2>3
    <3>3. j0 \in 1..n /\ j0 < j0 + 1
      BY <1>1, <2>3
    <3> HIDE DEF R
    <3>4. QED
      BY <3>1, <3>2, <3>3
  <2>8. Before(at) \cap R(j0) = {}
    <3>1. \A j \in 1..n : j < at => j # j0
      BY <1>1, <2>3
    <3> HIDE DEF R
    <3>2. QED
      BY <1>3, <2>3, <3>1
  <2> HIDE DEF Before, R
  <2>9. IsList(d.rows \o batch) /\ IsListing(d.rows \o batch, Before(j0 + 1))
    <3> DEFINE S == Before(at)
               T == R(j0)
    <3>1. IsListing(d.rows, S) /\ IsListing(batch, T) /\ S \cap T = {}
      BY <1>6, <2>6, <2>8
    <3>2. Before(j0 + 1) = S \cup T
      BY <2>7
    <3> HIDE DEF S, T
    <3>3. QED
      BY <1>6, <2>6, <3>1, <3>2, ListingsConcatenate
  <2>10. IsListing(next.rows, ReadRows(asking, next.claim, next.at, next.cursor))
    BY <1>4, <2>5, <2>9
  <2>11. next.at \in Nat \ {0} /\ next.cursor \in Nat /\ IsList(next.rows)
    BY <1>1, <2>3, <2>5, <2>9
  <2>12. IsRedemption(asking, next)
    BY <1>1, <2>5, <2>10, <2>11 DEF IsRedemption
  <2>13. \A b \in CountryBatch(d) : b.next = next
    BY <2>4
  <2>14. CountryBatch(d) # {}
    BY <2>4
  <2>15. QED
    BY <2>5, <2>12, <2>13, <2>14
<1>12. QED
  BY <1>10, <1>11

\* A redemption that answers with everything at once.
LEMMA OneBatch ==
  ASSUME asking.fn \in {"split_echo_filters", "sequence"}, NEW d, IsRedemption(asking, d),
         NEW rows, IsList(rows), IsListing(rows, ClaimRows(asking, d.claim))
  PROVE  LET next == [d EXCEPT !.at = 2, !.rows = rows]
         IN IsRedemption(asking, next) /\ next.claim = d.claim
<1> DEFINE next == [d EXCEPT !.at = 2, !.rows = rows]
<1>1. /\ next.at = 2 /\ next.cursor = d.cursor /\ next.rows = rows
      /\ next.claim = d.claim /\ next.busy = TRUE
      /\ DOMAIN next = {"busy", "claim", "at", "local", "rows", "marks", "cursor"}
  BY DEF IsRedemption
<1>2. ReadRows(asking, d.claim, 2, d.cursor) = ClaimRows(asking, d.claim)
  BY DEF ReadRows, RangeFns
<1>3. IsClaim(asking, d.claim) /\ d.cursor \in Nat
  BY DEF IsRedemption
<1> HIDE DEF next
<1>4. IsRedemption(asking, next)
  BY <1>1, <1>2, <1>3 DEF IsRedemption
<1>5. QED
  BY <1>1, <1>4 DEF next

\* SplitEchoFilters::init: one batch, a row for each payload.
LEMMA EchoesAreRead ==
  ASSUME asking.fn = "split_echo_filters", NEW d, IsRedemption(asking, d)
  PROVE  /\ \A b \in EchoBatch(d) : IsRedemption(asking, b.next) /\ b.next.claim = d.claim
         /\ EchoBatch(d) = {} => ReadRows(asking, d.claim, d.at, d.cursor)
                                   = ClaimRows(asking, d.claim)
<1> DEFINE n == Len(d.claim)
           E(i) == EchoRow(d.claim[i].payload)
           rows == [i \in 1..n |-> E(i)]
           next == [d EXCEPT !.at = 2, !.rows = rows]
<1>1. n \in Nat
  BY DEF IsRedemption, IsClaim
<1>2. EchoBatch(d) = IF d.at > 1 THEN {} ELSE {[rows |-> rows, next |-> next]}
  BY DEF EchoBatch
<1>3. CASE d.at > 1
  BY <1>2, <1>3 DEF ReadRows, RangeFns
<1>4. CASE ~(d.at > 1)
  <2>1. \A i \in 1..n : RowsFor(asking, d.claim[i].payload) = {E(i)}
    BY DEF RowsFor
  <2>2. \A i, j \in 1..n : i # j => E(i) # E(j)
    BY <2>1 DEF IsRedemption, IsClaim
  <2> HIDE DEF E
  <2>3. ClaimRows(asking, d.claim) = {E(i) : i \in 1..n}
    BY <2>1 DEF ClaimRows
  <2>4. rows = [i \in 1..n |-> rows[i]] /\ \A i \in 1..n : rows[i] = E(i)
    OBVIOUS
  <2>5. Len(rows) = n
    <3> HIDE DEF n
    <3>1. QED
      BY <1>1
  <2> HIDE DEF rows
  <2>6. IsList(rows)
    BY <1>1, <2>4, ListOnRange
  <2>7. IsListing(rows, ClaimRows(asking, d.claim))
    BY <2>2, <2>3, <2>4, <2>5 DEF IsListing
  <2>8. IsRedemption(asking, next) /\ next.claim = d.claim
    BY <2>6, <2>7, OneBatch
  <2> HIDE DEF next
  <2>9. EchoBatch(d) = {[rows |-> rows, next |-> next]}
    BY <1>2, <1>4
  <2>10. (\A b \in EchoBatch(d) : b.next = next) /\ EchoBatch(d) # {}
    BY <2>9
  <2>11. QED
    BY <2>8, <2>10
<1>5. QED
  BY <1>3, <1>4

\* A function that does not plan: its whole scan.
LEMMA WholesAreRead ==
  ASSUME SplitAssumption, CallOK, asking.fn = "sequence", NEW d, IsRedemption(asking, d)
  PROVE  /\ \A b \in WholeBatch(d) : IsRedemption(asking, b.next) /\ b.next.claim = d.claim
         /\ WholeBatch(d) = {} => ReadRows(asking, d.claim, d.at, d.cursor)
                                    = ClaimRows(asking, d.claim)
<1> DEFINE n == Rows(asking.n)
           rows == Span(0, n)
           next == [d EXCEPT !.at = 2, !.rows = rows]
<1>1. n \in Nat
  BY RowsAndSplits DEF CallOK
<1>2. WholeBatch(d) = IF d.at > 1 THEN {} ELSE {[rows |-> rows, next |-> next]}
  BY DEF WholeBatch
<1>3. CASE d.at > 1
  BY <1>2, <1>3 DEF ReadRows, RangeFns
<1>4. CASE ~(d.at > 1)
  <2>1. \A x : RowsFor(asking, x) = 0..(n - 1)
    BY DEF RowsFor
  <2> HIDE DEF n
  <2>2. 1 \in 1..Len(d.claim)
    BY DEF IsRedemption, IsClaim
  <2>3. ClaimRows(asking, d.claim) = 0..(n - 1)
    BY <2>1, <2>2 DEF ClaimRows
  <2>4. IsList(rows) /\ IsListing(rows, ClaimRows(asking, d.claim))
    BY <1>1, <2>3, SpanLists
  <2> HIDE DEF rows
  <2>5. IsRedemption(asking, next) /\ next.claim = d.claim
    BY <2>4, OneBatch
  <2> HIDE DEF next
  <2>6. WholeBatch(d) = {[rows |-> rows, next |-> next]}
    BY <1>2, <1>4
  <2>7. (\A b \in WholeBatch(d) : b.next = next) /\ WholeBatch(d) # {}
    BY <2>6
  <2>8. QED
    BY <2>5, <2>7
<1>5. QED
  BY <1>3, <1>4

\* Whatever is read, a batch keeps a redemption in order, and the last one has
\* handed out the rows of its claim.
LEMMA BatchesAreRead ==
  ASSUME SplitAssumption, CallOK, asking.fn # "split_endless_cursor",
         NEW d, IsRedemption(asking, d)
  PROVE  /\ \A b \in next_batch(d) : IsRedemption(asking, b.next) /\ b.next.claim = d.claim
         /\ next_batch(d) = {} => IsListing(d.rows, ClaimRows(asking, d.claim))
<1>1. asking.fn \in RangeFns \cup {"split_partitioned", "split_echo_filters", "sequence"}
  BY RowsAndSplits DEF RangeFns, CallOK
<1>2. /\ asking.fn \in RangeFns => next_batch(d) = RangeBatch(d)
      /\ asking.fn = "split_partitioned" => next_batch(d) = CountryBatch(d)
      /\ asking.fn = "split_echo_filters" => next_batch(d) = EchoBatch(d)
      /\ asking.fn = "sequence" => next_batch(d) = WholeBatch(d)
  BY DEF next_batch, RangeFns
<1>3. IsListing(d.rows, ReadRows(asking, d.claim, d.at, d.cursor))
  BY DEF IsRedemption
<1>4. QED
  BY <1>1, <1>2, <1>3, RangesAreRead, CountriesAreRead, EchoesAreRead, WholesAreRead

-----------------------------------------------------------------------------
(* Who has which rows                                                      *)

\* Tokens whose rows are apart, and together those of the scan.
IsPlanned(q, toks) ==
  /\ IsList(toks) /\ Len(toks) \in Nat
  /\ \A i \in 1..Len(toks) : PayloadOK(q, toks[i].payload)
  /\ \A i, j \in 1..Len(toks) :
       i # j => RowsFor(q, toks[i].payload) \cap RowsFor(q, toks[j].payload) = {}
  /\ ScanOf(q) = UNION {RowsFor(q, toks[i].payload) : i \in 1..Len(toks)}

\* The rows of the first n tokens.
RowsOfFirst(q, toks, n) == UNION {RowsFor(q, toks[i].payload) : i \in 1..n}

\* A reader's rows, those it has yet to deliver.
Held(q, d) == IF d.busy THEN ClaimRows(q, d.claim) ELSE {}

\* Tokens that were claimed together.
IsRun(toks, n, claim) ==
  \E lo \in Nat : /\ lo + Len(claim) <= n
                  /\ \A j \in 1..Len(claim) : claim[j] = toks[lo + j]

\* Every row in A is either delivered, in D, or held by exactly one reader.
Accounted(H, D, A) ==
  /\ \A r \in Readers : H[r] \cap D = {}
  /\ \A r, s \in Readers : r # s => H[r] \cap H[s] = {}
  /\ A = D \cup UNION {H[r] : r \in Readers}

\* What each reader holds.
Holdings(q, rd) == [r \in Readers |-> Held(q, rd[r])]

\* The readers' redemptions and what they delivered, of n tokens claimed.
InHand(q, toks, n, rd, dl) ==
  /\ n \in Nat /\ n <= Len(toks)
  /\ rd = [r \in Readers |-> rd[r]]
  /\ \A r \in Readers :
       \/ rd[r] = NoReader
       \/ IsRedemption(q, rd[r]) /\ IsRun(toks, n, rd[r].claim)
  /\ dl = [v \in DOMAIN dl |-> 1]
  /\ Accounted(Holdings(q, rd), DOMAIN dl, RowsOfFirst(q, toks, n))

Idle(rd) == \A r \in Readers : ~rd[r].busy

\* Nothing has been claimed.
Fresh == claimed = 0 /\ reader = [r \in Readers |-> NoReader] /\ delivered = EmptyBag

\* While planning nothing is claimed; while reading every row of a claimed token
\* is delivered or held by one reader; at the end nothing is held.
ReadInv ==
  /\ planned = "planning" => Fresh
  /\ planned \in {"reading", "read"} => InHand(asking, tokens, claimed, reader, delivered)
  /\ planned = "read" => claimed = Len(tokens) /\ Idle(reader)

\* The tokens a reader sees are the whole plan.
LEMMA TokensArePlanned ==
  ASSUME SplitAssumption, PInv, PlanInv, planned \in {"reading", "read"}
  PROVE  IsPlanned(asking, tokens) /\ asking.fn # "split_endless_cursor"
<1> DEFINE p == FullPlan(asking)
           n == Len(tokens)
<1>1. /\ asking.fn # "split_endless_cursor" /\ n = Len(p)
      /\ \A i \in 1..n : tokens[i].payload = p[i]
  BY DEF PlanInv
<1>2. PlanOf(asking, p)
  BY <1>1, PlansAreWhole DEF PInv, CallOK
<1>3. IsList(tokens) /\ n \in Nat
  BY ListLength DEF PInv, TokensAreBound
<1> HIDE DEF p
<1>4. /\ \A i \in 1..n : PayloadOK(asking, p[i])
      /\ \A i, j \in 1..n : i # j => RowsFor(asking, p[i]) \cap RowsFor(asking, p[j]) = {}
      /\ ScanOf(asking) = UNION {RowsFor(asking, p[i]) : i \in 1..n}
  BY <1>1, <1>2 DEF PlanOf
<1>5. UNION {RowsFor(asking, p[i]) : i \in 1..n}
        = UNION {RowsFor(asking, tokens[i].payload) : i \in 1..n}
  BY <1>1
<1>6. QED
  BY <1>1, <1>3, <1>4, <1>5 DEF IsPlanned

\* The k tokens after the first n are the claim, of rows apart from theirs.
IsTaken(q, toks, n, k, claim) ==
  /\ IsClaim(q, claim) /\ IsRun(toks, n + k, claim) /\ Len(claim) = k
  /\ \A j \in 1..k : claim[j] = toks[n + j]
  /\ ClaimRows(q, claim) \cap RowsOfFirst(q, toks, n) = {}
  /\ RowsOfFirst(q, toks, n + k) = RowsOfFirst(q, toks, n) \cup ClaimRows(q, claim)

\* The tokens a reader takes are a claim, of rows nobody has.
LEMMA TakenTokens ==
  ASSUME NEW q, NEW toks, IsPlanned(q, toks), NEW n \in Nat, NEW k \in Nat \ {0},
         n + k <= Len(toks)
  PROVE  IsTaken(q, toks, n, k, SubSeq(toks, n + 1, n + k))
<1> DEFINE claim == SubSeq(toks, n + 1, n + k)
           m == Len(toks)
           R(i) == RowsFor(q, toks[i].payload)
<1>1. m \in Nat /\ toks \in Seq(Range(toks))
  BY DEF IsPlanned, IsList
<1>2. Len(claim) = k /\ \A j \in 1..k : claim[j] = toks[n + j]
  <2> DEFINE S == Range(toks)
             a == n + 1
             b == n + k
  <2>1. toks \in Seq(S) /\ a \in 1..(Len(toks) + 1) /\ b \in (a - 1)..Len(toks)
        /\ b - a + 1 = k /\ \A j \in 1..k : a + j - 1 = n + j
    BY <1>1
  <2> HIDE DEF S, a, b
  <2>2. Len(SubSeq(toks, a, b)) = b - a + 1
        /\ \A i \in 1..(b - a + 1) : SubSeq(toks, a, b)[i] = toks[a + i - 1]
    BY <2>1, SubSeqProperties
  <2>3. Len(SubSeq(toks, a, b)) = k
        /\ \A i \in 1..k : SubSeq(toks, a, b)[i] = toks[n + i]
    BY <2>1, <2>2
  <2>4. QED
    BY <2>3 DEF a, b
<1> HIDE DEF claim
<1>3. \A j \in 1..k : n + j \in 1..m
  BY <1>1
<1>4. /\ \A i \in 1..m : PayloadOK(q, toks[i].payload)
      /\ \A i, j \in 1..m : i # j => R(i) \cap R(j) = {}
  BY DEF IsPlanned
<1>5. \A i, j \in 1..k : i # j => n + i # n + j
  OBVIOUS
<1>6. ASSUME NEW j \in 1..k PROVE RowsFor(q, claim[j].payload) = R(n + j)
  BY <1>2
<1> HIDE DEF R, m
<1>7. IsClaim(q, claim)
  <2>1. \A j \in 1..k : PayloadOK(q, claim[j].payload)
    BY <1>2, <1>3, <1>4
  <2>2. ASSUME NEW i \in 1..k, NEW j \in 1..k, i # j
        PROVE  RowsFor(q, claim[i].payload) \cap RowsFor(q, claim[j].payload) = {}
    BY <1>3, <1>4, <1>5, <1>6, <2>2
  <2>3. QED
    BY <1>2, <2>1, <2>2 DEF IsClaim
<1>8. IsRun(toks, n + k, claim)
  <2>1. n + Len(claim) <= n + k /\ \A j \in 1..Len(claim) : claim[j] = toks[n + j]
    BY <1>2
  <2>2. QED
    BY <2>1 DEF IsRun
<1>9. ClaimRows(q, claim) = UNION {R(n + j) : j \in 1..k}
  BY <1>2, <1>6 DEF ClaimRows
<1>10. \A h \in Nat : RowsOfFirst(q, toks, h) = UNION {R(i) : i \in 1..h}
  BY DEF RowsOfFirst, R
<1>11. ASSUME NEW j \in 1..k, NEW i \in 1..n PROVE R(n + j) \cap R(i) = {}
  <2>1. i \in 1..m /\ n + j # i
    BY <1>1 DEF m
  <2>2. QED
    BY <1>3, <1>4, <2>1
<1>12. ASSUME NEW i \in 1..(n + k) PROVE i \in 1..n \/ \E j \in 1..k : i = n + j
  <2>1. CASE i > n
    <3>1. i - n \in 1..k /\ i = n + (i - n)
      BY <2>1
    <3>2. QED
      BY <3>1
  <2>2. QED
    BY <2>1
<1>13. \A j \in 1..k : n + j \in 1..(n + k)
  OBVIOUS
<1>14. \A i \in 1..n : i \in 1..(n + k)
  OBVIOUS
<1> DEFINE N == n + k
<1>15. N \in Nat
  OBVIOUS
<1> HIDE DEF N
<1>16. UNION {R(i) : i \in 1..N} = (UNION {R(i) : i \in 1..n}) \cup (UNION {R(n + j) : j \in 1..k})
  BY <1>12, <1>13, <1>14 DEF N
<1>17. RowsOfFirst(q, toks, N) = RowsOfFirst(q, toks, n) \cup ClaimRows(q, claim)
  BY <1>9, <1>10, <1>15, <1>16
<1>18. ClaimRows(q, claim) \cap RowsOfFirst(q, toks, n) = {}
  BY <1>9, <1>10, <1>11
<1>19. QED
  <2>1. IsTaken(q, toks, n, k, claim)
    BY <1>2, <1>7, <1>8, <1>17, <1>18 DEF N, IsTaken
  <2>2. QED
    BY <2>1 DEF claim

\* An idle reader holds nothing.
LEMMA NoReaderIsIdle == ~NoReader.busy /\ \A q : Held(q, NoReader) = {}
BY DEF NoReader, Held

\* A redemption holds the rows of its claim.
LEMMA RedemptionsAreBusy ==
  ASSUME NEW q, NEW d, IsRedemption(q, d)
  PROVE  d.busy = TRUE /\ d # NoReader /\ Held(q, d) = ClaimRows(q, d.claim)
<1>1. d.busy = TRUE
  BY DEF IsRedemption
<1>2. NoReader.busy = FALSE
  BY DEF NoReader
<1>3. QED
  BY <1>1, <1>2 DEF Held

\* A busy reader runs a redemption.
LEMMA BusyReader ==
  ASSUME NEW q, NEW toks, NEW n, NEW rd, NEW dl, InHand(q, toks, n, rd, dl),
         NEW r \in Readers, rd[r].busy
  PROVE  IsRedemption(q, rd[r]) /\ IsRun(toks, n, rd[r].claim)
BY NoReaderIsIdle DEF InHand

\* A reader goes on with its claim, or starts it over.
LEMMA GoesOn ==
  ASSUME NEW q, NEW toks, NEW n, NEW rd, NEW dl, InHand(q, toks, n, rd, dl),
         NEW r \in Readers, rd[r].busy, NEW d, IsRedemption(q, d), d.claim = rd[r].claim
  PROVE  InHand(q, toks, n, [rd EXCEPT ![r] = d], dl)
<1> DEFINE rd2 == [rd EXCEPT ![r] = d]
<1>1. IsRedemption(q, rd[r]) /\ IsRun(toks, n, rd[r].claim)
  BY BusyReader
<1>2. rd = [s \in Readers |-> rd[s]]
  BY DEF InHand
<1>3. rd2 = [s \in Readers |-> rd2[s]] /\ rd2[r] = d /\ \A s \in Readers : s # r => rd2[s] = rd[s]
  BY <1>2
<1> HIDE DEF rd2
<1>4. Holdings(q, rd2) = Holdings(q, rd)
  <2>1. Held(q, rd2[r]) = Held(q, rd[r])
    <3>1. Held(q, d) = ClaimRows(q, d.claim)
      BY RedemptionsAreBusy
    <3>2. Held(q, rd[r]) = ClaimRows(q, rd[r].claim)
      BY <1>1, RedemptionsAreBusy
    <3>3. QED
      BY <1>3, <3>1, <3>2
  <2>2. \A s \in Readers : Held(q, rd2[s]) = Held(q, rd[s])
    BY <1>3, <2>1
  <2>3. QED
    BY <2>2 DEF Holdings
<1>5. \A s \in Readers : \/ rd2[s] = NoReader
                         \/ IsRedemption(q, rd2[s]) /\ IsRun(toks, n, rd2[s].claim)
  BY <1>1, <1>3 DEF InHand
<1>6. InHand(q, toks, n, rd2, dl)
  BY <1>3, <1>4, <1>5 DEF InHand
<1>7. QED
  BY <1>6 DEF rd2

\* More tokens claimed do not spoil a claim.
LEMMA RunsLast ==
  ASSUME NEW toks, NEW n \in Nat, NEW m \in Nat, n <= m, NEW claim, Len(claim) \in Nat,
         IsRun(toks, n, claim)
  PROVE  IsRun(toks, m, claim)
<1>1. PICK lo \in Nat : /\ lo + Len(claim) <= n
                        /\ \A j \in 1..Len(claim) : claim[j] = toks[lo + j]
  BY DEF IsRun
<1>2. lo + Len(claim) <= m
  BY <1>1
<1>3. QED
  BY <1>1, <1>2 DEF IsRun

\* A reader takes the next k tokens.
LEMMA Takes ==
  ASSUME NEW q, NEW toks, NEW n, NEW rd, NEW dl, InHand(q, toks, n, rd, dl),
         NEW r \in Readers, ~rd[r].busy, NEW k \in Nat \ {0}, n + k <= Len(toks), Len(toks) \in Nat,
         NEW d, IsRedemption(q, d), IsRun(toks, n + k, d.claim),
         ClaimRows(q, d.claim) \cap RowsOfFirst(q, toks, n) = {},
         RowsOfFirst(q, toks, n + k) = RowsOfFirst(q, toks, n) \cup ClaimRows(q, d.claim)
  PROVE  InHand(q, toks, n + k, [rd EXCEPT ![r] = d], dl)
<1> DEFINE rd2 == [rd EXCEPT ![r] = d]
           m == n + k
           H == Holdings(q, rd)
           H2 == Holdings(q, rd2)
           D == DOMAIN dl
           A == RowsOfFirst(q, toks, n)
           new == ClaimRows(q, d.claim)
<1>1. rd = [s \in Readers |-> rd[s]] /\ n \in Nat
  BY DEF InHand
<1>2. rd2 = [s \in Readers |-> rd2[s]] /\ rd2[r] = d /\ \A s \in Readers : s # r => rd2[s] = rd[s]
  BY <1>1
<1> HIDE DEF rd2
<1>3. m \in Nat /\ n <= m /\ m <= Len(toks)
  BY <1>1
<1>4. rd[r] = NoReader
  BY RedemptionsAreBusy DEF InHand
<1>5. \A s \in Readers : \/ rd2[s] = NoReader
                         \/ IsRedemption(q, rd2[s]) /\ IsRun(toks, m, rd2[s].claim)
  <2>1. ASSUME NEW s \in Readers, s # r
        PROVE  \/ rd2[s] = NoReader
               \/ IsRedemption(q, rd2[s]) /\ IsRun(toks, m, rd2[s].claim)
    <3>1. rd[s] = NoReader \/ (IsRedemption(q, rd[s]) /\ IsRun(toks, n, rd[s].claim))
      BY DEF InHand
    <3>2. IsRedemption(q, rd[s]) => Len(rd[s].claim) \in Nat
      BY DEF IsRedemption, IsClaim
    <3> HIDE DEF m
    <3>3. IsRedemption(q, rd[s]) /\ IsRun(toks, n, rd[s].claim) => IsRun(toks, m, rd[s].claim)
      BY <1>1, <1>3, <3>2, RunsLast
    <3>4. QED
      BY <1>2, <2>1, <3>1, <3>3
  <2>2. QED
    BY <1>2, <2>1
<1>6. H[r] = {} /\ H2[r] = new /\ \A s \in Readers : s # r => H2[s] = H[s]
  <2>1. H[r] = {} /\ H2[r] = new
    BY <1>2, <1>4, NoReaderIsIdle, RedemptionsAreBusy DEF Holdings
  <2>2. \A s \in Readers : s # r => H2[s] = H[s]
    BY <1>2 DEF Holdings
  <2>3. QED
    BY <2>1, <2>2
<1>7. Accounted(H, D, A)
  BY DEF InHand
<1>8. new \cap A = {}
  OBVIOUS
<1> HIDE DEF H, H2, D, A, new
<1>9. Accounted(H2, D, A \cup new)
  <2>1. \A s \in Readers : H[s] \subseteq A /\ D \subseteq A
    BY <1>7 DEF Accounted
  <2>2. \A s \in Readers : H2[s] \cap D = {}
    BY <1>6, <1>7, <1>8, <2>1 DEF Accounted
  <2>3. \A s, t \in Readers : s # t => H2[s] \cap H2[t] = {}
    BY <1>6, <1>7, <1>8, <2>1 DEF Accounted
  <2>4. A \cup new = D \cup UNION {H2[s] : s \in Readers}
    BY <1>6, <1>7 DEF Accounted
  <2>5. QED
    BY <2>2, <2>3, <2>4 DEF Accounted
<1>10. Accounted(Holdings(q, rd2), DOMAIN dl, RowsOfFirst(q, toks, m))
  BY <1>9 DEF H2, D, A, new
<1>11. dl = [v \in DOMAIN dl |-> 1]
  BY DEF InHand
<1> HIDE DEF m
<1>12. InHand(q, toks, m, rd2, dl)
  BY <1>2, <1>3, <1>5, <1>10, <1>11 DEF InHand
<1>13. QED
  BY <1>12 DEF m, rd2

\* What a finished redemption adds: each of its rows, once.
Counted(rows) == [v \in Range(rows) |-> Cardinality({i \in 1..Len(rows) : rows[i] = v})]

\* A list without repetitions counts each of its members once.
LEMMA ListingsCountOnce ==
  ASSUME NEW rows, NEW S, IsList(rows), IsListing(rows, S)
  PROVE  Counted(rows) = [v \in S |-> 1]
<1>1. Range(rows) = S
  BY ListLength DEF Range, IsListing
<1>2. ASSUME NEW v \in S PROVE Cardinality({i \in 1..Len(rows) : rows[i] = v}) = 1
  <2>1. PICK i \in 1..Len(rows) : rows[i] = v
    BY DEF IsListing
  <2>2. {j \in 1..Len(rows) : rows[j] = v} = {i}
    BY <2>1 DEF IsListing
  <2>3. QED
    BY <2>2, FS_Singleton
<1>3. QED
  BY <1>1, <1>2 DEF Counted

\* A reader whose stream ended delivers its rows.
LEMMA Delivers ==
  ASSUME NEW q, NEW toks, NEW n, NEW rd, NEW dl, InHand(q, toks, n, rd, dl),
         NEW r \in Readers, rd[r].busy, IsListing(rd[r].rows, ClaimRows(q, rd[r].claim))
  PROVE  InHand(q, toks, n, [rd EXCEPT ![r] = NoReader], dl (+) Counted(rd[r].rows))
<1> DEFINE rd2 == [rd EXCEPT ![r] = NoReader]
           H == Holdings(q, rd)
           H2 == Holdings(q, rd2)
           D == DOMAIN dl
           new == ClaimRows(q, rd[r].claim)
           A == RowsOfFirst(q, toks, n)
           one == [v \in new |-> 1]
           dl2 == dl (+) one
<1>1. IsRedemption(q, rd[r])
  BY BusyReader
<1>2. Counted(rd[r].rows) = one
  BY <1>1, ListingsCountOnce DEF IsRedemption
<1>3. rd = [s \in Readers |-> rd[s]] /\ dl = [v \in D |-> 1] /\ Accounted(H, D, A)
  BY DEF InHand
<1>4. rd2 = [s \in Readers |-> rd2[s]] /\ rd2[r] = NoReader
      /\ \A s \in Readers : s # r => rd2[s] = rd[s]
  BY <1>3
<1> HIDE DEF rd2
<1>5. H[r] = new /\ H2[r] = {} /\ \A s \in Readers : s # r => H2[s] = H[s]
  <2>1. H[r] = new /\ H2[r] = {}
    BY <1>1, <1>4, NoReaderIsIdle, RedemptionsAreBusy DEF Holdings
  <2>2. \A s \in Readers : s # r => H2[s] = H[s]
    BY <1>4 DEF Holdings
  <2>3. QED
    BY <2>1, <2>2
<1> HIDE DEF H, H2, new, A, D
<1>6. D \cap new = {}
  BY <1>3, <1>5 DEF Accounted
<1>7. dl2 = [v \in D \cup new |-> 1]
  <2>1. dl2 = [e \in (DOMAIN dl) \cup (DOMAIN one) |->
                (IF e \in DOMAIN dl THEN dl[e] ELSE 0) + (IF e \in DOMAIN one THEN one[e] ELSE 0)]
    BY DEF (+)
  <2>2. DOMAIN dl = D /\ DOMAIN one = new
    BY DEF D
  <2>3. \A e \in D \cup new :
          (IF e \in D THEN dl[e] ELSE 0) + (IF e \in new THEN one[e] ELSE 0) = 1
    BY <1>3, <1>6
  <2> HIDE DEF one, dl2
  <2>4. QED
    BY <2>1, <2>2, <2>3
<1> HIDE DEF dl2, one
<1>8. DOMAIN dl2 = D \cup new /\ dl2 = [v \in DOMAIN dl2 |-> 1]
  BY <1>7
<1>9. Accounted(H2, D \cup new, A)
  <2>1. \A s \in Readers : H2[s] \cap (D \cup new) = {}
    BY <1>3, <1>5 DEF Accounted
  <2>2. \A s, t \in Readers : s # t => H2[s] \cap H2[t] = {}
    BY <1>3, <1>5 DEF Accounted
  <2>3. A = (D \cup new) \cup UNION {H2[s] : s \in Readers}
    BY <1>3, <1>5 DEF Accounted
  <2>4. QED
    BY <2>1, <2>2, <2>3 DEF Accounted
<1>10. Accounted(Holdings(q, rd2), DOMAIN dl2, RowsOfFirst(q, toks, n))
  BY <1>8, <1>9 DEF H2, A
<1>11. \A s \in Readers : \/ rd2[s] = NoReader
                          \/ IsRedemption(q, rd2[s]) /\ IsRun(toks, n, rd2[s].claim)
  BY <1>4 DEF InHand
<1>12. InHand(q, toks, n, rd2, dl2)
  BY <1>4, <1>8, <1>10, <1>11 DEF InHand
<1>13. QED
  BY <1>2, <1>12 DEF rd2, dl2

\* The scan of the call.
LEMMA WholeScanOf == WholeScan = ScanOf(asking)
BY DEF WholeScan, ScanOf

\* Nothing is delivered in the empty bag.
LEMMA EmptyBagIsEmpty == DOMAIN EmptyBag = {} /\ EmptyBag = [v \in {} |-> 1]
BY DEF EmptyBag, SetToBag

\* Before anything is claimed.
LEMMA FreshInHand ==
  ASSUME NEW q, NEW toks, Len(toks) \in Nat
  PROVE  InHand(q, toks, 0, [r \in Readers |-> NoReader], EmptyBag)
<1> DEFINE rd == [r \in Readers |-> NoReader]
<1>1. rd = [r \in Readers |-> rd[r]] /\ \A r \in Readers : rd[r] = NoReader
  OBVIOUS
<1> HIDE DEF rd
<1>2. \A r \in Readers : Holdings(q, rd)[r] = {}
  BY <1>1, NoReaderIsIdle DEF Holdings
<1>3. RowsOfFirst(q, toks, 0) = {}
  <2>1. 1..0 = {}
    OBVIOUS
  <2>2. QED
    BY <2>1 DEF RowsOfFirst
<1>4. Accounted(Holdings(q, rd), {}, {})
  BY <1>2 DEF Accounted
<1>5. DOMAIN EmptyBag = {} /\ EmptyBag = [v \in DOMAIN EmptyBag |-> 1]
  BY EmptyBagIsEmpty
<1>6. Accounted(Holdings(q, rd), DOMAIN EmptyBag, RowsOfFirst(q, toks, 0))
  BY <1>3, <1>4, <1>5
<1>7. 0 \in Nat /\ 0 <= Len(toks)
  OBVIOUS
<1>8. InHand(q, toks, 0, rd, EmptyBag)
  BY <1>1, <1>5, <1>6, <1>7 DEF InHand
<1>9. QED
  BY <1>8 DEF rd

\* At the end every row of the scan was delivered, once.
LEMMA ReadIsWhole ==
  ASSUME SplitAssumption, PInv, PlanInv, ReadInv
  PROVE  SplitRowsOnce
<1> SUFFICES ASSUME planned = "read" PROVE delivered = [v \in WholeScan |-> 1]
  BY DEF SplitRowsOnce
<1>1. IsPlanned(asking, tokens)
  BY TokensArePlanned
<1>2. /\ InHand(asking, tokens, claimed, reader, delivered)
      /\ claimed = Len(tokens) /\ Idle(reader)
  BY DEF ReadInv
<1>3. /\ delivered = [v \in DOMAIN delivered |-> 1]
      /\ RowsOfFirst(asking, tokens, Len(tokens))
           = DOMAIN delivered \cup UNION {Holdings(asking, reader)[r] : r \in Readers}
  BY <1>2 DEF InHand, Accounted
<1>4. \A r \in Readers : Holdings(asking, reader)[r] = {}
  BY <1>2 DEF Idle, Holdings, Held
<1>5. RowsOfFirst(asking, tokens, Len(tokens)) = ScanOf(asking)
  BY <1>1 DEF IsPlanned, RowsOfFirst
<1>6. DOMAIN delivered = ScanOf(asking)
  <2> DEFINE H(r) == Holdings(asking, reader)[r]
  <2>1. \A r \in Readers : H(r) = {}
    BY <1>4
  <2>2. ScanOf(asking) = DOMAIN delivered \cup UNION {H(r) : r \in Readers}
    BY <1>3, <1>5
  <2> HIDE DEF H
  <2>3. UNION {H(r) : r \in Readers} = {}
    BY <2>1
  <2>4. QED
    BY <2>2, <2>3
<1>7. QED
  BY <1>3, <1>6, WholeScanOf

\* At first nothing is planned or claimed.
LEMMA ReadInvInit == ASSUME SplitAssumption, SplitInit PROVE PlanInv /\ ReadInv
<1>1. PlanInv
  <2>1. tokens = <<>> /\ Len(tokens) = 0
    BY DEF SplitInit
  <2>2. kPerPage = 4 /\ 0 * kPerPage = 0
    BY DEF kPerPage
  <2>3. \A i \in 1..Len(tokens) : FALSE
    BY <2>1
  <2>4. pages = 0 /\ cursor = NoCursor /\ planned = "planning"
    BY DEF SplitInit
  <2>5. Len(tokens) = pages * kPerPage
    BY <2>1, <2>2, <2>4
  <2>6. QED
    BY <2>1, <2>3, <2>4, <2>5 DEF PlanInv
<1>2. ReadInv
  BY DEF SplitInit, ReadInv, Fresh
<1>3. QED
  BY <1>1, <1>2

\* Planning leaves the readers idle.
LEMMA ReadInvPlans ==
  ASSUME SplitAssumption, PInv, PlanInv, ReadInv, PInv', NEW w \in DOMAIN fleet, Plan(w)
  PROVE  ReadInv'
<1>1. /\ planned = "planning" /\ planned' \in {"planning", "reading"}
      /\ UNCHANGED <<claimed, reader, delivered>>
  BY DEF Plan
<1>2. Fresh /\ Fresh'
  BY <1>1 DEF ReadInv, Fresh
<1>3. Len(tokens') \in Nat
  BY ListLength DEF PInv, TokensAreBound
<1>4. InHand(asking', tokens', claimed', reader', delivered')
  <2>1. claimed' = 0 /\ reader' = [r \in Readers |-> NoReader] /\ delivered' = EmptyBag
    BY <1>1, <1>2 DEF Fresh
  <2>2. InHand(asking', tokens', 0, [r \in Readers |-> NoReader], EmptyBag)
    BY <1>3, FreshInHand
  <2>3. QED
    BY <2>1, <2>2
<1>5. QED
  BY <1>1, <1>2, <1>4 DEF ReadInv

\* A reader takes tokens.
LEMMA ReadInvClaims ==
  ASSUME SplitAssumption, PInv, PlanInv, ReadInv, NEW r \in Readers, NEW w \in DOMAIN fleet,
         Claim(r, w)
  PROVE  ReadInv'
<1>1. PICK k \in 1..MaxClaim :
        /\ claimed + k <= Len(tokens)
        /\ Redeem(r, SubSeq(tokens, claimed + 1, claimed + k), w)
        /\ claimed' = claimed + k
  BY DEF Claim
<1>2. planned = "reading" /\ ~reader[r].busy /\ UNCHANGED <<asking, tokens, delivered>>
  BY DEF Claim
<1>3. k \in Nat \ {0}
  BY DEF SplitAssumption
<1>4. IsPlanned(asking, tokens) /\ asking.fn # "split_endless_cursor"
  BY <1>2, TokensArePlanned
<1>5. InHand(asking, tokens, claimed, reader, delivered) /\ claimed \in Nat /\ Len(tokens) \in Nat
  BY <1>2, <1>4 DEF ReadInv, InHand, IsPlanned
<1> DEFINE claim == SubSeq(tokens, claimed + 1, claimed + k)
           d == Redemption(claim)
<1>6. IsTaken(asking, tokens, claimed, k, claim)
  BY <1>1, <1>3, <1>4, <1>5, TakenTokens
<1> HIDE DEF claim
<1>7. /\ IsClaim(asking, claim) /\ IsRun(tokens, claimed + k, claim) /\ Len(claim) = k
      /\ ClaimRows(asking, claim) \cap RowsOfFirst(asking, tokens, claimed) = {}
      /\ RowsOfFirst(asking, tokens, claimed + k)
           = RowsOfFirst(asking, tokens, claimed) \cup ClaimRows(asking, claim)
  BY <1>6 DEF IsTaken
<1>8. IsRedemption(asking, d) /\ d.claim = claim
  BY <1>4, <1>7, RedemptionStarts DEF PInv
<1>9. Len(claim) \in Nat /\ Redeem(r, claim, w)
  BY <1>1, <1>3, <1>7 DEF claim
<1>10. \/ planned' \in {"invalid", "expired", "failed"}
       \/ planned' = planned /\ reader' = [reader EXCEPT ![r] = d]
  BY <1>9, RedeemOutcomes
<1> HIDE DEF d
<1>11. CASE planned' \in {"invalid", "expired", "failed"}
  BY <1>11 DEF ReadInv
<1>12. CASE planned' = planned /\ reader' = [reader EXCEPT ![r] = d]
  <2>1. InHand(asking, tokens, claimed + k, [reader EXCEPT ![r] = d], delivered)
    BY <1>1, <1>2, <1>3, <1>5, <1>7, <1>8, Takes
  <2>2. InHand(asking', tokens', claimed', reader', delivered')
    BY <1>1, <1>2, <1>12, <2>1
  <2>3. QED
    BY <1>2, <1>12, <2>2 DEF ReadInv
<1>13. QED
  BY <1>10, <1>11, <1>12

\* A claim is started over.
LEMMA ReadInvDies ==
  ASSUME SplitAssumption, PInv, PlanInv, ReadInv, NEW r \in Readers, NEW w \in DOMAIN fleet,
         WorkerDies(r, w)
  PROVE  ReadInv'
<1> DEFINE claim == reader[r].claim
           d == Redemption(claim)
<1>1. /\ planned = "reading" /\ reader[r].busy /\ Redeem(r, claim, w)
      /\ UNCHANGED <<asking, tokens, claimed, delivered>>
  BY DEF WorkerDies
<1>2. asking.fn # "split_endless_cursor"
  BY <1>1, TokensArePlanned
<1>3. InHand(asking, tokens, claimed, reader, delivered)
  BY <1>1 DEF ReadInv
<1>4. IsClaim(asking, claim) /\ Len(claim) \in Nat
  BY <1>1, <1>3, BusyReader DEF IsRedemption, IsClaim
<1>5. IsRedemption(asking, d) /\ d.claim = claim
  BY <1>2, <1>4, RedemptionStarts DEF PInv
<1>6. \/ planned' \in {"invalid", "expired", "failed"}
      \/ planned' = planned /\ reader' = [reader EXCEPT ![r] = d]
  BY <1>1, <1>4, RedeemOutcomes
<1> HIDE DEF d
<1>7. CASE planned' \in {"invalid", "expired", "failed"}
  BY <1>7 DEF ReadInv
<1>8. CASE planned' = planned /\ reader' = [reader EXCEPT ![r] = d]
  <2>1. InHand(asking, tokens, claimed, [reader EXCEPT ![r] = d], delivered)
    BY <1>1, <1>3, <1>5, GoesOn
  <2>2. InHand(asking', tokens', claimed', reader', delivered')
    BY <1>1, <1>8, <2>1
  <2>3. QED
    BY <1>1, <1>8, <2>2 DEF ReadInv
<1>9. QED
  BY <1>6, <1>7, <1>8

\* A batch is handed out.
LEMMA ReadInvTicks ==
  ASSUME SplitAssumption, PInv, PlanInv, ReadInv, NEW r \in Readers, Tick(r)
  PROVE  ReadInv'
<1>1. /\ planned = "reading" /\ reader[r].busy
      /\ UNCHANGED <<asking, tokens, claimed, delivered>>
  BY DEF Tick
<1>2. PICK b \in next_batch(reader[r]) :
        \/ planned' = "failed"
        \/ planned' = planned /\ reader' = [reader EXCEPT ![r] = b.next]
  BY DEF Tick
<1>3. asking.fn # "split_endless_cursor"
  BY <1>1, TokensArePlanned
<1>4. InHand(asking, tokens, claimed, reader, delivered)
  BY <1>1 DEF ReadInv
<1>5. IsRedemption(asking, reader[r])
  BY <1>1, <1>4, BusyReader
<1>6. IsRedemption(asking, b.next) /\ b.next.claim = reader[r].claim
  BY <1>2, <1>3, <1>5, BatchesAreRead DEF PInv
<1>7. CASE planned' = "failed"
  BY <1>7 DEF ReadInv
<1>8. CASE planned' = planned /\ reader' = [reader EXCEPT ![r] = b.next]
  <2> DEFINE d == b.next
  <2>1. IsRedemption(asking, d) /\ d.claim = reader[r].claim
        /\ reader' = [reader EXCEPT ![r] = d]
    BY <1>6, <1>8
  <2> HIDE DEF d
  <2>2. InHand(asking, tokens, claimed, [reader EXCEPT ![r] = d], delivered)
    BY <1>1, <1>4, <2>1, GoesOn
  <2>3. InHand(asking', tokens', claimed', reader', delivered')
    BY <1>1, <2>1, <2>2
  <2>4. QED
    BY <1>1, <1>8, <2>3 DEF ReadInv
<1>9. QED
  BY <1>2, <1>7, <1>8

\* A stream ends.
LEMMA ReadInvDelivers ==
  ASSUME SplitAssumption, PInv, PlanInv, ReadInv, NEW r \in Readers, StreamEnds(r)
  PROVE  ReadInv'
<1>1. /\ planned = "reading" /\ reader[r].busy /\ next_batch(reader[r]) = {}
      /\ UNCHANGED <<asking, tokens, claimed, planned>>
      /\ reader' = [reader EXCEPT ![r] = NoReader]
      /\ delivered' = delivered (+) Counted(reader[r].rows)
  BY DEF StreamEnds, Counted
<1>2. asking.fn # "split_endless_cursor"
  BY <1>1, TokensArePlanned
<1>3. InHand(asking, tokens, claimed, reader, delivered)
  BY <1>1 DEF ReadInv
<1>4. IsRedemption(asking, reader[r])
  BY <1>1, <1>3, BusyReader
<1>5. IsListing(reader[r].rows, ClaimRows(asking, reader[r].claim))
  BY <1>1, <1>2, <1>4, BatchesAreRead DEF PInv
<1>6. InHand(asking, tokens, claimed, [reader EXCEPT ![r] = NoReader],
             delivered (+) Counted(reader[r].rows))
  BY <1>1, <1>3, <1>5, Delivers
<1>7. InHand(asking', tokens', claimed', reader', delivered')
  BY <1>1, <1>6
<1>8. QED
  BY <1>1, <1>7 DEF ReadInv

\* A redemption does not go back to planning.
LEMMA RedeemsReading ==
  ASSUME NEW r, NEW claim, NEW w, Redeem(r, claim, w), planned = "reading"
  PROVE  planned' # "planning"
BY DEF Redeem, open_error

\* What reading a plan keeps.
LEMMA ReadStep ==
  ASSUME SplitAssumption, PInv, PlanInv, ReadInv, PInv', [SplitNext]_splitVars
  PROVE  PlanInv' /\ ReadInv'
<1>1. ASSUME NEW w \in DOMAIN fleet, Plan(w) PROVE PlanInv' /\ ReadInv'
  BY <1>1, PlanInvPlans, ReadInvPlans
<1>2. ASSUME GiveUp PROVE PlanInv' /\ ReadInv'
  <2>1. UNCHANGED <<asking, tokens, cursor, pages>> /\ planned' = "refused"
    BY <1>2 DEF GiveUp
  <2>2. QED
    BY <2>1, PlanInvKept DEF ReadInv
<1>3. ASSUME NEW r \in Readers, NEW w \in DOMAIN fleet, Claim(r, w) PROVE PlanInv' /\ ReadInv'
  <2>1. ReadInv'
    BY <1>3, ReadInvClaims
  <2>2. UNCHANGED <<asking, tokens, cursor, pages>> /\ planned = "reading"
    BY <1>3 DEF Claim
  <2>3. planned' # "planning"
    <3>1. PICK k \in 1..MaxClaim :
        /\ claimed + k <= Len(tokens)
        /\ Redeem(r, SubSeq(tokens, claimed + 1, claimed + k), w)
      BY <1>3 DEF Claim
    <3>2. QED
      BY <2>2, <3>1, RedeemsReading
  <2>4. QED
    BY <2>1, <2>2, <2>3, PlanInvKept
<1>4. ASSUME NEW r \in Readers, NEW w \in DOMAIN fleet, WorkerDies(r, w) PROVE PlanInv' /\ ReadInv'
  <2>1. ReadInv'
    BY <1>4, ReadInvDies
  <2>2. UNCHANGED <<asking, tokens, cursor, pages>> /\ planned = "reading"
        /\ Redeem(r, reader[r].claim, w)
    BY <1>4 DEF WorkerDies
  <2>3. planned' # "planning"
    BY <2>2, RedeemsReading
  <2>4. QED
    BY <2>1, <2>2, <2>3, PlanInvKept
<1>5. ASSUME NEW r \in Readers, Tick(r) PROVE PlanInv' /\ ReadInv'
  <2>1. ReadInv'
    BY <1>5, ReadInvTicks
  <2>2. UNCHANGED <<asking, tokens, cursor, pages>> /\ planned = "reading"
        /\ planned' \in {"failed", planned}
    BY <1>5 DEF Tick
  <2>3. QED
    BY <2>1, <2>2, PlanInvKept
<1>6. ASSUME NEW r \in Readers, StreamEnds(r) PROVE PlanInv' /\ ReadInv'
  <2>1. ReadInv'
    BY <1>6, ReadInvDelivers
  <2>2. UNCHANGED <<asking, tokens, cursor, pages, planned>> /\ planned = "reading"
    BY <1>6 DEF StreamEnds
  <2>3. QED
    BY <2>1, <2>2, PlanInvKept
<1>7. ASSUME ScanEnds PROVE PlanInv' /\ ReadInv'
  <2>1. /\ UNCHANGED <<asking, tokens, cursor, pages, claimed, reader, delivered>>
        /\ planned = "reading" /\ planned' = "read" /\ claimed = Len(tokens)
        /\ \A r \in Readers : ~reader[r].busy
    BY <1>7 DEF ScanEnds
  <2>2. PlanInv'
    BY <2>1, PlanInvKept
  <2>3. ReadInv'
    BY <2>1 DEF ReadInv, Idle
  <2>4. QED
    BY <2>2, <2>3
<1>8. ASSUME UNCHANGED splitVars PROVE PlanInv' /\ ReadInv'
  <2>1. UNCHANGED <<asking, tokens, cursor, pages, claimed, reader, delivered, planned>>
    BY <1>8 DEF splitVars
  <2>2. PlanInv'
    BY <2>1, PlanInvKept
  <2>3. ReadInv'
    BY <2>1 DEF ReadInv, Idle, Fresh
  <2>4. QED
    BY <2>2, <2>3
<1>9. QED
  BY <1>1, <1>2, <1>3, <1>4, <1>5, <1>6, <1>7, <1>8 DEF SplitNext

\* For any calls, readers, claim sizes and fleets, however a plan is paged, its
\* splits interleaved, and read again after a worker died: a scan that ends has
\* delivered each row of the unplanned scan exactly once (SplitFunction::divide,
\* SplitPaginated::plan, RangeProducer::next_batch, init with split_tokens).
THEOREM RowsOnce == ASSUME SplitAssumption PROVE SplitSpec => []SplitRowsOnce
<1> DEFINE Inv == PInv /\ PlanInv /\ ReadInv
<1>1. SplitInit => Inv
  BY SplitInitHolds, ReadInvInit
<1>2. Inv /\ [SplitNext]_splitVars => Inv'
  BY SplitStep, ReadStep
<1>3. Inv => SplitRowsOnce
  BY ReadIsWhole
<1>4. QED
  BY <1>1, <1>2, <1>3, PTL DEF SplitSpec

-----------------------------------------------------------------------------
(* How many rows there are                                                 *)

\* A list without repetitions is as long as the set it lists is large.
LEMMA ListingCounts ==
  ASSUME NEW s, NEW S, IsList(s), IsListing(s, S)
  PROVE  IsFiniteSet(S) /\ Cardinality(S) = Len(s)
<1> DEFINE n == Len(s)
<1>1. n \in Nat /\ s = [i \in 1..n |-> s[i]]
  BY ListLength
<1>2. s \in [1..n -> S] /\ \A i, j \in 1..n : s[i] = s[j] => i = j
  BY <1>1 DEF IsListing
<1>3. \A x \in S : \E i \in 1..n : s[i] = x
  BY DEF IsListing
<1> HIDE DEF n
<1>4. s \in Bijection(1..n, S)
  BY <1>2, <1>3 DEF Bijection, Injection, Surjection, IsInjective
<1>5. ExistsBijection(1..n, S)
  BY <1>4 DEF ExistsBijection
<1>6. IsFiniteSet(1..n) /\ Cardinality(1..n) = n
  BY <1>1, FS_Interval
<1>7. QED
  BY <1>5, <1>6, FS_Bijection DEF n

\* The two shapes of a fold that adds up F.
SumStep(S, F, h) ==
  [s \in SUBSET S |-> IF s = {} THEN 0
                      ELSE F[CHOOSE x \in s : TRUE] + h[s \ {CHOOSE x \in s : TRUE}]]

SumStepLast(S, F, h) ==
  [s \in SUBSET S |-> IF s = {} THEN 0
                      ELSE h[s \ {CHOOSE x \in s : TRUE}] + F[CHOOSE x \in s : TRUE]]

\* V is what the parts of S add up to.
AddsUp(S, F, V) ==
  /\ V = [s \in SUBSET S |-> V[s]] /\ V[{}] = 0
  /\ \A s \in SUBSET S : V[s] \in Nat
  /\ \A x \in S : F[x] \in Nat
  /\ \A s \in SUBSET S : \A x \in s : V[s] = F[x] + V[s \ {x}]

\* A fold over a finite set is what its parts add up to.
LEMMA SumIsUnique ==
  ASSUME NEW S, IsFiniteSet(S), NEW F, NEW V, NEW g, AddsUp(S, F, V),
         g = SumStep(S, F, g) \/ g = SumStepLast(S, F, g)
  PROVE  g[S] = V[S]
<1> DEFINE Bad == {Cardinality(s) : s \in {t \in SUBSET S : g[t] # V[t]}}
<1>1. \A s \in SUBSET S : IsFiniteSet(s) /\ Cardinality(s) \in Nat
  BY FS_Subset, FS_CardinalityType
<1>2. Bad \in SUBSET Nat
  BY <1>1
<1>3. ASSUME g[S] # V[S] PROVE FALSE
  <2>1. Bad # {}
    <3>1. S \in {t \in SUBSET S : g[t] # V[t]}
      BY <1>3
    <3>2. Cardinality(S) \in Bad
      BY <3>1
    <3>3. QED
      BY <3>2
  <2> HIDE DEF Bad
  <2>2. PICK m \in Bad : \A j \in Bad : m <= j
    BY <1>2, <2>1, LeastOf
  <2>3. PICK s \in SUBSET S : g[s] # V[s] /\ m = Cardinality(s)
    BY <2>2 DEF Bad
  <2>4. g[{}] = 0
    BY DEF SumStep, SumStepLast
  <2>5. s # {}
    BY <2>3, <2>4 DEF AddsUp
  <2> DEFINE x == CHOOSE y \in s : TRUE
             t == s \ {x}
  <2>6. x \in s
    BY <2>5
  <2>7. g[s] = F[x] + g[t] \/ g[s] = g[t] + F[x]
    BY <2>5 DEF SumStep, SumStepLast
  <2> HIDE DEF x
  <2>8. V[s] = F[x] + V[t] /\ F[x] \in Nat
    BY <2>6 DEF AddsUp
  <2>9. t \in SUBSET S /\ IsFiniteSet(s) /\ Cardinality(s) \in Nat /\ Cardinality(t) \in Nat
    BY <1>1
  <2>10. Cardinality(t) = Cardinality(s) - 1
    BY <2>6, <2>9, FS_RemoveElement
  <2> HIDE DEF t
  <2>11. g[t] = V[t] /\ V[t] \in Nat
    <3>1. g[t] # V[t] => Cardinality(t) \in Bad
      BY <2>9 DEF Bad
    <3>2. V[t] \in Nat
      BY <2>9 DEF AddsUp
    <3>3. QED
      BY <2>2, <2>3, <2>9, <2>10, <3>1, <3>2
  <2>12. QED
    BY <2>3, <2>7, <2>8, <2>11
<1>4. QED
  BY <1>3

\* There is such a fold: V itself.
LEMMA SumExists ==
  ASSUME NEW S, NEW F, NEW V, AddsUp(S, F, V)
  PROVE  V = SumStep(S, F, V) /\ V = SumStepLast(S, F, V)
<1>1. ASSUME NEW s \in SUBSET S, s # {}
      PROVE  LET x == CHOOSE y \in s : TRUE
             IN V[s] = F[x] + V[s \ {x}] /\ V[s] = V[s \ {x}] + F[x]
  <2> DEFINE x == CHOOSE y \in s : TRUE
             t == s \ {x}
  <2>1. x \in s
    BY <1>1
  <2> HIDE DEF x
  <2>2. V[s] = F[x] + V[t] /\ F[x] \in Nat /\ V[t] \in Nat
    BY <2>1 DEF AddsUp
  <2> HIDE DEF t
  <2>3. V[s] = F[x] + V[t] /\ V[s] = V[t] + F[x]
    BY <2>2
  <2>4. QED
    BY <2>3 DEF x, t
<1>2. V = [s \in SUBSET S |-> V[s]] /\ V[{}] = 0
  BY DEF AddsUp
<1>3. ASSUME NEW s \in SUBSET S
      PROVE  /\ V[s] = IF s = {} THEN 0
                       ELSE F[CHOOSE x \in s : TRUE] + V[s \ {CHOOSE x \in s : TRUE}]
             /\ V[s] = IF s = {} THEN 0
                       ELSE V[s \ {CHOOSE x \in s : TRUE}] + F[CHOOSE x \in s : TRUE]
  BY <1>1, <1>2
<1>4. V = SumStep(S, F, V)
  BY <1>2, <1>3 DEF SumStep
<1>5. V = SumStepLast(S, F, V)
  BY <1>2, <1>3 DEF SumStepLast
<1>6. QED
  BY <1>4, <1>5

\* SumFunction
LEMMA SumFunctionIs ==
  ASSUME NEW F, NEW S, S = DOMAIN F, IsFiniteSet(S), NEW V, AddsUp(S, F, V)
  PROVE  SumFunction(F) = V[S]
<1> DEFINE g == CHOOSE h : h = SumStep(S, F, h)
<1>1. V = SumStep(S, F, V)
  BY SumExists
<1>2. g = SumStep(S, F, g)
  BY <1>1
<1>3. SumFunction(F) = g[S]
  BY DEF SumFunction, SumFunctionOnSet, FoldFunctionOnSet, MapThenFoldSet, SumStep
<1> HIDE DEF g
<1>4. g[S] = V[S]
  BY <1>2, SumIsUnique
<1>5. QED
  BY <1>3, <1>4

\* What the splits of a plan say they have, added up.
Promised(q, toks) == FoldSeq(LAMBDA t, sum : sum + Estimate(q.fn, t.payload), 0, toks)

\* FoldSeq, over the tokens of a plan.
LEMMA PromisedIs ==
  ASSUME NEW q, NEW toks, NEW S, S = DOMAIN toks, IsFiniteSet(S), NEW F,
         F = [i \in S |-> Estimate(q.fn, toks[i].payload)], NEW V, AddsUp(S, F, V)
  PROVE  Promised(q, toks) = V[S]
<1> DEFINE Step(h) == [s \in SUBSET S |-> IF s = {} THEN 0
                       ELSE h[s \ {CHOOSE x \in s : TRUE}]
                              + Estimate(q.fn, toks[CHOOSE x \in s : TRUE].payload)]
           g == CHOOSE h : h = Step(h)
<1>1. ASSUME NEW h PROVE Step(h) = SumStepLast(S, F, h)
  <2>1. \A s \in SUBSET S : s # {} =>
          F[CHOOSE x \in s : TRUE] = Estimate(q.fn, toks[CHOOSE x \in s : TRUE].payload)
    <3>1. ASSUME NEW s \in SUBSET S, s # {}
          PROVE  F[CHOOSE x \in s : TRUE] = Estimate(q.fn, toks[CHOOSE x \in s : TRUE].payload)
      <4> DEFINE x == CHOOSE y \in s : TRUE
      <4>1. x \in S
        BY <3>1
      <4> HIDE DEF x
      <4>2. F[x] = Estimate(q.fn, toks[x].payload)
        BY <4>1
      <4>3. QED
        BY <4>2 DEF x
    <3>2. QED
      BY <3>1
  <2>2. QED
    BY <2>1 DEF SumStepLast
<1>2. V = Step(V)
  <2>1. V = SumStepLast(S, F, V)
    BY SumExists
  <2> HIDE DEF Step
  <2>2. Step(V) = SumStepLast(S, F, V)
    BY <1>1
  <2>3. QED
    BY <2>1, <2>2
<1>3. g = Step(g)
  <2> HIDE DEF Step
  <2>1. QED
    BY <1>2
<1>4. Promised(q, toks) = g[S]
  BY DEF Promised, FoldSeq, FoldFunction, FoldFunctionOnSet, MapThenFoldSet
<1>5. g = SumStepLast(S, F, g)
  BY <1>1, <1>3
<1> HIDE DEF g
<1>6. g[S] = V[S]
  BY <1>5, SumIsUnique
<1>7. QED
  BY <1>4, <1>6

\* A split's estimate, where it is exact, is the number of its rows.
LEMMA EstimateCounts ==
  ASSUME NEW q, NEW p, PayloadOK(q, p), q.fn \in RangeFns \cup {"split_partitioned"}
  PROVE  /\ IsFiniteSet(RowsFor(q, p)) /\ Estimate(q.fn, p) \in Nat
         /\ Cardinality(RowsFor(q, p)) = Estimate(q.fn, p)
<1>1. CASE q.fn = "split_partitioned"
  <2>1. p.rows \in Nat /\ p.country \in Nat
    BY <1>1 DEF PayloadOK
  <2>2. RowsFor(q, p) = {<<p.country, p.country * 100 + k>> : k \in 1..p.rows}
        /\ Estimate(q.fn, p) = p.rows
    BY <1>1 DEF RowsFor, Estimate
  <2>3. IsList(CountryRows(p)) /\ IsListing(CountryRows(p), RowsFor(q, p))
    BY <2>1, <2>2, CountryLists
  <2>4. Len(CountryRows(p)) = p.rows
    <3> DEFINE n == p.rows
    <3>1. n \in Nat /\ CountryRows(p) = [k \in 1..n |-> <<p.country, p.country * 100 + k>>]
      BY <2>1 DEF CountryRows
    <3> HIDE DEF n
    <3>2. QED
      BY <3>1 DEF n
  <2>5. QED
    BY <2>1, <2>2, <2>3, <2>4, ListingCounts
<1>2. CASE q.fn \in RangeFns
  <2>1. IsRange(p) /\ RowsFor(q, p) = p.first..(p.last - 1) /\ Estimate(q.fn, p) = p.last - p.first
    BY <1>2 DEF PayloadOK, RowsFor, Estimate, RangeFns, RangeOf
  <2> DEFINE a == p.first
             b == p.last - 1
  <2>2. a \in Int /\ b \in Int /\ Estimate(q.fn, p) \in Nat
        /\ (IF a > b THEN 0 ELSE b - a + 1) = Estimate(q.fn, p)
    BY <2>1 DEF IsRange
  <2>3. RowsFor(q, p) = a..b
    BY <2>1
  <2> HIDE DEF a, b
  <2>4. QED
    BY <2>2, <2>3, FS_Interval
<1>3. QED
  BY <1>1, <1>2

\* So the estimates of a plan add up to the rows of the scan.
LEMMA PlansPromise ==
  ASSUME NEW q, NEW toks, IsPlanned(q, toks), q.fn \in RangeFns \cup {"split_partitioned"}
  PROVE  /\ IsFiniteSet(ScanOf(q))
         /\ Promised(q, toks) = Cardinality(ScanOf(q))
<1> DEFINE S == 1..Len(toks)
           R(i) == RowsFor(q, toks[i].payload)
           U(s) == UNION {R(i) : i \in s}
           F == [i \in S |-> Estimate(q.fn, toks[i].payload)]
           V == [s \in SUBSET S |-> Cardinality(U(s))]
<1>1. Len(toks) \in Nat /\ DOMAIN toks = S
  BY ListLength DEF IsPlanned
<1>2. IsFiniteSet(S)
  BY <1>1, FS_Interval
<1>3. \A i \in S : IsFiniteSet(R(i)) /\ F[i] \in Nat /\ Cardinality(R(i)) = F[i]
  BY EstimateCounts DEF IsPlanned
<1>4. \A i, j \in S : i # j => R(i) \cap R(j) = {}
  BY DEF IsPlanned
<1>5. ScanOf(q) = U(S)
  BY DEF IsPlanned
<1> HIDE DEF R, S
<1>6. ASSUME NEW s \in SUBSET S PROVE IsFiniteSet(U(s)) /\ Cardinality(U(s)) \in Nat
  <2>1. IsFiniteSet(s)
    BY <1>2, FS_Subset
  <2> DEFINE A == {R(i) : i \in s}
  <2>2. IsFiniteSet(A)
    <3> DEFINE f == [i \in s |-> R(i)]
    <3>1. f \in Surjection(s, A)
      BY DEF Surjection
    <3> HIDE DEF f, A
    <3>2. QED
      BY <2>1, <3>1, FS_Surjection
  <2>3. \A T \in A : IsFiniteSet(T)
    BY <1>3
  <2> HIDE DEF A
  <2>4. IsFiniteSet(UNION A)
    BY <2>2, <2>3, FS_UNION
  <2>5. QED
    BY <2>4, FS_CardinalityType DEF A
<1>7. ASSUME NEW s \in SUBSET S, NEW x \in s
      PROVE  Cardinality(U(s)) = F[x] + Cardinality(U(s \ {x}))
  <2> DEFINE T == U(s \ {x})
  <2>1. U(s) = T \cup R(x) /\ T \cap R(x) = {}
    <3>1. U(s) = T \cup R(x)
      OBVIOUS
    <3>2. T \cap R(x) = {}
      BY <1>4
    <3>3. QED
      BY <3>1, <3>2
  <2>2. IsFiniteSet(T) /\ Cardinality(T) \in Nat /\ IsFiniteSet(R(x)) /\ x \in S
        /\ Cardinality(R(x)) = F[x] /\ F[x] \in Nat
    BY <1>3, <1>6
  <2> HIDE DEF T, U, F
  <2>3. Cardinality(T \cup R(x)) = Cardinality(T) + Cardinality(R(x)) - Cardinality(T \cap R(x))
    BY <2>2, FS_Union
  <2>4. Cardinality(T \cap R(x)) = 0
    BY <2>1, FS_EmptySet
  <2>5. Cardinality(U(s)) = F[x] + Cardinality(T)
    BY <2>1, <2>2, <2>3, <2>4
  <2>6. QED
    BY <2>5 DEF T
<1>8. AddsUp(S, F, V)
  <2>1. V = [s \in SUBSET S |-> V[s]]
    OBVIOUS
  <2>2. V[{}] = 0
    <3>1. U({}) = {}
      OBVIOUS
    <3>2. QED
      BY <3>1, FS_EmptySet
  <2>3. \A s \in SUBSET S : V[s] \in Nat
    BY <1>6
  <2>4. \A x \in S : F[x] \in Nat
    BY <1>3
  <2>5. \A s \in SUBSET S : \A x \in s : V[s] = F[x] + V[s \ {x}]
    <3>1. ASSUME NEW s \in SUBSET S, NEW x \in s PROVE V[s] = F[x] + V[s \ {x}]
      <4> DEFINE t == s \ {x}
      <4>1. t \in SUBSET S /\ Cardinality(U(s)) = F[x] + Cardinality(U(t))
        BY <1>7
      <4> HIDE DEF t, U, F
      <4>2. V[s] = Cardinality(U(s)) /\ V[t] = Cardinality(U(t))
        BY <4>1
      <4> HIDE DEF V
      <4>3. V[s] = F[x] + V[t]
        BY <4>1, <4>2
      <4>4. QED
        BY <4>3 DEF t
    <3>2. QED
      BY <3>1
  <2> HIDE DEF V, F
  <2>6. QED
    BY <2>1, <2>2, <2>3, <2>4, <2>5 DEF AddsUp
<1>9. V[S] = Cardinality(ScanOf(q)) /\ IsFiniteSet(ScanOf(q))
  BY <1>5, <1>6
<1>10. F = [i \in S |-> Estimate(q.fn, toks[i].payload)]
  OBVIOUS
<1> HIDE DEF F, V
<1>11. Promised(q, toks) = V[S]
  BY <1>1, <1>2, <1>8, <1>10, PromisedIs
<1>12. QED
  BY <1>9, <1>11

\* One for each row adds up to the number of rows.
LEMMA OnesAddUp ==
  ASSUME NEW S, IsFiniteSet(S)
  PROVE  SumFunction([v \in S |-> 1]) = Cardinality(S)
<1> DEFINE F == [v \in S |-> 1]
           V == [s \in SUBSET S |-> Cardinality(s)]
<1>1. \A s \in SUBSET S : IsFiniteSet(s) /\ Cardinality(s) \in Nat
  BY FS_Subset, FS_CardinalityType
<1>2. ASSUME NEW s \in SUBSET S, NEW x \in s PROVE V[s] = F[x] + V[s \ {x}]
  <2> DEFINE t == s \ {x}
  <2>1. IsFiniteSet(s) /\ Cardinality(s) \in Nat /\ t \in SUBSET S
    BY <1>1
  <2>2. Cardinality(t) = Cardinality(s) - 1
    BY <2>1, FS_RemoveElement
  <2> HIDE DEF t
  <2>3. V[s] = Cardinality(s) /\ V[t] = Cardinality(t) /\ F[x] = 1
    BY <2>1
  <2> HIDE DEF V, F
  <2>4. V[s] = F[x] + V[t]
    BY <2>1, <2>2, <2>3
  <2>5. QED
    BY <2>4 DEF t
<1>3. V[{}] = 0
  BY FS_EmptySet
<1>4. AddsUp(S, F, V)
  <2>1. V = [s \in SUBSET S |-> V[s]] /\ (\A s \in SUBSET S : V[s] \in Nat) /\ \A x \in S : F[x] \in Nat
    BY <1>1
  <2> HIDE DEF V, F
  <2>2. QED
    BY <1>2, <1>3, <2>1 DEF AddsUp
<1>5. S = DOMAIN F /\ V[S] = Cardinality(S)
  OBVIOUS
<1> HIDE DEF V
<1>6. SumFunction(F) = V[S]
  <2> HIDE DEF F
  <2>1. QED
    BY <1>4, <1>5, SumFunctionIs
<1>7. QED
  BY <1>5, <1>6

\* So a plan whose splits are exact promises what is delivered.
LEMMA EstimatesHold ==
  ASSUME SplitAssumption, PInv, PlanInv, ReadInv
  PROVE  EstimatesAreExact
<1> SUFFICES ASSUME planned = "read", \A i \in 1..Len(tokens) : tokens[i].exact
             PROVE  SumFunction(delivered) = Promised(asking, tokens)
  BY DEF EstimatesAreExact, Promised
<1>1. IsPlanned(asking, tokens) /\ asking.fn # "split_endless_cursor"
  BY TokensArePlanned
<1>2. delivered = [v \in ScanOf(asking) |-> 1]
  BY ReadIsWhole, WholeScanOf DEF SplitRowsOnce
<1>3. asking.fn \in SplitFunctions
  BY RowsAndSplits DEF PInv, CallOK
<1>4. CASE asking.fn \in RangeFns \cup {"split_partitioned"}
  BY <1>1, <1>2, <1>4, PlansPromise, OnesAddUp
<1>5. CASE asking.fn \in {"sequence", "split_echo_filters"}
  <2>1. tokens = <<>>
    <3>1. \A i \in 1..Len(tokens) : FALSE
      BY <1>5 DEF PlanInv
    <3>2. Len(tokens) \in Nat /\ tokens = [i \in 1..Len(tokens) |-> tokens[i]]
      BY <1>1, ListLength DEF IsPlanned
    <3>3. QED
      BY <3>1, <3>2
  <2>2. ScanOf(asking) = {}
    <3>1. 1..Len(tokens) = {}
      BY <2>1
    <3>2. QED
      BY <1>1, <3>1 DEF IsPlanned
  <2>3. SumFunction(delivered) = 0
    BY <1>2, <2>2, OnesAddUp, FS_EmptySet
  <2>4. Promised(asking, tokens) = 0
    <3> DEFINE S == DOMAIN tokens
               F == [i \in S |-> Estimate(asking.fn, tokens[i].payload)]
               V == [s \in SUBSET S |-> 0]
    <3>1. S = {}
      BY <2>1
    <3>2. F = [i \in S |-> Estimate(asking.fn, tokens[i].payload)] /\ V[S] = 0
      OBVIOUS
    <3>3. AddsUp(S, F, V)
      <4>1. /\ V = [s \in SUBSET S |-> V[s]] /\ V[{}] = 0 /\ (\A s \in SUBSET S : V[s] = 0)
        OBVIOUS
      <4>4. \A s \in SUBSET S : V[s] \in Nat
        OBVIOUS
      <4>2. \A s \in SUBSET S : \A x \in s : FALSE
        BY <3>1
      <4>3. \A x \in S : FALSE
        BY <3>1
      <4> HIDE DEF V, F, S
      <4>5. \A x \in S : F[x] \in Nat
        BY <4>3
      <4>6. \A s \in SUBSET S : \A x \in s : V[s] = F[x] + V[s \ {x}]
        BY <4>2
      <4>7. V = [s \in SUBSET S |-> V[s]] /\ V[{}] = 0
        BY <4>1
      <4>8. QED
        BY <4>4, <4>5, <4>6, <4>7 DEF AddsUp
    <3>4. IsFiniteSet(S) /\ S = DOMAIN tokens
      BY <3>1, FS_EmptySet
    <3> HIDE DEF V, F, S
    <3>5. Promised(asking, tokens) = V[S]
      BY <3>2, <3>3, <3>4, PromisedIs
    <3>6. QED
      BY <3>2, <3>5
  <2>5. QED
    BY <2>3, <2>4
<1>6. QED
  BY <1>1, <1>3, <1>4, <1>5 DEF RangeFns

-----------------------------------------------------------------------------
(* Batch indices                                                           *)

\* Each member is below those after it.
Ascends(s) == \A i, j \in 1..Len(s) : i < j => s[i] < s[j]

\* The indices a claim may use.
LowOf(claim) == claim[1].payload.ordinal * kStride
HighOf(claim) == (claim[1].payload.ordinal + Len(claim)) * kStride
Territory(claim) == LowOf(claim)..(HighOf(claim) - 1)

\* A claim's splits are numbered one after the other, and a split has no more
\* batches than the stride has room for.
IsOrdered(claim) ==
  /\ Len(claim) \in Nat \ {0} /\ claim[1].payload.ordinal \in Nat
  /\ \A j \in 1..Len(claim) :
       /\ IsRange(claim[j].payload)
       /\ claim[j].payload.ordinal = claim[1].payload.ordinal + j - 1
       /\ claim[j].payload.last - claim[j].payload.first <= kStride * SplitBatchRows

\* Where counting the batches of a split stands, and the marks before it.
IsMarked(d) ==
  /\ IsOrdered(d.claim)
  /\ d.at \in 1..Len(d.claim) /\ d.local \in 0..kStride /\ d.cursor \in Nat
  /\ d.local = 0 => d.cursor = 0
  /\ d.local # 0 => \/ d.cursor = d.claim[d.at].payload.last
                    \/ d.cursor = d.claim[d.at].payload.first + d.local * SplitBatchRows
  /\ IsList(d.marks) /\ Ascends(d.marks)
  /\ \A x \in Range(d.marks) :
       /\ x \in Nat /\ LowOf(d.claim) <= x
       /\ x < d.claim[d.at].payload.ordinal * kStride + d.local

\* What a stride is multiplied by.
LEMMA Strides ==
  ASSUME kStride \in Nat \ {0}, NEW a \in Nat, NEW b \in Nat, a <= b
  PROVE  /\ a * kStride \in Nat /\ b * kStride \in Nat /\ a * kStride <= b * kStride
         /\ a < b => a * kStride + kStride <= b * kStride
<1>1. /\ a * kStride \in Nat /\ b * kStride \in Nat /\ a * kStride <= b * kStride
  BY TimesGrows
<1>2. ASSUME a < b PROVE a * kStride + kStride <= b * kStride
  <2> DEFINE c == a + 1
  <2>1. c \in Nat /\ c <= b
    BY <1>2
  <2>2. c * kStride = a * kStride + kStride
    OBVIOUS
  <2> HIDE DEF c
  <2>3. c * kStride <= b * kStride
    BY <2>1, TimesGrows
  <2>4. QED
    BY <2>2, <2>3
<1>3. QED
  BY <1>1, <1>2

\* A batch past its split's stride does not come up.
LEMMA StrideHolds ==
  ASSUME NEW local \in Nat, NEW rows \in Nat, rows <= kStride * SplitBatchRows,
         SplitBatchRows \in Nat \ {0}, kStride \in Nat \ {0}, local * SplitBatchRows < rows
  PROVE  local < kStride
<1> DEFINE b == SplitBatchRows
<1>1. kStride \in Nat /\ b \in Nat /\ local * b < kStride * b
  <2>1. kStride \in Nat
    OBVIOUS
  <2>2. local * b \in Nat /\ kStride * b \in Nat
    BY <2>1
  <2>3. QED
    BY <2>1, <2>2
<1> HIDE DEF b
<1>2. ASSUME kStride <= local PROVE FALSE
  <2>1. kStride * b <= local * b
    BY <1>1, <1>2, TimesGrows
  <2>2. kStride * b \in Nat /\ local * b \in Nat
    BY <1>1
  <2>3. QED
    BY <1>1, <2>1, <2>2
<1>3. QED
  BY <1>1, <1>2

\* A list that goes on above its end ascends.
LEMMA AscendsOn ==
  ASSUME NEW s, NEW t, IsList(s), IsList(t), Ascends(s), Ascends(t),
         \A x \in Range(s), y \in Range(t) : x < y
  PROVE  IsList(s \o t) /\ Ascends(s \o t) /\ Range(s \o t) = Range(s) \cup Range(t)
<1> DEFINE m == Len(s)
           n == Len(t)
           u == s \o t
<1>1. IsList(u) /\ m \in Nat /\ n \in Nat /\ Range(u) = Range(s) \cup Range(t)
  BY ListLength, ListsConcatenate
<1>2. /\ Len(u) = m + n
      /\ \A i \in 1..m : u[i] = s[i]
      /\ \A i \in 1..n : u[m + i] = t[i]
  <2> DEFINE A == Range(s) \cup Range(t)
  <2>1. s \in Seq(A) /\ t \in Seq(A)
    BY DEF IsList
  <2> HIDE DEF A
  <2>2. QED
    BY <2>1, ConcatProperties
<1>3. (\A i \in 1..m : s[i] \in Range(s)) /\ \A i \in 1..n : t[i] \in Range(t)
  BY ListLength DEF Range
<1>4. (\A i, j \in 1..m : i < j => s[i] < s[j]) /\ \A i, j \in 1..n : i < j => t[i] < t[j]
  BY DEF Ascends
<1> HIDE DEF m, n, u
<1>5. ASSUME NEW i \in 1..(m + n), NEW j \in 1..(m + n), i < j PROVE u[i] < u[j]
  <2> DEFINE h == i - m
             k == j - m
  <2>1. CASE j \in 1..m
    <3>1. i \in 1..m
      BY <1>1, <1>5, <2>1
    <3>2. QED
      BY <1>2, <1>4, <1>5, <2>1, <3>1
  <2>2. CASE j \notin 1..m /\ i \in 1..m
    <3>1. k \in 1..n /\ m + k = j
      BY <1>1, <2>2
    <3> HIDE DEF k
    <3>2. u[i] = s[i] /\ u[j] = t[k]
      BY <1>2, <2>2, <3>1
    <3>3. QED
      BY <1>3, <2>2, <3>1, <3>2
  <2>3. CASE j \notin 1..m /\ i \notin 1..m
    <3>1. k \in 1..n /\ m + k = j /\ h \in 1..n /\ m + h = i /\ h < k
      BY <1>1, <1>5, <2>3
    <3> HIDE DEF k, h
    <3>2. u[i] = t[h] /\ u[j] = t[k]
      BY <1>2, <3>1
    <3>3. QED
      BY <1>4, <3>1, <3>2
  <2>4. QED
    BY <2>1, <2>2, <2>3
<1>6. Ascends(u)
  BY <1>2, <1>5 DEF Ascends
<1>7. QED
  BY <1>1, <1>6 DEF u

\* SplitBatchIndex::Producer::next_batch keeps the count.
LEMMA MarksGoOn ==
  ASSUME SplitAssumption, CallOK, asking.fn = "split_batch_index", NEW d,
         IsRedemption(asking, d), IsMarked(d)
  PROVE  \A b \in RangeBatch(d) : IsMarked(b.next)
<1> DEFINE n == Len(d.claim)
           ranges == Payloads(d.claim)
           at == d.at
           cur == d.cursor
           p == Position(ranges, at, cur)
           pa == p.at
           pc == p.cursor
           end == Min({pc + SplitBatchRows, ranges[pa].last})
           local == LocalAt(d, pa)
           next == [d EXCEPT !.at = pa, !.cursor = end,
                             !.rows = @ \o Span(pc, end),
                             !.local = local + 1,
                             !.marks = Append(@, MarkOf(d, pa))]
           o == d.claim[1].payload.ordinal
<1>1. n \in Nat \ {0} /\ at \in 1..n /\ cur \in Nat /\ o \in Nat /\ SplitBatchRows \in Nat \ {0}
  BY DEF IsMarked, IsOrdered, SplitAssumption
<1>2. ranges = [j \in 1..n |-> d.claim[j].payload] /\ Len(ranges) = n
  BY <1>1 DEF Payloads
<1>3. \A j \in 1..n : /\ IsRange(ranges[j]) /\ ranges[j].ordinal = o + j - 1
                      /\ ranges[j].last - ranges[j].first <= kStride * SplitBatchRows
  BY <1>2 DEF IsMarked, IsOrdered
<1>4. \A j \in 1..n : d.claim[j].payload = ranges[j]
  BY <1>2
<1>5. Indexed
  BY DEF Indexed
<1>6. RangeBatch(d) = IF pa > n THEN {} ELSE {[rows |-> Span(pc, end), next |-> next]}
  BY <1>2, <1>5 DEF RangeBatch
<1> HIDE DEF ranges, n
<1>7. IsPosition(ranges, n, at, cur, p)
  <2>1. n \in Nat /\ at \in Nat \ {0} /\ \A j \in 1..n : IsRange(ranges[j])
    BY <1>1, <1>3
  <2> HIDE DEF at, cur
  <2>2. QED
    BY <1>1, <1>2, <2>1, PositionFound
<1> HIDE DEF p
<1> SUFFICES ASSUME pa # n + 1, ~(pa > n) PROVE IsMarked(next)
  <2>1. CASE pa > n
    BY <1>6, <2>1
  <2>2. CASE ~(pa > n)
    <3>1. pa # n + 1
      BY <1>1, <2>2
    <3>2. IsMarked(next)
      BY <2>2, <3>1
    <3>3. \A b \in RangeBatch(d) : b.next = next
      <4> HIDE DEF next
      <4>1. QED
        BY <1>6, <2>2
    <3> HIDE DEF next
    <3>4. QED
      BY <3>2, <3>3
  <2>3. QED
    BY <2>1, <2>2
<1>8. /\ pa \in 1..n /\ pa >= at
      /\ (pa = at /\ cur < ranges[pa].last) \/ (pa > at /\ ranges[pa].first < ranges[pa].last)
      /\ pc = (IF pa = at /\ cur >= ranges[pa].first THEN cur ELSE ranges[pa].first)
  BY <1>7 DEF IsPosition, IsLeft
<1> DEFINE f == ranges[pa].first
           l == ranges[pa].last
           B == SplitBatchRows
<1>9. f \in Nat /\ l \in Nat /\ f <= l /\ l - f <= kStride * B /\ l - f \in Nat /\ B \in Nat \ {0}
  BY <1>1, <1>3, <1>8 DEF IsRange
<1>10. d.local \in 0..kStride /\ kStride \in Nat \ {0}
  BY DEF IsMarked, SplitAssumption
<1>11. d.local = 0 => cur = 0
  BY DEF IsMarked
<1>12. d.local # 0 => cur = ranges[at].last \/ cur = ranges[at].first + d.local * B
  BY <1>1, <1>4 DEF IsMarked
<1>13. local = IF pa = at THEN d.local ELSE 0
  BY DEF LocalAt
<1>14. local \in Nat /\ local <= kStride
  BY <1>10, <1>13
<1> HIDE DEF local
\* A batch begins where those before it in the split end.
<1>15. pc \in Nat /\ pc = f + local * B /\ (local # 0 => pc < l)
  <2>1. CASE local = 0
    <3>1. local * B = 0
      BY <1>9, <2>1
    <3>2. pc = f
      <4>1. CASE pa = at
        BY <1>1, <1>8, <1>9, <1>11, <1>13, <2>1, <4>1
      <4>2. CASE pa # at
        BY <1>8, <4>2
      <4>3. QED
        BY <4>1, <4>2
    <3>3. QED
      BY <1>9, <2>1, <3>1, <3>2
  <2>2. CASE local # 0
    <3>1. pa = at /\ local = d.local
      BY <1>13, <2>2
    <3>2. cur < l /\ ~(pa > at)
      BY <1>1, <1>8, <3>1
    <3>3. cur # l
      BY <1>1, <1>9, <3>2
    <3>4. cur = f + local * B
      BY <1>12, <2>2, <3>1, <3>3
    <3>5. local * B \in Nat
      BY <1>9, <1>14
    <3>6. pc = cur
      BY <1>1, <1>8, <1>9, <3>1, <3>4, <3>5
    <3>7. QED
      BY <1>1, <3>2, <3>4, <3>6
  <2>3. QED
    BY <2>1, <2>2
<1>16. local < kStride
  <2>1. CASE local = 0
    BY <1>10, <2>1
  <2>2. CASE local # 0
    <3>1. local * B \in Nat
      BY <1>9, <1>14
    <3>2. local * B < l - f
      BY <1>9, <1>15, <2>2, <3>1
    <3> DEFINE rows == l - f
    <3>3. rows \in Nat /\ rows <= kStride * SplitBatchRows /\ local * SplitBatchRows < rows
      BY <1>9, <3>2
    <3> HIDE DEF rows
    <3>4. QED
      BY <1>1, <1>10, <1>14, <3>3, StrideHolds
  <2>3. QED
    BY <2>1, <2>2
<1>17. end = pc + B \/ end = l
  <2> DEFINE A == {pc + B, l}
  <2>1. A \in SUBSET Nat /\ A # {}
    BY <1>9, <1>15
  <2> HIDE DEF A
  <2>2. Min(A) \in A
    BY <2>1, MinIsThere
  <2>3. QED
    BY <2>2 DEF A
<1>18. end \in Nat /\ (end = l \/ end = f + (local + 1) * B)
  <2>1. local * B \in Nat /\ (local + 1) * B = local * B + B
    BY <1>9, <1>14
  <2>2. QED
    BY <1>9, <1>15, <1>17, <2>1
<1> DEFINE mark == MarkOf(d, pa)
<1>19. mark = (o + pa - 1) * kStride + local
  BY <1>3, <1>4, <1>8 DEF MarkOf, local
<1>20. /\ next.at = pa /\ next.cursor = end /\ next.local = local + 1
       /\ next.marks = Append(d.marks, mark) /\ next.claim = d.claim
  <2> HIDE DEF end
  <2>1. QED
    BY DEF IsRedemption
<1> HIDE DEF mark, next, end
\* The mark is above the ones before it.
<1>21. /\ mark \in Nat /\ o * kStride <= mark
       /\ (o + at - 1) * kStride + d.local <= mark
  <2> DEFINE a == at - 1
             b == pa - 1
  <2>1. a \in Nat /\ b \in Nat /\ a <= b /\ o + at - 1 = o + a /\ o + pa - 1 = o + b
    BY <1>1, <1>8
  <2>2. /\ mark = (o + b) * kStride + local
        /\ (o + at - 1) * kStride = (o + a) * kStride
    BY <1>19, <2>1
  <2> DEFINE y == o + a
             z == o + b
  <2>a. y \in Nat /\ z \in Nat /\ o <= z /\ y <= z
    BY <1>1, <2>1
  <2>3. CASE pa = at
    <3>1. a = b /\ local = d.local
      BY <1>13, <2>3
    <3> HIDE DEF a, b, z
    <3>2. o * kStride <= z * kStride /\ z * kStride \in Nat /\ o * kStride \in Nat
      BY <1>1, <1>10, <2>a, Strides
    <3>3. o * kStride <= z * kStride + local /\ z * kStride + local \in Nat
      BY <1>14, <3>2
    <3>4. QED
      BY <2>2, <3>1, <3>3 DEF z
  <2>4. CASE pa # at
    <3>1. a + 1 <= b /\ local = 0
      BY <1>1, <1>8, <1>13, <2>4
    <3>2. y < z
      BY <1>1, <2>1, <3>1
    <3> HIDE DEF a, b, y, z
    <3>3. d.local \in Nat /\ d.local <= kStride
      BY <1>10
    <3>4. /\ o * kStride <= z * kStride /\ z * kStride \in Nat /\ o * kStride \in Nat
          /\ y * kStride + kStride <= z * kStride /\ y * kStride \in Nat
      BY <1>1, <1>10, <2>a, <3>2, Strides
    <3>5. /\ y * kStride + d.local <= z * kStride + 0 /\ z * kStride + 0 \in Nat
          /\ o * kStride <= z * kStride + 0
      BY <1>10, <3>3, <3>4
    <3>6. QED
      BY <2>2, <3>1, <3>5 DEF y, z
  <2>5. QED
    BY <2>3, <2>4
<1>22. IsList(d.marks) /\ Ascends(d.marks)
       /\ \A x \in Range(d.marks) :
            /\ x \in Nat /\ LowOf(d.claim) <= x
            /\ x < (o + at - 1) * kStride + d.local
  BY <1>1, <1>3, <1>4 DEF IsMarked
<1> DEFINE base == (o + at - 1) * kStride + d.local
<1>23. base \in Nat
  <2> DEFINE a == at - 1
  <2>1. a \in Nat /\ o + at - 1 = o + a
    BY <1>1
  <2> HIDE DEF a
  <2> DEFINE z == o + a
  <2>2. z \in Nat /\ o + at - 1 = z /\ d.local \in Nat
    BY <1>1, <1>10, <2>1
  <2> HIDE DEF z
  <2>3. z * kStride \in Nat
    BY <1>10, <2>2, Strides
  <2>4. QED
    BY <2>2, <2>3
<1>24. \A x \in Range(d.marks) : x < mark /\ x \in Nat
  <2>1. base <= mark /\ mark \in Nat
    BY <1>21
  <2>2. \A x \in Range(d.marks) : x \in Nat /\ x < base
    BY <1>22
  <2> HIDE DEF base
  <2>3. QED
    BY <1>23, <2>1, <2>2
<1>25. /\ IsList(next.marks) /\ Ascends(next.marks)
       /\ Range(next.marks) = Range(d.marks) \cup {mark}
  <2> DEFINE one == <<mark>>
  <2>1. IsList(one) /\ Range(one) = {mark} /\ Ascends(one)
    <3>1. Range(one) = {mark}
      BY DEF Range
    <3>2. IsList(one)
      BY <3>1 DEF IsList
    <3>3. Len(one) = 1
      OBVIOUS
    <3>4. Ascends(one)
      BY <3>3 DEF Ascends
    <3>5. QED
      BY <3>1, <3>2, <3>4
  <2>2. Append(d.marks, mark) = d.marks \o one
    <3> DEFINE S == Range(d.marks) \cup {mark}
    <3>1. d.marks \in Seq(S) /\ mark \in S
      BY <1>22 DEF IsList
    <3> HIDE DEF S
    <3>2. QED
      BY <3>1, AppendIsConcat
  <2> HIDE DEF one
  <2>3. QED
    BY <1>20, <1>22, <1>24, <2>1, <2>2, AscendsOn
<1>26. LowOf(d.claim) = o * kStride
  BY DEF LowOf
<1>27. next.claim[next.at].payload.ordinal * kStride + next.local = mark + 1
  <2>1. next.claim[next.at].payload.ordinal = o + pa - 1
    BY <1>3, <1>4, <1>8, <1>20
  <2> DEFINE z == (o + pa - 1) * kStride
  <2>2. z \in Int
    BY <1>1, <1>8, <1>10
  <2>3. mark = z + local /\ next.claim[next.at].payload.ordinal * kStride = z
    BY <1>19, <2>1
  <2> HIDE DEF z
  <2>4. QED
    BY <1>14, <1>20, <2>2, <2>3
<1>28. \A x \in Range(next.marks) :
         x \in Nat /\ LowOf(next.claim) <= x /\ x < mark + 1
  <2>1. ASSUME NEW x \in Range(next.marks)
        PROVE  x \in Nat /\ LowOf(next.claim) <= x /\ x < mark + 1
    <3>1. CASE x = mark
      BY <1>20, <1>21, <1>26, <3>1
    <3>2. CASE x \in Range(d.marks)
      BY <1>20, <1>21, <1>22, <1>24, <3>2
    <3>3. QED
      BY <1>25, <3>1, <3>2
  <2>2. QED
    BY <2>1
<1>29. next.claim[next.at].payload = ranges[pa] /\ next.at \in 1..Len(next.claim)
  BY <1>4, <1>8, <1>20 DEF n
<1>30. next.local \in 0..kStride /\ next.local # 0
  BY <1>10, <1>14, <1>16, <1>20
<1>31. \/ next.cursor = next.claim[next.at].payload.last
       \/ next.cursor = next.claim[next.at].payload.first + next.local * SplitBatchRows
  BY <1>18, <1>20, <1>29
<1>32. IsOrdered(next.claim) /\ next.cursor \in Nat
  BY <1>18, <1>20 DEF IsMarked
<1>33. QED
  BY <1>25, <1>27, <1>28, <1>29, <1>30, <1>31, <1>32 DEF IsMarked

\* The indices of the batches that count.
InOrder(ix) ==
  /\ ix = [r \in Readers |-> ix[r]]
  /\ \A r \in Readers : IsList(ix[r]) /\ Ascends(ix[r])
  /\ \A r, s \in Readers : r # s => Range(ix[r]) \cap Range(ix[s]) = {}

\* The indices a reader may still use.
Land(d) == IF d.busy THEN Territory(d.claim) ELSE {}

\* A reader's indices lie below the claim it is reading, and outside the others'.
Settled(n, rd, ix) ==
  /\ \A r \in Readers : \A x \in Range(ix[r]) : x \in Nat /\ x < n * kStride
  /\ \A r \in Readers : rd[r].busy =>
       /\ IsMarked(rd[r]) /\ HighOf(rd[r].claim) <= n * kStride
       /\ \A x \in Range(ix[r]) : x < LowOf(rd[r].claim)
  /\ \A r, s \in Readers : Land(rd[r]) \cap Range(ix[s]) = {}
  /\ \A r, s \in Readers : r # s => Land(rd[r]) \cap Land(rd[s]) = {}

\* No batch has an index.
Unmarked(rd, ix) ==
  \A r \in Readers : ix[r] = <<>> /\ (rd[r].busy => rd[r].marks = <<>>)

\* The indices that count are in order, and while reading they are settled, or
\* there are none, by the function that is read.
MarkInv ==
  /\ InOrder(indices)
  /\ planned = "planning" => indices = [r \in Readers |-> <<>>]
  /\ planned \in {"reading", "read"} =>
       IF asking.fn = "split_batch_index" THEN Settled(claimed, reader, indices)
       ELSE Unmarked(reader, indices)

\* A redemption's marks are indices of its claim.
LEMMA MarksInTerritory ==
  ASSUME kStride \in Nat \ {0}, NEW d, IsMarked(d)
  PROVE  /\ Range(d.marks) \subseteq Territory(d.claim)
         /\ LowOf(d.claim) \in Nat /\ HighOf(d.claim) \in Nat
<1> DEFINE o == d.claim[1].payload.ordinal
           n == Len(d.claim)
           at == d.at
<1>1. o \in Nat /\ n \in Nat /\ at \in 1..n /\ d.claim[at].payload.ordinal = o + at - 1
      /\ d.local \in 0..kStride
  BY DEF IsMarked, IsOrdered
<1>2. LowOf(d.claim) = o * kStride /\ HighOf(d.claim) = (o + n) * kStride
  BY <1>1 DEF LowOf, HighOf
<1>3. ASSUME NEW x \in Range(d.marks) PROVE x \in Nat /\ o * kStride <= x /\ x < (o + n) * kStride
  <2> DEFINE y == o + at - 1
             z == o + n
  <2>1. x \in Nat /\ LowOf(d.claim) <= x /\ x < y * kStride + d.local
    BY <1>1 DEF IsMarked
  <2> HIDE DEF o, n, at
  <2>2. d.local \in Nat /\ d.local <= kStride
    BY <1>1
  <2>3. y \in Nat /\ z \in Nat /\ y < z
    BY <1>1
  <2> HIDE DEF y
  <2>4. y * kStride \in Nat /\ z * kStride \in Nat /\ y * kStride + kStride <= z * kStride
    <3> HIDE DEF z
    <3>1. QED
      BY <2>3, Strides
  <2>5. y * kStride + d.local <= z * kStride
    <3> HIDE DEF z
    <3>1. QED
      BY <2>2, <2>4
  <2>6. QED
    BY <1>2, <2>1, <2>2, <2>4, <2>5
<1> HIDE DEF o, n, at
<1>4. o * kStride \in Nat /\ (o + n) * kStride \in Nat
  BY <1>1, Strides
<1>5. Range(d.marks) \subseteq (o * kStride)..((o + n) * kStride - 1)
  BY <1>3, <1>4
<1>6. QED
  BY <1>2, <1>4, <1>5 DEF Territory

\* A claim of split_batch_index is ordered, and a redemption of it has no marks.
LEMMA OrderedTokens ==
  ASSUME SplitAssumption, IndicesFit(asking), PInv, PlanInv, planned \in {"reading", "read"},
         asking.fn = "split_batch_index"
  PROVE  \A i \in 1..Len(tokens) :
           /\ tokens[i].payload.ordinal = i - 1 /\ IsRange(tokens[i].payload)
           /\ tokens[i].payload.last - tokens[i].payload.first <= kStride * SplitBatchRows
<1> DEFINE p == FullPlan(asking)
           n == Len(tokens)
           rows == Rows(asking.n)
           count == Wanted(asking.splits)
<1>1. n = Len(p) /\ \A i \in 1..n : tokens[i].payload = p[i]
  BY DEF PlanInv
<1>2. PlanOf(asking, p) /\ asking \in SplitCalls
  BY PlansAreWhole DEF PInv, CallOK
<1>3. rows \in Nat /\ count \in Nat \ {0}
  BY <1>2, RowsAndSplits
<1>4. Len(p) = count
  <2>1. p = BatchIndexPlan(rows, count).payloads
    BY DEF FullPlan, plan
  <2> HIDE DEF p, rows, count
  <2>2. QED
    BY <1>3, <2>1 DEF BatchIndexPlan, Page
<1> HIDE DEF p
<1>5. \A i \in 1..n : p[i].ordinal = i - 1 /\ p[i].first = Share(rows, i - 1, count).first
                      /\ p[i].last = Share(rows, i - 1, count).last
  BY <1>1, <1>2 DEF PlanOf
<1>6. \A i \in 1..n : IsRange(p[i])
  BY <1>1, <1>2 DEF PlanOf, PayloadOK, RangeFns, SplitFunctions
<1>7. ASSUME NEW i \in 1..n PROVE p[i].last - p[i].first <= kStride * SplitBatchRows
  <2> DEFINE h == i - 1
  <2>1. h \in 0..(count - 1)
    BY <1>1, <1>3, <1>4
  <2>2. Share(rows, h, count).last - Share(rows, h, count).first <= kStride * SplitBatchRows
    <3> HIDE DEF h
    <3>1. QED
      BY <1>2, <2>1 DEF IndicesFit
  <2>3. QED
    BY <1>5, <2>2
<1>8. QED
  BY <1>1, <1>5, <1>6, <1>7

\* Tokens claimed together are numbered one after the other.
LEMMA OrderedClaims ==
  ASSUME SplitAssumption, IndicesFit(asking), PInv, PlanInv, planned \in {"reading", "read"},
         asking.fn = "split_batch_index", NEW n \in Nat, NEW k \in Nat \ {0}, n + k <= Len(tokens),
         NEW claim, IsTaken(asking, tokens, n, k, claim)
  PROVE  IsOrdered(claim) /\ LowOf(claim) = n * kStride /\ HighOf(claim) = (n + k) * kStride
<1>1. Len(claim) = k /\ \A j \in 1..k : claim[j] = tokens[n + j]
  BY DEF IsTaken
<1>2. Len(tokens) \in Nat
  BY ListLength DEF PInv, TokensAreBound
<1>3. ASSUME NEW j \in 1..k
      PROVE  /\ claim[j].payload.ordinal = n + j - 1 /\ IsRange(claim[j].payload)
             /\ claim[j].payload.last - claim[j].payload.first <= kStride * SplitBatchRows
  <2> DEFINE i == n + j
  <2>1. i \in 1..Len(tokens) /\ claim[j] = tokens[i] /\ i - 1 = n + j - 1
    BY <1>1, <1>2
  <2> HIDE DEF i
  <2>2. QED
    BY <2>1, OrderedTokens
<1>4. 1 \in 1..k /\ n + 1 - 1 = n
  OBVIOUS
<1>5. claim[1].payload.ordinal = n
  BY <1>3, <1>4
<1>6. IsOrdered(claim)
  BY <1>1, <1>3, <1>5 DEF IsOrdered
<1>7. QED
  BY <1>1, <1>5, <1>6 DEF LowOf, HighOf

\* A redemption of an ordered claim starts without marks.
LEMMA RedemptionsAreMarked ==
  ASSUME kStride \in Nat \ {0}, asking.fn = "split_batch_index", NEW claim, IsOrdered(claim)
  PROVE  IsMarked(Redemption(claim)) /\ Redemption(claim).claim = claim
         /\ Redemption(claim).busy
<1> DEFINE d == Redemption(claim)
<1>1. /\ d.claim = claim /\ d.at = 1 /\ d.local = 0 /\ d.cursor = 0 /\ d.marks = <<>> /\ d.busy = TRUE
  BY DEF Redemption
<1> HIDE DEF d
<1>2. IsList(<<>>) /\ Len(<<>>) = 0 /\ Range(<<>>) = {}
  BY EmptyListing DEF EmptyLists, Range
<1>3. Ascends(<<>>)
  BY <1>2 DEF Ascends
<1>4. 1 \in 1..Len(claim)
  BY DEF IsOrdered
<1>5. IsMarked(d)
  BY <1>1, <1>2, <1>3, <1>4 DEF IsMarked
<1>6. QED
  BY <1>1, <1>5 DEF d

\* The other functions do not mark their batches.
LEMMA BatchesUnmarked ==
  ASSUME asking.fn # "split_batch_index", NEW d, IsRedemption(asking, d),
         NEW b \in next_batch(d)
  PROVE  b.next.marks = d.marks
<1>1. b \in CountryBatch(d) \cup EchoBatch(d) \cup WholeBatch(d) \cup RangeBatch(d)
  BY DEF next_batch
<1>2. ASSUME NEW x, NEW y PROVE [d EXCEPT !.at = x, !.rows = y].marks = d.marks
  BY DEF IsRedemption
<1>3. CASE b \in CountryBatch(d)
  <2> DEFINE live == {j \in d.at..Len(d.claim) : d.claim[j].payload.rows > 0}
             rows == CountryRows(d.claim[Min(live)].payload)
             next == [d EXCEPT !.at = Min(live) + 1, !.rows = d.rows \o rows]
  <2>1. CountryBatch(d) = IF live = {} THEN {} ELSE {[rows |-> rows, next |-> next]}
    BY DEF CountryBatch
  <2>2. next.marks = d.marks
    BY <1>2
  <2> HIDE DEF live, rows, next
  <2>3. QED
    BY <1>3, <2>1, <2>2
<1>4. CASE b \in EchoBatch(d)
  <2> DEFINE rows == [i \in 1..Len(d.claim) |-> EchoRow(d.claim[i].payload)]
             next == [d EXCEPT !.at = 2, !.rows = rows]
  <2>1. EchoBatch(d) = IF d.at > 1 THEN {} ELSE {[rows |-> rows, next |-> next]}
    BY DEF EchoBatch
  <2>2. next.marks = d.marks
    BY <1>2
  <2> HIDE DEF rows, next
  <2>3. QED
    BY <1>4, <2>1, <2>2
<1>5. CASE b \in WholeBatch(d)
  <2> DEFINE rows == Span(0, Rows(asking.n))
             next == [d EXCEPT !.at = 2, !.rows = rows]
  <2>1. WholeBatch(d) = IF d.at > 1 THEN {} ELSE {[rows |-> rows, next |-> next]}
    BY DEF WholeBatch
  <2>2. next.marks = d.marks
    BY <1>2
  <2> HIDE DEF rows, next
  <2>3. QED
    BY <1>5, <2>1, <2>2
<1>6. ASSUME NEW x, NEW y, NEW z, NEW u
      PROVE  [d EXCEPT !.at = x, !.cursor = y, !.rows = z, !.local = u, !.marks = d.marks].marks = d.marks
  BY DEF IsRedemption
<1>7. CASE b \in RangeBatch(d)
  <2>1. ~Indexed
    BY DEF Indexed
  <2> DEFINE ranges == Payloads(d.claim)
             p == Position(ranges, d.at, d.cursor)
             end == Min({p.cursor + SplitBatchRows, ranges[p.at].last})
             next == [d EXCEPT !.at = p.at, !.cursor = end, !.rows = d.rows \o Span(p.cursor, end),
                               !.local = 0, !.marks = d.marks]
  <2>2. RangeBatch(d) = IF p.at > Len(ranges) THEN {}
                        ELSE {[rows |-> Span(p.cursor, end), next |-> next]}
    BY <2>1 DEF RangeBatch
  <2>3. next.marks = d.marks
    BY <1>6
  <2> HIDE DEF p, end, next
  <2>4. QED
    BY <1>7, <2>2, <2>3
<1>8. QED
  BY <1>1, <1>7, <1>3, <1>4, <1>5

\* A reader goes on within its claim.
LEMMA SettledGoesOn ==
  ASSUME NEW n, NEW rd, NEW ix, Settled(n, rd, ix), rd = [r \in Readers |-> rd[r]],
         NEW r \in Readers, rd[r].busy, NEW d, d.busy, IsMarked(d), d.claim = rd[r].claim
  PROVE  Settled(n, [rd EXCEPT ![r] = d], ix)
<1> DEFINE rd2 == [rd EXCEPT ![r] = d]
<1>1. rd2[r] = d /\ \A s \in Readers : s # r => rd2[s] = rd[s]
  OBVIOUS
<1> HIDE DEF rd2
<1>2. \A s \in Readers : Land(rd2[s]) = Land(rd[s])
  BY <1>1 DEF Land
<1>3. \A s \in Readers : rd2[s].busy =>
       /\ IsMarked(rd2[s]) /\ HighOf(rd2[s].claim) <= n * kStride
       /\ \A x \in Range(ix[s]) : x < LowOf(rd2[s].claim)
  BY <1>1 DEF Settled
<1>4. Settled(n, rd2, ix)
  BY <1>2, <1>3 DEF Settled
<1>5. QED
  BY <1>4 DEF rd2

\* A reader takes the next k tokens: their indices are above everything so far.
LEMMA SettledTakes ==
  ASSUME NEW n \in Nat, NEW k \in Nat \ {0}, NEW rd, NEW ix, Settled(n, rd, ix),
         rd = [r \in Readers |-> rd[r]],
         NEW r \in Readers, ~rd[r].busy, NEW d, d.busy, IsMarked(d), kStride \in Nat \ {0},
         LowOf(d.claim) = n * kStride, HighOf(d.claim) = (n + k) * kStride
  PROVE  Settled(n + k, [rd EXCEPT ![r] = d], ix)
<1> DEFINE rd2 == [rd EXCEPT ![r] = d]
           low == n * kStride
           high == (n + k) * kStride
<1>1. rd2[r] = d /\ \A s \in Readers : s # r => rd2[s] = rd[s]
  OBVIOUS
<1> HIDE DEF rd2
<1>2. low \in Nat /\ high \in Nat /\ low < high
  <2> DEFINE m == n + k
  <2>1. m \in Nat /\ n < m
    OBVIOUS
  <2> HIDE DEF m
  <2>2. n * kStride \in Nat /\ m * kStride \in Nat /\ n * kStride + kStride <= m * kStride
    BY <2>1, Strides
  <2>3. QED
    BY <2>2 DEF m
<1>3. \A s \in Readers : \A x \in Range(ix[s]) : x \in Nat /\ x < low
  BY DEF Settled
<1>4. \A s \in Readers : rd[s].busy =>
       /\ IsMarked(rd[s]) /\ HighOf(rd[s].claim) <= low /\ HighOf(rd[s].claim) \in Nat
       /\ LowOf(rd[s].claim) \in Nat
       /\ \A x \in Range(ix[s]) : x < LowOf(rd[s].claim)
  BY MarksInTerritory DEF Settled
<1>5. Land(rd2[r]) = low..(high - 1) /\ LowOf(d.claim) = low /\ HighOf(d.claim) = high
  BY <1>1 DEF Land, Territory
<1> HIDE DEF low, high
<1>6. ASSUME NEW s \in Readers, s # r PROVE Land(rd2[s]) = Land(rd[s]) /\ \A x \in Land(rd[s]) : x \in Int /\ x < low
  <2>1. Land(rd2[s]) = Land(rd[s])
    BY <1>1, <1>6
  <2>2. CASE rd[s].busy
    <3>1. Land(rd[s]) = LowOf(rd[s].claim)..(HighOf(rd[s].claim) - 1)
      BY <2>2 DEF Land, Territory
    <3>2. QED
      BY <1>2, <1>4, <2>1, <2>2, <3>1
  <2>3. CASE ~rd[s].busy
    BY <2>1, <2>3 DEF Land
  <2>4. QED
    BY <2>2, <2>3
<1>7. \A s \in Readers : \A x \in Range(ix[s]) : x \in Nat /\ x < high
  BY <1>2, <1>3
<1>8. \A s \in Readers : rd2[s].busy =>
       /\ IsMarked(rd2[s]) /\ HighOf(rd2[s].claim) <= high
       /\ \A x \in Range(ix[s]) : x < LowOf(rd2[s].claim)
  <2>1. ASSUME NEW s \in Readers, rd2[s].busy, s # r
        PROVE /\ IsMarked(rd2[s]) /\ HighOf(rd2[s].claim) <= high
              /\ \A x \in Range(ix[s]) : x < LowOf(rd2[s].claim)
    <3>1. rd2[s] = rd[s] /\ rd[s].busy
      BY <1>1, <2>1
    <3>2. /\ IsMarked(rd[s]) /\ HighOf(rd[s].claim) <= low /\ HighOf(rd[s].claim) \in Nat
          /\ \A x \in Range(ix[s]) : x < LowOf(rd[s].claim)
      BY <1>4, <3>1
    <3>3. HighOf(rd[s].claim) <= high
      BY <1>2, <3>2
    <3>4. QED
      BY <3>1, <3>2, <3>3
  <2>2. IsMarked(rd2[r]) /\ HighOf(rd2[r].claim) <= high
        /\ \A x \in Range(ix[r]) : x < LowOf(rd2[r].claim)
    BY <1>1, <1>2, <1>3, <1>5
  <2>3. QED
    BY <2>1, <2>2
<1>9. \A t, s \in Readers : Land(rd2[t]) \cap Range(ix[s]) = {}
  <2>1. \A s \in Readers : Land(rd2[r]) \cap Range(ix[s]) = {}
    BY <1>2, <1>3, <1>5
  <2>2. \A t, s \in Readers : t # r => Land(rd2[t]) \cap Range(ix[s]) = {}
    BY <1>6 DEF Settled
  <2>3. QED
    BY <2>1, <2>2
<1>10. \A t, s \in Readers : t # s => Land(rd2[t]) \cap Land(rd2[s]) = {}
  <2>1. ASSUME NEW s \in Readers, s # r PROVE Land(rd2[r]) \cap Land(rd2[s]) = {}
    BY <1>2, <1>5, <1>6, <2>1
  <2>2. \A t, s \in Readers : t # s /\ t # r /\ s # r => Land(rd2[t]) \cap Land(rd2[s]) = {}
    BY <1>6 DEF Settled
  <2>3. QED
    BY <2>1, <2>2
<1>11. Settled(n + k, rd2, ix)
  BY <1>7, <1>8, <1>9, <1>10 DEF Settled, high
<1>12. QED
  BY <1>11 DEF rd2

\* A stream's marks join its reader's indices.
LEMMA SettledDelivers ==
  ASSUME NEW n \in Nat, NEW rd, NEW ix, Settled(n, rd, ix), rd = [r \in Readers |-> rd[r]],
         InOrder(ix), NEW r \in Readers, rd[r].busy, kStride \in Nat \ {0}
  PROVE  LET ix2 == [ix EXCEPT ![r] = @ \o rd[r].marks]
         IN InOrder(ix2) /\ Settled(n, [rd EXCEPT ![r] = NoReader], ix2)
<1> DEFINE rd2 == [rd EXCEPT ![r] = NoReader]
           marks == rd[r].marks
           ix2 == [ix EXCEPT ![r] = @ \o marks]
           low == LowOf(rd[r].claim)
           high == HighOf(rd[r].claim)
           top == n * kStride
           T == Territory(rd[r].claim)
<1>1. rd2[r] = NoReader /\ \A s \in Readers : s # r => rd2[s] = rd[s]
  OBVIOUS
<1>2. ix = [s \in Readers |-> ix[s]]
  BY DEF InOrder
<1>3. /\ ix2 = [s \in Readers |-> ix2[s]] /\ ix2[r] = ix[r] \o marks
      /\ \A s \in Readers : s # r => ix2[s] = ix[s]
  BY <1>2
<1>4. IsMarked(rd[r]) /\ high <= top /\ \A x \in Range(ix[r]) : x < low
  BY DEF Settled
<1>5. Range(marks) \subseteq T /\ low \in Nat /\ high \in Nat /\ IsList(marks) /\ Ascends(marks)
      /\ top \in Nat /\ T = low..(high - 1)
  <2>1. IsList(marks) /\ Ascends(marks)
    BY <1>4 DEF IsMarked
  <2>2. top \in Nat
    BY Strides
  <2>3. Range(marks) \subseteq T /\ low \in Nat /\ high \in Nat
    BY <1>4, MarksInTerritory
  <2>4. T = low..(high - 1)
    BY DEF Territory
  <2>5. QED
    BY <2>1, <2>2, <2>3, <2>4
<1>6. IsList(ix[r]) /\ Ascends(ix[r]) /\ \A x \in Range(ix[r]) : x \in Nat /\ x < top
  BY DEF InOrder, Settled
<1>7. Land(rd[r]) = T /\ Land(rd2[r]) = {} /\ \A s \in Readers : s # r => Land(rd2[s]) = Land(rd[s])
  BY <1>1, NoReaderIsIdle DEF Land
<1> HIDE DEF rd2, ix2, marks, low, high, top, T
<1>8. \A x \in Range(ix[r]), y \in Range(marks) : x < y
  BY <1>4, <1>5, <1>6
<1>9. IsList(ix2[r]) /\ Ascends(ix2[r]) /\ Range(ix2[r]) = Range(ix[r]) \cup Range(marks)
  BY <1>3, <1>5, <1>6, <1>8, AscendsOn
<1>10. \A s \in Readers : T \cap Range(ix[s]) = {}
  BY <1>7 DEF Settled
<1>11. InOrder(ix2)
  <2>1. \A s \in Readers : IsList(ix2[s]) /\ Ascends(ix2[s])
    BY <1>3, <1>9 DEF InOrder
  <2>2. \A s \in Readers : s # r => Range(ix2[r]) \cap Range(ix2[s]) = {}
    BY <1>3, <1>5, <1>9, <1>10 DEF InOrder
  <2>3. \A t, s \in Readers : t # s => Range(ix2[t]) \cap Range(ix2[s]) = {}
    BY <1>3, <2>2 DEF InOrder
  <2>4. QED
    BY <1>3, <2>1, <2>3 DEF InOrder
<1>12. \A s \in Readers : \A x \in Range(ix2[s]) : x \in Nat /\ x < top
  <2>1. \A x \in Range(marks) : x \in Nat /\ x < top
    BY <1>4, <1>5
  <2>2. \A x \in Range(ix2[r]) : x \in Nat /\ x < top
    BY <1>6, <1>9, <2>1
  <2>3. \A s \in Readers : s # r => \A x \in Range(ix2[s]) : x \in Nat /\ x < top
    BY <1>3 DEF Settled, top
  <2>4. QED
    BY <2>2, <2>3
<1>13. \A s \in Readers : rd2[s].busy =>
       /\ IsMarked(rd2[s]) /\ HighOf(rd2[s].claim) <= n * kStride
       /\ \A x \in Range(ix2[s]) : x < LowOf(rd2[s].claim)
  BY <1>1, <1>3, NoReaderIsIdle DEF Settled, rd2
<1>14. \A t, s \in Readers : Land(rd2[t]) \cap Range(ix2[s]) = {}
  <2>1. ASSUME NEW t \in Readers, NEW s \in Readers, t # r PROVE Land(rd2[t]) \cap Range(ix2[s]) = {}
    <3>1. Land(rd2[t]) = Land(rd[t]) /\ Land(rd[t]) \cap T = {}
      BY <1>7, <2>1 DEF Settled
    <3>2. Land(rd[t]) \cap Range(ix[s]) = {}
      BY DEF Settled
    <3>3. s # r => Range(ix2[s]) = Range(ix[s])
      BY <1>3
    <3>4. QED
      BY <1>5, <1>9, <3>1, <3>2, <3>3
  <2>2. QED
    BY <1>7, <2>1
<1>15. \A t, s \in Readers : t # s => Land(rd2[t]) \cap Land(rd2[s]) = {}
  BY <1>7 DEF Settled
<1>16. Settled(n, rd2, ix2)
  BY <1>12, <1>13, <1>14, <1>15 DEF Settled, top
<1>17. QED
  BY <1>11, <1>16 DEF rd2, ix2, marks

\* What the invariant says of the indices.
LEMMA IndicesHold == ASSUME MarkInv PROVE BatchIndicesAscend
BY DEF MarkInv, InOrder, Ascends, BatchIndicesAscend

\* No batch, no index.
LEMMA FreshIndices ==
  LET ix == [r \in Readers |-> <<>>]
      rd == [r \in Readers |-> NoReader]
  IN InOrder(ix) /\ Settled(0, rd, ix) /\ Unmarked(rd, ix)
<1> DEFINE ix == [r \in Readers |-> <<>>]
           rd == [r \in Readers |-> NoReader]
<1>1. /\ ix = [r \in Readers |-> ix[r]] /\ \A r \in Readers : ix[r] = <<>>
      /\ \A r \in Readers : rd[r] = NoReader
  OBVIOUS
<1> HIDE DEF ix, rd
<1>2. IsList(<<>>) /\ Len(<<>>) = 0 /\ Range(<<>>) = {}
  BY EmptyListing DEF EmptyLists, Range
<1>3. Ascends(<<>>)
  BY <1>2 DEF Ascends
<1>4. InOrder(ix)
  BY <1>1, <1>2, <1>3 DEF InOrder
<1>5. \A r \in Readers : ~rd[r].busy /\ Land(rd[r]) = {} /\ Range(ix[r]) = {}
  BY <1>1, <1>2, NoReaderIsIdle DEF Land
<1>6. Settled(0, rd, ix)
  BY <1>5 DEF Settled
<1>7. Unmarked(rd, ix)
  BY <1>1, <1>5 DEF Unmarked
<1>8. QED
  BY <1>4, <1>6, <1>7 DEF ix, rd

\* At first there are no indices.
LEMMA MarkInvInit == ASSUME SplitInit PROVE MarkInv
BY FreshIndices DEF SplitInit, MarkInv

\* Planning gives out none.
LEMMA MarkInvPlans ==
  ASSUME ReadInv, MarkInv, NEW w \in DOMAIN fleet, Plan(w)
  PROVE  MarkInv'
<1>1. /\ planned = "planning" /\ UNCHANGED <<claimed, reader, indices>>
  BY DEF Plan
<1>2. claimed' = 0 /\ reader' = [r \in Readers |-> NoReader] /\ indices' = [r \in Readers |-> <<>>]
  BY <1>1 DEF ReadInv, Fresh, MarkInv
<1>3. InOrder(indices') /\ Settled(0, reader', indices') /\ Unmarked(reader', indices')
  BY <1>2, FreshIndices
<1>4. Settled(claimed', reader', indices')
  BY <1>2, <1>3
<1>5. QED
  BY <1>2, <1>3, <1>4 DEF MarkInv

\* A step that ends reading in an error keeps the indices.
LEMMA MarkInvFails ==
  ASSUME MarkInv, UNCHANGED indices, planned' \notin {"planning", "reading", "read"}
  PROVE  MarkInv'
BY DEF MarkInv

\* A step within reading, of one reader.
LEMMA MarkInvReads ==
  ASSUME MarkInv, InOrder(indices'), planned' = "reading", asking' = asking,
         asking.fn = "split_batch_index" => Settled(claimed', reader', indices'),
         asking.fn # "split_batch_index" => Unmarked(reader', indices')
  PROVE  MarkInv'
BY DEF MarkInv

\* A reader without marks leaves the others without.
LEMMA UnmarkedGoesOn ==
  ASSUME NEW rd, NEW ix, Unmarked(rd, ix), rd = [r \in Readers |-> rd[r]],
         NEW r \in Readers, NEW d, d.busy => d.marks = <<>>
  PROVE  Unmarked([rd EXCEPT ![r] = d], ix)
<1> DEFINE rd2 == [rd EXCEPT ![r] = d]
<1>1. rd2[r] = d /\ \A s \in Readers : s # r => rd2[s] = rd[s]
  OBVIOUS
<1> HIDE DEF rd2
<1>2. Unmarked(rd2, ix)
  BY <1>1 DEF Unmarked
<1>3. QED
  BY <1>2 DEF rd2

\* A reader takes tokens.
LEMMA MarkInvClaims ==
  ASSUME SplitAssumption, IndicesFit(asking), PInv, PlanInv, ReadInv, MarkInv,
         NEW r \in Readers, NEW w \in DOMAIN fleet, Claim(r, w)
  PROVE  MarkInv'
<1>1. PICK k \in 1..MaxClaim :
        /\ claimed + k <= Len(tokens)
        /\ Redeem(r, SubSeq(tokens, claimed + 1, claimed + k), w)
        /\ claimed' = claimed + k
  BY DEF Claim
<1>2. planned = "reading" /\ ~reader[r].busy /\ UNCHANGED <<asking, tokens, indices>>
  BY DEF Claim
<1>3. k \in Nat \ {0}
  BY DEF SplitAssumption
<1>4. IsPlanned(asking, tokens)
  BY <1>2, TokensArePlanned
<1>5. claimed \in Nat /\ reader = [s \in Readers |-> reader[s]]
  BY <1>2 DEF ReadInv, InHand
<1> DEFINE claim == SubSeq(tokens, claimed + 1, claimed + k)
           d == Redemption(claim)
<1>6. IsTaken(asking, tokens, claimed, k, claim)
  BY <1>1, <1>3, <1>4, <1>5, TakenTokens
<1> HIDE DEF claim
<1>7. Len(claim) \in Nat /\ Redeem(r, claim, w)
  BY <1>1, <1>3, <1>6 DEF claim, IsTaken
<1>8. \/ planned' \in {"invalid", "expired", "failed"}
      \/ planned' = planned /\ reader' = [reader EXCEPT ![r] = d]
  BY <1>7, RedeemOutcomes
<1>9. CASE planned' \in {"invalid", "expired", "failed"}
  BY <1>2, <1>9, MarkInvFails
<1>10. CASE planned' = planned /\ reader' = [reader EXCEPT ![r] = d]
  <2>1. d.marks = <<>>
    BY DEF Redemption
  <2>2. ASSUME asking.fn = "split_batch_index" PROVE Settled(claimed', reader', indices')
    <3>1. IsOrdered(claim) /\ LowOf(claim) = claimed * kStride /\ HighOf(claim) = (claimed + k) * kStride
      BY <1>1, <1>2, <1>3, <1>5, <1>6, <2>2, OrderedClaims
    <3>2. IsMarked(d) /\ d.claim = claim /\ d.busy
      BY <2>2, <3>1, RedemptionsAreMarked DEF SplitAssumption
    <3>3. Settled(claimed, reader, indices)
      BY <1>2, <2>2 DEF MarkInv
    <3> HIDE DEF d
    <3>4. Settled(claimed + k, [reader EXCEPT ![r] = d], indices)
      BY <1>2, <1>3, <1>5, <3>1, <3>2, <3>3, SettledTakes DEF SplitAssumption
    <3>5. QED
      BY <1>1, <1>2, <1>10, <3>4
  <2>3. ASSUME asking.fn # "split_batch_index" PROVE Unmarked(reader', indices')
    <3>1. Unmarked(reader, indices)
      BY <1>2, <2>3 DEF MarkInv
    <3> HIDE DEF d
    <3>2. Unmarked([reader EXCEPT ![r] = d], indices)
      BY <1>5, <2>1, <3>1, UnmarkedGoesOn
    <3>3. QED
      BY <1>2, <1>10, <3>2
  <2>4. InOrder(indices')
    BY <1>2 DEF MarkInv
  <2>5. QED
    BY <1>2, <1>10, <2>2, <2>3, <2>4, MarkInvReads
<1>11. QED
  BY <1>8, <1>9, <1>10

\* A claim is started over, and its marks with it.
LEMMA MarkInvDies ==
  ASSUME SplitAssumption, IndicesFit(asking), PInv, PlanInv, ReadInv, MarkInv,
         NEW r \in Readers, NEW w \in DOMAIN fleet, WorkerDies(r, w)
  PROVE  MarkInv'
<1> DEFINE claim == reader[r].claim
           d == Redemption(claim)
<1>1. /\ planned = "reading" /\ reader[r].busy /\ Redeem(r, claim, w)
      /\ UNCHANGED <<asking, tokens, claimed, indices>>
  BY DEF WorkerDies
<1>2. reader = [s \in Readers |-> reader[s]] /\ InHand(asking, tokens, claimed, reader, delivered)
  BY <1>1 DEF ReadInv, InHand
<1>3. Len(claim) \in Nat
  BY <1>1, <1>2, BusyReader DEF IsRedemption, IsClaim
<1>4. \/ planned' \in {"invalid", "expired", "failed"}
      \/ planned' = planned /\ reader' = [reader EXCEPT ![r] = d]
  BY <1>1, <1>3, RedeemOutcomes
<1>5. CASE planned' \in {"invalid", "expired", "failed"}
  BY <1>1, <1>5, MarkInvFails
<1>6. CASE planned' = planned /\ reader' = [reader EXCEPT ![r] = d]
  <2>1. d.marks = <<>>
    BY DEF Redemption
  <2>2. ASSUME asking.fn = "split_batch_index" PROVE Settled(claimed', reader', indices')
    <3>1. Settled(claimed, reader, indices)
      BY <1>1, <2>2 DEF MarkInv
    <3>2. IsOrdered(claim)
      BY <1>1, <3>1 DEF Settled, IsMarked
    <3>3. IsMarked(d) /\ d.claim = claim /\ d.busy
      BY <2>2, <3>2, RedemptionsAreMarked DEF SplitAssumption
    <3> HIDE DEF d
    <3>4. Settled(claimed, [reader EXCEPT ![r] = d], indices)
      BY <1>1, <1>2, <3>1, <3>3, SettledGoesOn
    <3>5. QED
      BY <1>1, <1>6, <3>4
  <2>3. ASSUME asking.fn # "split_batch_index" PROVE Unmarked(reader', indices')
    <3>1. Unmarked(reader, indices)
      BY <1>1, <2>3 DEF MarkInv
    <3> HIDE DEF d
    <3>2. Unmarked([reader EXCEPT ![r] = d], indices)
      BY <1>2, <2>1, <3>1, UnmarkedGoesOn
    <3>3. QED
      BY <1>1, <1>6, <3>2
  <2>4. InOrder(indices')
    BY <1>1 DEF MarkInv
  <2>5. QED
    BY <1>1, <1>6, <2>2, <2>3, <2>4, MarkInvReads
<1>7. QED
  BY <1>4, <1>5, <1>6

\* A batch is marked.
LEMMA MarkInvTicks ==
  ASSUME SplitAssumption, PInv, PlanInv, ReadInv, MarkInv, NEW r \in Readers, Tick(r)
  PROVE  MarkInv'
<1>1. /\ planned = "reading" /\ reader[r].busy
      /\ UNCHANGED <<asking, tokens, claimed, indices>>
  BY DEF Tick
<1>2. PICK b \in next_batch(reader[r]) :
        \/ planned' = "failed"
        \/ planned' = planned /\ reader' = [reader EXCEPT ![r] = b.next]
  BY DEF Tick
<1>3. reader = [s \in Readers |-> reader[s]] /\ InHand(asking, tokens, claimed, reader, delivered)
  BY <1>1 DEF ReadInv, InHand
<1>4. asking.fn # "split_endless_cursor"
  BY <1>1, TokensArePlanned
<1>5. IsRedemption(asking, reader[r])
  BY <1>1, <1>3, BusyReader
<1>6. IsRedemption(asking, b.next) /\ b.next.claim = reader[r].claim
  BY <1>2, <1>4, <1>5, BatchesAreRead DEF PInv
<1>7. CASE planned' = "failed"
  BY <1>1, <1>7, MarkInvFails
<1>8. CASE planned' = planned /\ reader' = [reader EXCEPT ![r] = b.next]
  <2> DEFINE d == b.next
  <2>1. d.claim = reader[r].claim /\ reader' = [reader EXCEPT ![r] = d] /\ d.busy
    BY <1>6, <1>8 DEF IsRedemption
  <2>2. ASSUME asking.fn = "split_batch_index" PROVE Settled(claimed', reader', indices')
    <3>1. Settled(claimed, reader, indices)
      BY <1>1, <2>2 DEF MarkInv
    <3>2. IsMarked(reader[r])
      BY <1>1, <3>1 DEF Settled
    <3>3. b \in RangeBatch(reader[r])
      BY <1>2, <2>2 DEF next_batch
    <3>4. IsMarked(d)
      BY <1>5, <2>2, <3>2, <3>3, MarksGoOn DEF PInv
    <3> HIDE DEF d
    <3>5. Settled(claimed, [reader EXCEPT ![r] = d], indices)
      BY <1>1, <1>3, <2>1, <3>1, <3>4, SettledGoesOn
    <3>6. QED
      BY <1>1, <2>1, <3>5
  <2>3. ASSUME asking.fn # "split_batch_index" PROVE Unmarked(reader', indices')
    <3>1. Unmarked(reader, indices)
      BY <1>1, <2>3 DEF MarkInv
    <3>2. d.marks = <<>>
      <4>1. b.next.marks = reader[r].marks
        BY <1>2, <1>5, <2>3, BatchesUnmarked
      <4>2. reader[r].marks = <<>>
        BY <1>1, <3>1 DEF Unmarked
      <4>3. QED
        BY <4>1, <4>2
    <3> HIDE DEF d
    <3>3. Unmarked([reader EXCEPT ![r] = d], indices)
      BY <1>3, <3>1, <3>2, UnmarkedGoesOn
    <3>4. QED
      BY <1>1, <2>1, <3>3
  <2>4. InOrder(indices')
    BY <1>1 DEF MarkInv
  <2>5. QED
    BY <1>1, <1>8, <2>2, <2>3, <2>4, MarkInvReads
<1>9. QED
  BY <1>2, <1>7, <1>8

\* A stream ends, and its marks count.
LEMMA MarkInvDelivers ==
  ASSUME SplitAssumption, PInv, PlanInv, ReadInv, MarkInv, NEW r \in Readers, StreamEnds(r)
  PROVE  MarkInv'
<1> DEFINE rd2 == [reader EXCEPT ![r] = NoReader]
           ix2 == [indices EXCEPT ![r] = @ \o reader[r].marks]
<1>1. /\ planned = "reading" /\ reader[r].busy
      /\ UNCHANGED <<asking, tokens, claimed, planned>>
      /\ reader' = rd2 /\ indices' = ix2
  BY DEF StreamEnds
<1>2. /\ reader = [s \in Readers |-> reader[s]] /\ claimed \in Nat /\ InOrder(indices)
      /\ indices = [s \in Readers |-> indices[s]]
  BY <1>1 DEF ReadInv, InHand, MarkInv, InOrder
<1>3. CASE asking.fn = "split_batch_index"
  <2>1. Settled(claimed, reader, indices)
    BY <1>1, <1>3 DEF MarkInv
  <2>2. InOrder(ix2) /\ Settled(claimed, rd2, ix2)
    BY <1>1, <1>2, <2>1, SettledDelivers DEF SplitAssumption
  <2> HIDE DEF rd2, ix2
  <2>3. InOrder(indices') /\ Settled(claimed', reader', indices')
    BY <1>1, <2>2
  <2>4. QED
    BY <1>1, <1>3, <2>3, MarkInvReads
<1>4. CASE asking.fn # "split_batch_index"
  <2>1. Unmarked(reader, indices)
    BY <1>1, <1>4 DEF MarkInv
  <2>2. indices[r] = <<>> /\ reader[r].marks = <<>>
    BY <1>1, <2>1 DEF Unmarked
  <2>3. <<>> \o <<>> = <<>>
    OBVIOUS
  <2>4. indices[r] \o reader[r].marks = indices[r]
    BY <2>2, <2>3
  <2>5. ix2 = indices
    BY <1>2, <2>4
  <2>6. Unmarked(rd2, indices)
    BY <1>2, <2>1, NoReaderIsIdle, UnmarkedGoesOn
  <2> HIDE DEF rd2, ix2
  <2>7. InOrder(indices') /\ Unmarked(reader', indices')
    BY <1>1, <1>2, <2>5, <2>6
  <2>8. QED
    BY <1>1, <1>4, <2>7, MarkInvReads
<1>5. QED
  BY <1>3, <1>4

\* Every step keeps the indices in order.
LEMMA MarkStep ==
  ASSUME SplitAssumption, IndicesFit(asking), PInv, PlanInv, ReadInv, MarkInv, [SplitNext]_splitVars
  PROVE  MarkInv'
<1>1. ASSUME NEW w \in DOMAIN fleet, Plan(w) PROVE MarkInv'
  BY <1>1, MarkInvPlans
<1>2. ASSUME GiveUp PROVE MarkInv'
  BY <1>2, MarkInvFails DEF GiveUp
<1>3. ASSUME NEW r \in Readers, NEW w \in DOMAIN fleet, Claim(r, w) \/ WorkerDies(r, w)
      PROVE  MarkInv'
  BY <1>3, MarkInvClaims, MarkInvDies
<1>4. ASSUME NEW r \in Readers, Tick(r) \/ StreamEnds(r) PROVE MarkInv'
  BY <1>4, MarkInvTicks, MarkInvDelivers
<1>5. ASSUME ScanEnds PROVE MarkInv'
  BY <1>5 DEF ScanEnds, MarkInv
<1>6. ASSUME UNCHANGED splitVars PROVE MarkInv'
  BY <1>6 DEF splitVars, MarkInv
<1>7. QED
  BY <1>1, <1>2, <1>3, <1>4, <1>5, <1>6 DEF SplitNext

\* For any calls, readers, claim sizes and fleets: the rows of a split scan
\* count once each, as many as an exact plan promised; and if no split of the
\* call has more than kStride batches, which the code leaves to the caller, the
\* batch indices a reader keeps ascend and are no other reader's
\* (ScanSplit::rows_exact, SplitBatchIndex::Producer::next_batch).
THEOREM SplitScanWhole ==
  ASSUME SplitAssumption PROVE SplitSpec => []SplitScanIsWhole
<1> DEFINE Fitting == IndicesFit(asking) => MarkInv
           Inv == PInv /\ PlanInv /\ ReadInv /\ Fitting
<1>1. SplitInit => Inv
  BY SplitInitHolds, ReadInvInit, MarkInvInit
<1>2. [SplitNext]_splitVars => asking' = asking
  BY DEF SplitNext, splitVars, Plan, GiveUp, Claim, WorkerDies, Tick, StreamEnds, ScanEnds
<1>3. PInv /\ PlanInv /\ ReadInv /\ Fitting /\ [SplitNext]_splitVars => Fitting'
  <2> SUFFICES ASSUME PInv, PlanInv, ReadInv, Fitting, [SplitNext]_splitVars, IndicesFit(asking)'
               PROVE  MarkInv'
    OBVIOUS
  <2>1. IndicesFit(asking)
    BY <1>2 DEF IndicesFit
  <2>2. QED
    BY <2>1, MarkStep
<1>4. Inv /\ [SplitNext]_splitVars => Inv'
  BY <1>3, SplitStep, ReadStep
<1>5. Inv => SplitScanIsWhole
  BY ReadIsWhole, EstimatesHold, IndicesHold DEF SplitScanIsWhole, BatchIndicesAscend
<1>6. QED
  BY <1>1, <1>4, <1>5, PTL DEF SplitSpec
=============================================================================
