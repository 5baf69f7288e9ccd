------------------------------ MODULE SplitScan ------------------------------
(***************************************************************************)
(* A scan that is planned before it is read: table_function_plan and the   *)
(* redemption of split tokens in init (src/function_dispatch.cpp), the     *)
(* token (src/split_token.cpp) and the functions of SplitPlans.  The       *)
(* engine follows the plan's cursor, and its readers claim tokens and      *)
(* redeem them at any worker of the fleet; a worker may die on the way and *)
(* the claim is then redeemed again.                                       *)
(***************************************************************************)
EXTENDS SplitPlans, Bags

CONSTANTS
  SplitCalls,     \* records [fn, n, splits, bounds, projection, failAt, inInit]
  Readers,        \* the engine's reader threads
  Fleets,         \* per worker, the key it seals tokens with, or NoKey
  SplitBatchRows, \* rows a batch may have
  kStride,        \* batch indices that split_batch_index sets aside for a split
  MaxPages,       \* planning pages the engine follows before it gives up
  MaxClaim,       \* tokens a reader claims at a time
  MaxDeaths       \* workers that die in the middle of a redemption

VARIABLES
  asking,     \* the call
  fleet,      \* the workers' keys
  planned,    \* "planning", "reading", "read", or how the scan ended
  pages,      \* pages planned
  cursor,     \* the cursor the next page is asked with
  tokens,     \* what was planned, in order
  claimed,    \* tokens handed to readers, as a count: they are taken in order
  reader,     \* per reader, the redemption it runs
  delivered,  \* the rows of finished redemptions
  indices,    \* per reader, the batch indices of the batches it kept
  deaths

splitVars == <<asking, fleet, planned, pages, cursor, tokens, claimed, reader,
               delivered, indices, deaths>>

NoKey == "none"
NoReader == [busy |-> FALSE]

\* The workers of a fleet are served over one transport: it gives each a key, or
\* none.
SplitAssumption ==
  /\ SplitBatchRows \in Nat \ {0} /\ MaxPages \in Nat \ {0} /\ MaxClaim \in Nat \ {0}
  /\ MaxDeaths \in Nat /\ kStride \in Nat \ {0}
  /\ \A c \in SplitCalls :
       /\ c.fn \in SplitFunctions /\ c.n \in Int /\ c.splits \in Int
       /\ \A b \in c.bounds : b.min \in Int /\ b.max \in Int
       /\ IsFiniteSet(c.projection)
  /\ \A f \in Fleets : \A v, w \in DOMAIN f : (f[v] = NoKey) = (f[w] = NoKey)

\* current_catalog_version: one for every catalog there is.
current_catalog_version == 1

\* anchor_for
Anchor(fn) ==
  IF Pinned(fn) = {} THEN current_catalog_version
  ELSE CHOOSE v \in Pinned(fn) : TRUE

\* bind_fingerprint and build: a token is bound to the call and to the key of
\* the worker that planned it.
build(payload, exact, w) ==
  [fingerprint |-> <<asking.fn, asking.n, asking.splits>>,
   anchor |-> Anchor(asking.fn), key |-> fleet[w], payload |-> payload,
   exact |-> exact]

\* Mutant of open_error: the anchor is that of the plan, not of the worker.
open_error_any_anchor(token, w) ==
  IF token.key # fleet[w] THEN "invalid" ELSE "none"

\* open: an expired snapshot is told apart from a token that is not valid
\* here, and a payload that does not open is found after it.
open_error(token, w) ==
  IF \/ (token.key = NoKey) # (fleet[w] = NoKey)
     \/ token.fingerprint # <<asking.fn, asking.n, asking.splits>>
  THEN "invalid"
  ELSE IF token.anchor # current_catalog_version THEN "expired"
  ELSE IF token.key # fleet[w] THEN "invalid" ELSE "none"

SplitInit ==
  /\ asking \in SplitCalls
  /\ fleet \in Fleets
  /\ planned = "planning" /\ pages = 0 /\ cursor = NoCursor
  /\ tokens = <<>> /\ claimed = 0
  /\ reader = [r \in Readers |-> NoReader]
  /\ delivered = EmptyBag
  /\ indices = [r \in Readers |-> <<>>]
  /\ deaths = 0

\* table_function_plan, answered by worker w
Plan(w) ==
  LET page == plan(asking.fn, asking, cursor)
  IN /\ planned = "planning" /\ pages < MaxPages
     /\ tokens' = tokens \o [i \in 1..Len(page.payloads) |->
                               build(page.payloads[i], page.exact, w)]
     /\ pages' = pages + 1
     /\ cursor' = page.next
     /\ planned' = IF page.next = NoCursor THEN "reading" ELSE "planning"
     /\ UNCHANGED <<asking, fleet, claimed, reader, delivered, indices, deaths>>

\* The engine caps the pages and refuses to read a plan it has not whole.
GiveUp ==
  /\ planned = "planning" /\ pages = MaxPages
  /\ planned' = "refused"
  /\ UNCHANGED <<asking, fleet, pages, cursor, tokens, claimed, reader, delivered,
                 indices, deaths>>

-----------------------------------------------------------------------------
(* Redemption                                                              *)

Payloads(claim) == [i \in 1..Len(claim) |-> claim[i].payload]

\* SplitFailAt::init: the split that covers the row is refused.
FailsInInit(claim) ==
  /\ asking.fn = "split_fail_at" /\ asking.inInit
  /\ \E i \in 1..Len(claim) : /\ claim[i].payload.first <= asking.failAt
                              /\ asking.failAt < claim[i].payload.last

\* A redemption: the payloads to read, and where reading them stands.  The
\* filter-reporting producer starts at its first range, the others at row 0.
Redemption(claim) ==
  [busy |-> TRUE, claim |-> claim, at |-> 1, local |-> 0, rows |-> <<>>, marks |-> <<>>,
   cursor |-> IF asking.fn = "split_dynamic_filter" THEN claim[1].payload.first ELSE 0]

\* init with split_tokens: every token is opened before any of them is used.
Redeem(r, claim, w) ==
  LET errors == {open_error(claim[i], w) : i \in 1..Len(claim)} \ {"none"}
  IN IF errors # {}
     THEN /\ planned' = open_error(claim[Min({i \in 1..Len(claim) :
                                       open_error(claim[i], w) # "none"})], w)
          /\ reader' = [reader EXCEPT ![r] = NoReader]
     ELSE IF FailsInInit(claim)
     THEN planned' = "failed" /\ reader' = [reader EXCEPT ![r] = NoReader]
     ELSE planned' = planned /\ reader' = [reader EXCEPT ![r] = Redemption(claim)]

\* A reader takes the next tokens to a worker.
Claim(r, w) ==
  /\ planned = "reading" /\ ~reader[r].busy
  /\ \E k \in 1..MaxClaim :
       /\ claimed + k <= Len(tokens)
       /\ Redeem(r, SubSeq(tokens, claimed + 1, claimed + k), w)
       /\ claimed' = claimed + k
  /\ UNCHANGED <<asking, fleet, pages, cursor, tokens, delivered, indices, deaths>>

\* The worker dies: what it sent of the claim is dropped with it, and the same
\* tokens are redeemed at another.
WorkerDies(r, w) ==
  /\ planned = "reading" /\ reader[r].busy /\ deaths < MaxDeaths
  /\ Redeem(r, reader[r].claim, w)
  /\ deaths' = deaths + 1
  /\ UNCHANGED <<asking, fleet, pages, cursor, tokens, claimed, delivered, indices>>

Indexed == asking.fn = "split_batch_index"

\* SplitBatchIndex counts a split's batches from 0.
LocalAt(d, at) == IF at = d.at THEN d.local ELSE 0

\* vgi_batch_index
MarkOf(d, at) == d.claim[at].payload.ordinal * kStride + LocalAt(d, at)

\* RangeProducer::next_batch, and SplitBatchIndex's: rows, and where to go on.
RangeBatch(d) ==
  LET ranges == Payloads(d.claim)
      p == Position(ranges, d.at, d.cursor)
      end == Min({p.cursor + SplitBatchRows, ranges[p.at].last})
  IN IF p.at > Len(ranges) THEN {}
     ELSE {[rows |-> Span(p.cursor, end),
            next |-> [d EXCEPT !.at = p.at, !.cursor = end,
                               !.rows = @ \o Span(p.cursor, end),
                               !.local = IF Indexed THEN LocalAt(d, p.at) + 1 ELSE 0,
                               !.marks = IF Indexed THEN Append(@, MarkOf(d, p.at))
                                         ELSE @]]}

\* SplitPartitioned::Producer: a batch per country that has rows.
CountryBatch(d) ==
  LET live == {j \in d.at..Len(d.claim) : d.claim[j].payload.rows > 0}
  IN IF live = {} THEN {}
     ELSE {[rows |-> CountryRows(d.claim[Min(live)].payload),
            next |-> [d EXCEPT !.at = Min(live) + 1,
                               !.rows = @ \o CountryRows(d.claim[Min(live)].payload)]]}

\* SplitEchoFilters::OneShotBatch: everything in one batch.
EchoBatch(d) ==
  LET rows == [i \in 1..Len(d.claim) |-> EchoRow(d.claim[i].payload)]
  IN IF d.at > 1 THEN {}
     ELSE {[rows |-> rows, next |-> [d EXCEPT !.at = 2, !.rows = rows]]}

\* A function without splits reads the whole scan for its one payload.
WholeBatch(d) ==
  IF d.at > 1 THEN {}
  ELSE {[rows |-> Span(0, Rows(asking.n)),
         next |-> [d EXCEPT !.at = 2, !.rows = Span(0, Rows(asking.n))]]}

next_batch(d) ==
  CASE asking.fn = "split_partitioned" -> CountryBatch(d)
    [] asking.fn = "split_echo_filters" -> EchoBatch(d)
    [] asking.fn = "sequence" -> WholeBatch(d)
    [] OTHER -> RangeBatch(d)

\* SplitFailAt::FailingProducer: the batch that holds the row is not handed out.
FailsMidStream(batch) ==
  /\ asking.fn = "split_fail_at" /\ ~asking.inInit
  /\ asking.failAt \in Range(batch.rows)

Tick(r) ==
  /\ planned = "reading" /\ reader[r].busy
  /\ \E batch \in next_batch(reader[r]) :
       IF FailsMidStream(batch)
       THEN planned' = "failed" /\ reader' = [reader EXCEPT ![r] = NoReader]
       ELSE planned' = planned /\ reader' = [reader EXCEPT ![r] = batch.next]
  /\ UNCHANGED <<asking, fleet, pages, cursor, tokens, claimed, delivered, indices,
                 deaths>>

\* The stream ends: the redemption's rows count.
StreamEnds(r) ==
  /\ planned = "reading" /\ reader[r].busy /\ next_batch(reader[r]) = {}
  /\ delivered' = delivered (+) [v \in Range(reader[r].rows) |->
                                  Cardinality({i \in 1..Len(reader[r].rows) :
                                                 reader[r].rows[i] = v})]
  /\ indices' = [indices EXCEPT ![r] = @ \o reader[r].marks]
  /\ reader' = [reader EXCEPT ![r] = NoReader]
  /\ UNCHANGED <<asking, fleet, planned, pages, cursor, tokens, claimed, deaths>>

\* Every token has been redeemed to its end.
ScanEnds ==
  /\ planned = "reading" /\ claimed = Len(tokens)
  /\ \A r \in Readers : ~reader[r].busy
  /\ planned' = "read"
  /\ UNCHANGED <<asking, fleet, pages, cursor, tokens, claimed, reader, delivered,
                 indices, deaths>>

SplitNext ==
  \/ \E w \in DOMAIN fleet : Plan(w)
  \/ GiveUp
  \/ \E r \in Readers, w \in DOMAIN fleet : Claim(r, w) \/ WorkerDies(r, w)
  \/ \E r \in Readers : Tick(r) \/ StreamEnds(r)
  \/ ScanEnds

SplitSpec == SplitInit /\ [][SplitNext]_splitVars

\* The engine plans, claims and pulls; nothing obliges a worker to die.
SplitProgress ==
  \/ \E w \in DOMAIN fleet : Plan(w)
  \/ GiveUp
  \/ \E r \in Readers, w \in DOMAIN fleet : Claim(r, w)
  \/ \E r \in Readers : Tick(r) \/ StreamEnds(r)
  \/ ScanEnds

-----------------------------------------------------------------------------
(* Properties                                                              *)

\* What the same call delivers when it is read without a plan.
WholeScan ==
  CASE asking.fn = "split_zero" -> {}
    [] asking.fn = "split_partitioned" ->
         {<<c, c * 100 + k>> : c \in 0..(kCountries - 1), k \in 1..Rows(asking.n)}
    [] asking.fn = "split_echo_filters" ->
         {<<i, asking.bounds # {},
            IF Cardinality(asking.projection) \in 1..(kColumns - 1)
            THEN Cardinality(asking.projection) ELSE 0>> :
            i \in {j \in 0..(Wanted(asking.splits) - 1) :
                     \A b \in asking.bounds : b.min <= j /\ j <= b.max}}
    [] OTHER -> 0..(Rows(asking.n) - 1)

\* However a plan is paged, claimed, interleaved and repeated after a worker
\* died, the rows that count are those of the scan, each exactly once
\* (SplitFunction::divide, SplitPaginated::plan, RangeProducer::next_batch).
SplitRowsOnce ==
  planned = "read" => delivered = [v \in WholeScan |-> 1]

\* Splits that say their size is exact say the truth: the engine may answer
\* COUNT(*) from the plan (ScanSplit::rows_exact).
EstimatesAreExact ==
  (planned = "read" /\ \A i \in 1..Len(tokens) : tokens[i].exact)
    => SumFunction(delivered)
         = FoldSeq(LAMBDA t, sum : sum + Estimate(asking.fn, t.payload), 0, tokens)

\* A call none of whose splits has more batches than it has indices.  The code
\* does not see to it: a longer split goes on into the indices of the next.
IndicesFit(q) ==
  q.fn = "split_batch_index" =>
    \A i \in 0..(Wanted(q.splits) - 1) :
      LET share == Share(Rows(q.n), i, Wanted(q.splits))
      IN share.last - share.first <= kStride * SplitBatchRows

\* If its splits fit, a reader's batch indices ascend from split to split, and
\* no two batches of the scan have the same one
\* (SplitBatchIndex::Producer::next_batch).
BatchIndicesAscend ==
  IndicesFit(asking) =>
    /\ \A r \in Readers : \A i, j \in 1..Len(indices[r]) :
         i < j => indices[r][i] < indices[r][j]
    /\ \A r, s \in Readers :
         r # s => Range(indices[r]) \cap Range(indices[s]) = {}

\* The rows of a split scan count once each, as many as an exact plan promised,
\* and batch indices put them in order where they fit, although readers interleave and the
\* splits of a worker that died are read again.
SplitScanIsWhole == SplitRowsOnce /\ EstimatesAreExact /\ BatchIndicesAscend

\* A plan of a snapshot no worker serves ends in the error that asks for a new
\* plan, before any of its rows is delivered (split_token::open, init).
StalePlanIsNotRead ==
  (tokens # <<>> /\ tokens[1].anchor # current_catalog_version)
    => /\ delivered = EmptyBag /\ \A r \in Readers : ~reader[r].busy
       /\ planned \in {"planning", "reading", "expired"}
=============================================================================
