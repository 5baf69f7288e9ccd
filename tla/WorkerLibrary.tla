---------------------------- MODULE WorkerLibrary ----------------------------
(***************************************************************************)
(* The example worker's functions and the dispatch that serves them, one   *)
(* family of functions at a time: a worker keeps nothing for these calls   *)
(* that another family reads, so a behaviour is a call, or a session of    *)
(* queries, of one family while the others stand idle.                     *)
(***************************************************************************)
EXTENDS SplitScan, Generators, FilteredScans, PartitionedScans, ResultCache, ScalarCalls

ASSUME LibraryAssumption ==
  /\ SplitAssumption /\ GeneratorsAssumption
  /\ PredicatesAssumption /\ PartitionAssumption /\ TagsFit /\ CacheAssumption
  /\ NumericAssumption /\ ScalarAssumption /\ CallsAreListed

VARIABLE family   \* the family asked

libraryVars ==
  <<splitVars, genVars, filterVars, partitionVars, cacheVars, scalarVars, family>>

\* The calls of the families that stand idle: they are never made.
IdleSplitCall == CHOOSE c \in SplitCalls : TRUE
IdleFleet == CHOOSE f \in Fleets : TRUE
IdleGenCall == CHOOSE c \in Calls : c.fn = "ten_thousand"
IdleFilterCall == CHOOSE c \in FilterCalls : c.predicates = <<>>
IdlePartitionCall == CHOOSE c \in PartitionCalls : TRUE
IdleScalarCall == CHOOSE c \in ScalarRequests : c.args = <<>>

IdleSplit == asking = IdleSplitCall /\ fleet = IdleFleet /\ SplitInit
IdleGen == gcall = IdleGenCall /\ GenInit
IdleFilter == fcall = IdleFilterCall /\ FilterInit
IdlePartition == pcall = IdlePartitionCall /\ PartitionInit
IdleScalar == scall = IdleScalarCall /\ ScalarInit

LibraryInit ==
  \/ /\ family = "splits" /\ SplitInit
     /\ IdleGen /\ IdleFilter /\ IdlePartition /\ CacheInit /\ IdleScalar
  \/ /\ family = "generators" /\ GenInit
     /\ IdleSplit /\ IdleFilter /\ IdlePartition /\ CacheInit /\ IdleScalar
  \/ /\ family = "filters" /\ FilterInit
     /\ IdleSplit /\ IdleGen /\ IdlePartition /\ CacheInit /\ IdleScalar
  \/ /\ family = "partitions" /\ PartitionInit
     /\ IdleSplit /\ IdleGen /\ IdleFilter /\ CacheInit /\ IdleScalar
  \/ /\ family = "cached" /\ CacheInit
     /\ IdleSplit /\ IdleGen /\ IdleFilter /\ IdlePartition /\ IdleScalar
  \/ /\ family = "scalars" /\ ScalarInit
     /\ IdleSplit /\ IdleGen /\ IdleFilter /\ IdlePartition /\ CacheInit

LibraryNext ==
  /\ \/ /\ family = "splits" /\ SplitNext
        /\ UNCHANGED <<genVars, filterVars, partitionVars, cacheVars, scalarVars>>
     \/ /\ family = "generators" /\ GenNext
        /\ UNCHANGED <<splitVars, filterVars, partitionVars, cacheVars, scalarVars>>
     \/ /\ family = "filters" /\ FilterNext
        /\ UNCHANGED <<splitVars, genVars, partitionVars, cacheVars, scalarVars>>
     \/ /\ family = "partitions" /\ PartitionNext
        /\ UNCHANGED <<splitVars, genVars, filterVars, cacheVars, scalarVars>>
     \/ /\ family = "cached" /\ CacheNext
        /\ UNCHANGED <<splitVars, genVars, filterVars, partitionVars, scalarVars>>
     \/ /\ family = "scalars" /\ ScalarNext
        /\ UNCHANGED <<splitVars, genVars, filterVars, partitionVars, cacheVars>>
  /\ UNCHANGED family

SplitsProgress ==
  /\ family = "splits" /\ SplitProgress
  /\ UNCHANGED <<genVars, filterVars, partitionVars, cacheVars, scalarVars, family>>

LibrarySpec ==
  LibraryInit /\ [][LibraryNext]_libraryVars /\ WF_libraryVars(SplitsProgress)

\* FilteredScans: predicates that were accepted can be evaluated, a scan pruned by
\* them delivers every row they do not rule out and none a binding one rejects, and
\* what prunes it would lose no row of any other table.
FilteredAsAsked == AcceptedIsEvaluated /\ PrunedScanIsWhole /\ PruningLosesNoRow

\* ScalarCalls: a row's answer is made of its own arguments, and a sum is exact
\* or refused.
ScalarsAnswer == AnswersAreOfTheirRow /\ SumsHaveRoom

\* Every split scan ends - read, refused, expired or failed - whatever it plans
\* and whichever workers die: cursors are given up on, producers run dry
\* (table_function_plan, RangeProducer).
SplitScanEnds == (family = "splits") ~> (planned \notin {"planning", "reading"})
=============================================================================
