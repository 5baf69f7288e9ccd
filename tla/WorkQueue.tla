------------------------------ MODULE WorkQueue ------------------------------
(***************************************************************************)
(* The two ways the queue of FunctionStorage is driven.                    *)
(*                                                                         *)
(* A parallel table scan (example-worker/table/partitioned.cpp over        *)
(* function_dispatch.cpp's init): the primary init pushes every chunk in   *)
(* one queue_push before it answers, and only an answered init has         *)
(* workers; each then pops until the queue answers nullopt, and is done.   *)
(*                                                                         *)
(* Pushes that never overlap one another, with pops at any time: the       *)
(* weakest discipline under which queue_pop's cursor is sound.             *)
(***************************************************************************)
EXTENDS FunctionStorage

CONSTANTS
  Primary,   \* the process that serves the primary init
  Chunks     \* the items on_init divides the scan into

ASSUME ScanAssumption == Primary \in Procs /\ Chunks \in Batches

-----------------------------------------------------------------------------
(* The parallel scan                                                       *)

\* on_init returned: init answers, and the engine opens the other workers.
InitAnswered ==
  /\ Chunks \notin unsent
  /\ Cardinality(acked) = Len(Chunks)

\* init, primary: on_init divides the work, and only once.
OnInit == BeginPush(Primary, Chunks)

\* Mutant of NextChunk: workers are opened before on_init has returned.
NextChunkEarly(p) ==
  /\ result[p] # "empty"
  /\ BeginPop(p)

\* ChunkProducer::next_batch needs another chunk; nullptr once it got none.
NextChunk(p) ==
  /\ InitAnswered
  /\ result[p] # "empty"
  /\ BeginPop(p)

\* A worker's producer has finished: its queue_pop returned nullopt.
Finished(p) == result[p] = "empty" /\ pc[p] = "idle"

ScanNext ==
  \/ OnInit
  \/ \E p \in Procs : PushStep(p)
  \/ \E p \in Procs : NextChunk(p) \/ PopStep(p)
  \/ \E p \in Procs : Crash(p)

\* A live process keeps executing the call it is in, and the engine keeps
\* pulling a stream until it ends.
ScanFairness ==
  /\ WF_vars(OnInit)
  /\ \A p \in Procs : WF_vars(PushStep(p)) /\ WF_vars(PopStep(p) \/ NextChunk(p))

ScanSpec == Init /\ [][ScanNext]_vars /\ ScanFairness

\* A worker that ends its stream leaves no chunk behind: nullopt is returned
\* only when every chunk has been renamed away by some worker, although each
\* worker probes with its own cursor and its own stale high-water mark.
FinishedMeansDrained ==
  \A p \in Procs : Finished(p) => entry = {}

\* Once init has answered, the scan ends: every chunk reaches exactly one
\* worker or was in the hands of a worker that died, and every live worker
\* finishes (unless all of them die).
ScanCompletes ==
  InitAnswered ~>
    \/ \A p \in Procs : pc[p] = "dead"
    \/ /\ \A p \in Procs : pc[p] = "dead" \/ Finished(p)
       /\ \A e \in published :
            \/ \E d \in delivered : Payload(d) = e
            \/ \E c \in claimed : Payload(c) = e /\ pc[c.proc] = "dead"

-----------------------------------------------------------------------------
(* Pushes one at a time, pops at any time                                  *)

NoPushRunning == \A p \in Procs : pc[p] \notin PushSteps

SerialNext ==
  \/ NoPushRunning /\ \E p \in Procs, batch \in Batches : BeginPush(p, batch)
  \/ \E p \in Procs : PushStep(p)
  \/ \E p \in Procs : BeginPop(p) \/ PopStep(p)
  \/ \E p \in Procs : Clear(p)
  \/ \E p \in Procs : Crash(p)

\* Workers that poll forever.
SerialFairness ==
  \A p \in Procs : WF_vars(PushStep(p)) /\ WF_vars(BeginPop(p) \/ PopStep(p))

SerialSafety == Init /\ [][SerialNext]_vars

SerialSpec == SerialSafety /\ SerialFairness

\* "Everything above is drained but a push is mid-flight below.  Rewind so
\* the next call sees it" (storage.cpp:213): while a worker keeps polling, an
\* item whose push returned is popped.
PushedIsPopped ==
  \A i \in 1..3 :
    i \in acked ~> i \notin IdsOf(entry) \/ \A p \in Procs : pc[p] = "dead"
=============================================================================
