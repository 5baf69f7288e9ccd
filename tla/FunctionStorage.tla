--------------------------- MODULE FunctionStorage ---------------------------
(***************************************************************************)
(* One log directory of FilesystemStorage (src/storage.cpp): the           *)
(* append-only log behind `append` and the work queue behind `queue_push`  *)
(* and `queue_pop`.  Worker processes share it through the file system     *)
(* only, so one action is one system call that other processes can see.    *)
(*                                                                         *)
(* A log id is represented by up to four file names:                       *)
(*    <id>.claim                an exclusive reservation (O_CREAT|O_EXCL)  *)
(*    <id>.entry                the published payload                      *)
(*    <id>.used                 the tombstone of a spent id                *)
(*    <id>.entry.claimed.<pid>  an entry that one popper renamed to itself *)
(* The temporary of write_file_atomically exists only while its writer     *)
(* holds <id>.claim, so it adds no id to a directory walk.                 *)
(***************************************************************************)
EXTENDS Integers, Sequences, FiniteSets

CONSTANTS
  Procs,             \* worker processes (pids)
  Items,             \* payloads
  Batches,           \* the vectors handed to queue_push; `append` has length 1
  MaxClaimAttempts   \* kMaxClaimAttempts: ids one claim_from tries

ASSUME BatchesAssumption ==
  Batches \subseteq Seq(Items) \ {<< >>}

ASSUME AttemptsAssumption ==
  MaxClaimAttempts \in Nat \ {0}

VARIABLES
  claim,      \* ids with a <id>.claim file
  entry,      \* published payloads: <id>.entry and its content
  used,       \* ids with a <id>.used tombstone
  claimed,    \* <id>.entry.claimed.<pid> files
  pc,         \* the next system call of each process
  id,         \* the id that call is about
  limit,      \* the bound of claim_from's loop
  queue,      \* the items this push has still to publish
  cursor,     \* queue_cursors_[scope]
  high,       \* queue_highs_[scope], Unknown when the map has no element
  pending,    \* the lowest id skipped in this pass, 0 when there is none
  result,     \* what the last queue_pop of the process returned
  cleared     \* clear(scope) has run

\* History: what happened, in no file and no process.
VARIABLES
  unsent,     \* batches not handed to a push yet
  published,  \* every payload ever renamed to <id>.entry
  acked,      \* ids claim_from has returned
  before,     \* the ids already acked when the push of a process began
  delivered   \* payloads queue_pop has returned, and to whom

files    == <<claim, entry, used, claimed>>
pushVars == <<limit, queue, before>>
popVars  == <<cursor, high, pending, result>>
history  == <<unsent, published, acked, delivered>>
vars     == <<files, pc, id, pushVars, popVars, cleared, history>>

Unknown == -1

Entry   == [id : Nat, value : Items]
Claimed == [id : Nat, value : Items, proc : Procs]

IdsOf(S) == {e.id : e \in S}

\* The payload a claimed or delivered record carries.
Payload(c) == [id |-> c.id, value |-> c.value]

PushSteps == {"claim", "check_entry", "check_used", "release", "publish",
              "finalize"}
PopSteps  == {"probe", "exists_claim", "read"}

\* Files highest_id walks over: strtoll reads the id off every name.
FileIds == claim \cup used \cup IdsOf(entry) \cup IdsOf(claimed)

\* highest_id: h is what one walk of the directory computes, 0 when empty.
IsHighestId(h) ==
  /\ h \in FileIds \cup {0}
  /\ \A i \in FileIds : i <= h

-----------------------------------------------------------------------------
Init ==
  /\ claim = {} /\ entry = {} /\ used = {} /\ claimed = {}
  /\ pc = [p \in Procs |-> "idle"]
  /\ id = [p \in Procs |-> 0]
  /\ limit = [p \in Procs |-> 0]
  /\ queue = [p \in Procs |-> << >>]
  /\ before = [p \in Procs |-> {}]
  /\ cursor = [p \in Procs |-> 0]
  /\ high = [p \in Procs |-> Unknown]
  /\ pending = [p \in Procs |-> 0]
  /\ result = [p \in Procs |-> "none"]
  /\ cleared = FALSE
  /\ unsent = Batches
  /\ published = {} /\ acked = {} /\ delivered = {}

Goto(p, from, to) ==
  /\ pc[p] = from
  /\ pc' = [pc EXCEPT ![p] = to]

-----------------------------------------------------------------------------
(* append, queue_push and claim_from                                       *)

\* Create the directory, walk it once, start claiming above what was found.
BeginPush(p, batch) ==
  /\ ~cleared
  /\ batch \in unsent
  /\ Goto(p, "idle", "claim")
  /\ \E h \in FileIds \cup {0} :
       /\ IsHighestId(h)
       /\ id' = [id EXCEPT ![p] = h + 1]
       /\ limit' = [limit EXCEPT ![p] = h + 1 + MaxClaimAttempts]
  /\ queue' = [queue EXCEPT ![p] = batch]
  /\ before' = [before EXCEPT ![p] = acked]
  /\ unsent' = unsent \ {batch}
  /\ UNCHANGED <<files, popVars, cleared, published, acked, delivered>>

\* Mutant of ClaimWon: the create is not exclusive.
ClaimWonShared(p) ==
  /\ id[p] < limit[p]
  /\ Goto(p, "claim", "check_entry")
  /\ claim' = claim \cup {id[p]}
  /\ UNCHANGED <<entry, used, claimed, id, pushVars, popVars, cleared, history>>

\* TryClaimFile: the exclusive create succeeds.
ClaimWon(p) ==
  /\ id[p] < limit[p]
  /\ id[p] \notin claim
  /\ Goto(p, "claim", "check_entry")
  /\ claim' = claim \cup {id[p]}
  /\ UNCHANGED <<entry, used, claimed, id, pushVars, popVars, cleared, history>>

\* Mutant of ClaimLost: the loop retries the same id.
ClaimLostRetries(p) ==
  /\ id[p] < limit[p]
  /\ id[p] \in claim
  /\ pc[p] = "claim"
  /\ UNCHANGED vars

\* TryClaimFile: EEXIST, another worker took this id.
ClaimLost(p) ==
  /\ id[p] < limit[p]
  /\ id[p] \in claim
  /\ pc[p] = "claim"
  /\ id' = [id EXCEPT ![p] = @ + 1]
  /\ UNCHANGED <<files, pc, pushVars, popVars, cleared, history>>

\* "could not claim a log id": the rest of the batch is never written.
ClaimExhausted(p) ==
  /\ id[p] >= limit[p]
  /\ Goto(p, "claim", "idle")
  /\ UNCHANGED <<files, id, pushVars, popVars, cleared, history>>

\* fs::exists(entry): the directory walk was stale and the id is published.
CheckEntry(p) ==
  /\ Goto(p, "check_entry",
          IF id[p] \in IdsOf(entry) THEN "release" ELSE "check_used")
  /\ UNCHANGED <<files, id, pushVars, popVars, cleared, history>>

\* Mutant of CheckUsed: only the entry name is looked at.
CheckUsedSkipped(p) ==
  /\ Goto(p, "check_used", "publish")
  /\ UNCHANGED <<files, id, pushVars, popVars, cleared, history>>

\* fs::exists(used): published, and popped since.
CheckUsed(p) ==
  /\ Goto(p, "check_used", IF id[p] \in used THEN "release" ELSE "publish")
  /\ UNCHANGED <<files, id, pushVars, popVars, cleared, history>>

\* fs::remove(reservation); continue
Release(p) ==
  /\ Goto(p, "release", "claim")
  /\ claim' = claim \ {id[p]}
  /\ id' = [id EXCEPT ![p] = @ + 1]
  /\ UNCHANGED <<entry, used, claimed, pushVars, popVars, cleared, history>>

\* write_file_atomically: the rename installs the payload over the name.
Publish(p) ==
  LET e == [id |-> id[p], value |-> Head(queue[p])] IN
  /\ Goto(p, "publish", "finalize")
  /\ entry' = {x \in entry : x.id # id[p]} \cup {e}
  /\ published' = published \cup {e}
  /\ UNCHANGED <<claim, used, claimed, id, pushVars, popVars, cleared,
                 unsent, acked, delivered>>

\* write_file_atomically throws (a full disk); the reservation stays behind.
WriteFails(p) ==
  /\ Goto(p, "publish", "idle")
  /\ UNCHANGED <<files, id, pushVars, popVars, cleared, history>>

\* Mutant of Finalize: the reservation is removed and leaves no tombstone.
FinalizeNoTombstone(p) ==
  LET rest == Tail(queue[p]) IN
  /\ Goto(p, "finalize", IF rest = << >> THEN "idle" ELSE "claim")
  /\ claim' = claim \ {id[p]}
  /\ acked' = acked \cup {id[p]}
  /\ queue' = [queue EXCEPT ![p] = rest]
  /\ id' = [id EXCEPT ![p] = @ + 1]
  /\ limit' = [limit EXCEPT ![p] = id[p] + 1 + MaxClaimAttempts]
  /\ UNCHANGED <<entry, used, claimed, before, popVars, cleared,
                 unsent, published, delivered>>

\* fs::rename(reservation, used); return id, and on to the next item.
Finalize(p) ==
  LET rest == Tail(queue[p]) IN
  /\ Goto(p, "finalize", IF rest = << >> THEN "idle" ELSE "claim")
  /\ claim' = claim \ {id[p]}
  /\ used' = used \cup {id[p]}
  /\ acked' = acked \cup {id[p]}
  /\ queue' = [queue EXCEPT ![p] = rest]
  /\ id' = [id EXCEPT ![p] = @ + 1]
  /\ limit' = [limit EXCEPT ![p] = id[p] + 1 + MaxClaimAttempts]
  /\ UNCHANGED <<entry, claimed, before, popVars, cleared,
                 unsent, published, delivered>>

-----------------------------------------------------------------------------
(* queue_pop                                                               *)

\* The high-water mark is walked for once and cached in queue_highs_.
BeginPop(p) ==
  /\ ~cleared
  /\ FileIds # {}
  /\ Goto(p, "idle", "probe")
  /\ id' = [id EXCEPT ![p] = cursor[p] + 1]
  /\ pending' = [pending EXCEPT ![p] = 0]
  /\ result' = [result EXCEPT ![p] = "none"]
  /\ \E h \in FileIds \cup {0} :
       /\ IsHighestId(h)
       /\ high' = [high EXCEPT ![p] = IF @ = Unknown THEN h ELSE @]
  /\ UNCHANGED <<files, pushVars, cursor, cleared, history>>

\* fs::rename(entry, claimed) succeeds for exactly one popper.
TakeEntry(p) ==
  /\ id[p] <= high[p]
  /\ Goto(p, "probe", "read")
  /\ \E e \in entry :
       /\ e.id = id[p]
       /\ entry' = entry \ {e}
       /\ claimed' = claimed \cup
            {[id |-> e.id, value |-> e.value, proc |-> p]}
  /\ cursor' = [cursor EXCEPT ![p] =
       IF pending[p] # 0 THEN pending[p] - 1 ELSE id[p]]
  /\ UNCHANGED <<claim, used, id, pushVars, high, pending, result, cleared,
                 history>>

\* The rename fails: taken by another popper, or not published yet?
MissEntry(p) ==
  /\ id[p] <= high[p]
  /\ id[p] \notin IdsOf(entry)
  /\ Goto(p, "probe", "exists_claim")
  /\ UNCHANGED <<files, id, pushVars, popVars, cleared, history>>

\* fs::exists(<id>.claim) decides; a second system call after the rename.
CheckReservation(p) ==
  /\ Goto(p, "exists_claim", "probe")
  /\ pending' = [pending EXCEPT ![p] =
       IF id[p] \in claim /\ @ = 0 THEN id[p] ELSE @]
  /\ id' = [id EXCEPT ![p] = @ + 1]
  /\ UNCHANGED <<files, pushVars, cursor, high, result, cleared, history>>

\* read_file(claimed); fs::remove(claimed); return value
ReadClaimed(p) ==
  /\ Goto(p, "read", "idle")
  /\ \E c \in claimed :
       /\ c.proc = p /\ c.id = id[p]
       /\ claimed' = claimed \ {c}
       /\ delivered' = delivered \cup {c}
  /\ result' = [result EXCEPT ![p] = "item"]
  /\ UNCHANGED <<claim, entry, used, id, pushVars, cursor, high, pending,
                 cleared, unsent, published, acked>>

\* Mutant of RewindToPending: the cursor keeps where the probe ended.
RewindForgotten(p) ==
  /\ id[p] > high[p]
  /\ pending[p] # 0
  /\ Goto(p, "probe", "idle")
  /\ cursor' = [cursor EXCEPT ![p] = id[p] - 1]
  /\ result' = [result EXCEPT ![p] = "empty"]
  /\ UNCHANGED <<files, id, pushVars, high, pending, cleared, history>>

\* Drained but for a push in flight: rewind, return nullopt.
RewindToPending(p) ==
  /\ id[p] > high[p]
  /\ pending[p] # 0
  /\ Goto(p, "probe", "idle")
  /\ cursor' = [cursor EXCEPT ![p] = pending[p] - 1]
  /\ result' = [result EXCEPT ![p] = "empty"]
  /\ UNCHANGED <<files, id, pushVars, high, pending, cleared, history>>

\* Mutant of RefreshHigh: probes again although the mark did not rise.
RefreshHighSpins(p) ==
  /\ id[p] > high[p]
  /\ pending[p] = 0
  /\ \E h \in FileIds \cup {0} :
       /\ IsHighestId(h)
       /\ high' = [high EXCEPT ![p] = h]
       /\ \/ /\ h < high[p]
             /\ Goto(p, "probe", "idle")
             /\ result' = [result EXCEPT ![p] = "empty"]
             /\ id' = id
          \/ /\ h >= high[p]
             /\ Goto(p, "probe", "probe")
             /\ id' = [id EXCEPT ![p] = cursor[p] + 1]
             /\ result' = result
  /\ UNCHANGED <<files, pushVars, cursor, pending, cleared, history>>

\* Nothing below the known mark: walk the directory again; probe once more
\* if the mark rose, else return nullopt.
RefreshHigh(p) ==
  /\ id[p] > high[p]
  /\ pending[p] = 0
  /\ \E h \in FileIds \cup {0} :
       /\ IsHighestId(h)
       /\ high' = [high EXCEPT ![p] = h]
       /\ \/ /\ h <= high[p]
             /\ Goto(p, "probe", "idle")
             /\ result' = [result EXCEPT ![p] = "empty"]
             /\ id' = id
          \/ /\ h > high[p]
             /\ Goto(p, "probe", "probe")
             /\ id' = [id EXCEPT ![p] = cursor[p] + 1]
             /\ result' = result
  /\ UNCHANGED <<files, pushVars, cursor, pending, cleared, history>>

-----------------------------------------------------------------------------
\* clear(scope).  The engine's destructor call is the last of an execution:
\* no call of the scope is running and none follows.
Clear(p) ==
  /\ ~cleared
  /\ \A q \in Procs : pc[q] \in {"idle", "dead"}
  /\ pc[p] = "idle"
  /\ cleared' = TRUE
  /\ claim' = {} /\ entry' = {} /\ used' = {} /\ claimed' = {}
  /\ cursor' = [cursor EXCEPT ![p] = 0]
  /\ high' = [high EXCEPT ![p] = Unknown]
  /\ UNCHANGED <<pc, id, pushVars, pending, result, history>>

\* The worker process dies between two system calls; its files stay and its
\* memory goes.
Crash(p) ==
  /\ pc[p] # "dead"
  /\ pc' = [pc EXCEPT ![p] = "dead"]
  /\ id' = [id EXCEPT ![p] = 0]
  /\ limit' = [limit EXCEPT ![p] = 0]
  /\ queue' = [queue EXCEPT ![p] = << >>]
  /\ before' = [before EXCEPT ![p] = {}]
  /\ cursor' = [cursor EXCEPT ![p] = 0]
  /\ high' = [high EXCEPT ![p] = Unknown]
  /\ pending' = [pending EXCEPT ![p] = 0]
  /\ result' = [result EXCEPT ![p] = "none"]
  /\ UNCHANGED <<files, cleared, history>>

PushStep(p) ==
  \/ ClaimWon(p) \/ ClaimLost(p) \/ ClaimExhausted(p)
  \/ CheckEntry(p) \/ CheckUsed(p) \/ Release(p)
  \/ Publish(p) \/ WriteFails(p) \/ Finalize(p)

PopStep(p) ==
  \/ TakeEntry(p) \/ MissEntry(p) \/ CheckReservation(p) \/ ReadClaimed(p)
  \/ RewindToPending(p) \/ RefreshHigh(p)

Next ==
  \E p \in Procs :
    \/ \E batch \in Batches : BeginPush(p, batch)
    \/ PushStep(p)
    \/ BeginPop(p)
    \/ PopStep(p)
    \/ Clear(p)
    \/ Crash(p)

Spec == Init /\ [][Next]_vars

\* A live process keeps executing the call it is in; when calls are made is
\* the engine's choice.
FairSpec ==
  Spec /\ \A p \in Procs : WF_vars(PushStep(p)) /\ WF_vars(PopStep(p))

-----------------------------------------------------------------------------
(* Properties                                                              *)

TypeOK ==
  /\ claim \subseteq Nat /\ used \subseteq Nat
  /\ entry \subseteq Entry /\ claimed \subseteq Claimed
  /\ pc \in [Procs -> {"idle", "dead"} \cup PushSteps \cup PopSteps]
  /\ id \in [Procs -> Nat]
  /\ limit \in [Procs -> Nat]
  /\ queue \in [Procs -> Seq(Items)]
  /\ \A p \in Procs : pc[p] \in PushSteps => queue[p] # << >>
  /\ before \in [Procs -> SUBSET Nat]
  /\ cursor \in [Procs -> Nat]
  /\ high \in [Procs -> Nat \cup {Unknown}]
  /\ \A p \in Procs : pc[p] \in PopSteps => high[p] \in Nat
  /\ pending \in [Procs -> Nat]
  /\ result \in [Procs -> {"none", "item", "empty"}]
  /\ cleared \in BOOLEAN
  /\ unsent \subseteq Batches
  /\ published \subseteq Entry
  /\ acked \subseteq Nat
  /\ delivered \subseteq Claimed

\* An id is published under at most once: no appender overwrites another's
\* batch, and an id stays spent after its entry is popped (claim_from).
IdSpentOnce ==
  \A e, f \in published : e.id = f.id => e = f

\* Until the scope is cleared every payload ever published is in exactly one
\* place: in its entry, in the hands of one popper (living or dead), or
\* returned by exactly one queue_pop.  Nothing is lost, duplicated or invented.
Conservation ==
  ~cleared =>
    /\ entry \subseteq published
    /\ \A c \in claimed \cup delivered :
         /\ Payload(c) \in published
         /\ \A e \in entry : e.id # c.id
         /\ \A d \in claimed \cup delivered : c.id = d.id => c = d
    /\ claimed \cap delivered = {}
    /\ \A e \in published :
         e \in entry \/ \E c \in claimed \cup delivered : Payload(c) = e

\* `append` returns monotonic ids: a push publishes only above every id that
\* was already returned to some process when it began, whatever has been
\* popped in between (storage.h:41, claim_from's tombstones).
MonotonicIds ==
  \A p \in Procs : pc[p] = "finalize" => \A i \in before[p] : i < id[p]

\* The abstract log: published payloads, less those still in an entry.
Abstract ==
  INSTANCE SharedLog WITH log <- published, out <- published \ entry

\* The directory implements the shared log of storage.h: every step adds one
\* payload under a fresh id, hands out one payload nobody was handed, discards
\* the rest, or changes nothing a caller can tell.
ImplementsSharedLog == Abstract!Spec

\* Every append, queue_push and queue_pop returns, whatever reservations dead
\* processes left and however the other processes race for ids.
CallsReturn ==
  \A p \in Procs :
    pc[p] \in PushSteps \cup PopSteps ~> pc[p] \in {"idle", "dead"}

\* The comments in queue_pop: "an id this process passed over was one another
\* popper had already claimed" and "The cursor must not move past it: an id
\* passed over is never probed again, and the item on it would be stranded".
CursorStrandsNothing ==
  \A p \in Procs, e \in entry : pc[p] # "dead" => e.id > cursor[p]

-----------------------------------------------------------------------------
(* The inductive invariant behind IdSpentOnce, Conservation, MonotonicIds  *)
(* and ImplementsSharedLog                                                 *)

Holds(p) == pc[p] \in PushSteps \ {"claim"}

\* A process between TryClaimFile and the release or the tombstone holds the
\* reservation of its id, and holds it alone.
Reservations ==
  /\ \A p \in Procs : Holds(p) => id[p] \in claim
  /\ \A p, q \in Procs : Holds(p) /\ Holds(q) /\ id[p] = id[q] => p = q

\* A published id is marked by its reservation until it has its tombstone; an
\* id reserved anew is marked by the tombstone if it was published before,
\* which is what the checks after the claim rely on.
SpentIds ==
  /\ ~cleared => \A e \in published : e.id \in claim \cup used
  /\ ~cleared => acked \subseteq used
  /\ \A p \in Procs, e \in published :
       pc[p] \in {"check_entry", "check_used", "release"} /\ e.id = id[p]
         => id[p] \in used
  /\ \A p \in Procs, e \in published : pc[p] = "publish" => e.id # id[p]

\* After clear nothing of the scope runs.
QuietWhenCleared ==
  cleared => entry = {} /\ \A p \in Procs : pc[p] \in {"idle", "dead"}

\* A push stays above the ids returned before it began.
AboveBefore ==
  \A p \in Procs : pc[p] \in PushSteps => \A i \in before[p] : i < id[p]

IInv ==
  /\ TypeOK
  /\ Reservations
  /\ SpentIds
  /\ QuietWhenCleared
  /\ AboveBefore
  /\ IdSpentOnce
  /\ Conservation

=============================================================================
