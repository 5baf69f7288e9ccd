----------------------------- MODULE ScopeSweep ------------------------------
(***************************************************************************)
(* Reclaiming storage scopes: sweep_stale of FilesystemStorage             *)
(* (src/storage.cpp), run by every worker process that starts, against the *)
(* calls that keep a scope in use and the clear that ends it.              *)
(*                                                                         *)
(* Of one scope <base>/<hex(scope)>/ the model keeps the age of its        *)
(* directory's mtime.  A directory's mtime moves when a name is created,   *)
(* renamed or removed in that directory itself, not in a directory below.  *)
(* Ages count ticks and saturate one above Day.                            *)
(***************************************************************************)
EXTENDS Naturals

CONSTANTS
  Day,        \* 24 h, in ticks
  Sweepers    \* worker processes that start, and start again

DayAssumption == Day \in Nat \ {0}

VARIABLES
  dir,        \* the scope directory exists
  dirAge,     \* ticks since its mtime
  logDir,     \* the nested log_<ns>__<key> directory exists
  kv,         \* a kv file exists in the scope
  look,       \* per sweeper: "none", or what last_write_time said, "stale"
  open,       \* an execution or an attachment still uses the scope
  useAge,     \* history: ticks since its last call that wrote to the scope
  kvAge,      \* history: ticks since the key that is there was put, Day + 1 else
  late,       \* history: sweepers whose look was before the last kv_put
  sweptUseAge \* history: useAge when the scope was last swept, Day + 1 else

vars == <<dir, dirAge, logDir, kv, look, open, useAge, kvAge, late, sweptUseAge>>

Old == Day + 1
Ages == 0..Old
Older(a) == IF a = Old THEN Old ELSE a + 1

Init ==
  /\ dir = FALSE /\ dirAge = 0 /\ logDir = FALSE /\ kv = FALSE
  /\ look = [s \in Sweepers |-> "none"]
  /\ open = TRUE
  /\ useAge = Old /\ kvAge = Old /\ late = {} /\ sweptUseAge = Old

\* Mutant of KvPut: the key is a name in a directory below, as an entry of a
\* log is, and only the first one moves the mtime.
KvPutNested ==
  /\ open
  /\ dir' = TRUE /\ kv' = TRUE
  /\ dirAge' = IF dir THEN dirAge ELSE 0
  /\ useAge' = 0 /\ kvAge' = 0
  /\ late' = {s \in Sweepers : look[s] = "stale"}
  /\ UNCHANGED <<logDir, look, open, sweptUseAge>>

\* kv_put: create_directories, then a temporary created and renamed in the
\* scope directory itself.
KvPut ==
  /\ open
  /\ dir' = TRUE /\ kv' = TRUE
  /\ dirAge' = 0 /\ useAge' = 0 /\ kvAge' = 0
  /\ late' = {s \in Sweepers : look[s] = "stale"}
  /\ UNCHANGED <<logDir, look, open, sweptUseAge>>

\* kv_del: the name goes if it is there.
KvDel ==
  /\ open /\ kv
  /\ kv' = FALSE
  /\ dirAge' = 0 /\ useAge' = 0 /\ kvAge' = Old
  /\ UNCHANGED <<dir, logDir, look, open, late, sweptUseAge>>

\* append and queue_push: only the first creates a name in the scope
\* directory, the nested directory itself; every claim, entry and tombstone
\* is a name in the nested one.
Append ==
  /\ open
  /\ dir' = TRUE /\ logDir' = TRUE
  /\ useAge' = 0
  /\ dirAge' = IF logDir THEN dirAge ELSE 0
  /\ UNCHANGED <<kv, look, open, kvAge, late, sweptUseAge>>

\* clear: the destructor's or the commit's remove_all, the scope's last call.
Clear ==
  /\ open
  /\ open' = FALSE
  /\ dir' = FALSE /\ logDir' = FALSE /\ kv' = FALSE /\ kvAge' = Old
  /\ UNCHANGED <<dirAge, look, useAge, late, sweptUseAge>>

\* A cancelled scan or a killed worker: nobody will ever clear the scope.
Abandon ==
  /\ open
  /\ open' = FALSE
  /\ UNCHANGED <<dir, dirAge, logDir, kv, look, useAge, kvAge, late, sweptUseAge>>

\* Mutant of Look: a scope is stale only if it holds no file.
LookEmpty(s) ==
  /\ dir
  /\ look[s] = "none"
  /\ look' = [look EXCEPT ![s] =
       IF dirAge > Day /\ ~logDir THEN "stale" ELSE "none"]
  /\ UNCHANGED <<dir, dirAge, logDir, kv, open, useAge, kvAge, late, sweptUseAge>>

\* A worker starts and sweep_stale reads the directory's mtime;
\* written >= cutoff is kept.
Look(s) ==
  /\ dir
  /\ look[s] = "none"
  /\ look' = [look EXCEPT ![s] = IF dirAge > Day THEN "stale" ELSE "none"]
  /\ UNCHANGED <<dir, dirAge, logDir, kv, open, useAge, kvAge, late, sweptUseAge>>

\* fs::remove_all, on the strength of that look.
Sweep(s) ==
  /\ look[s] = "stale"
  /\ look' = [look EXCEPT ![s] = "none"]
  /\ dir' = FALSE /\ logDir' = FALSE /\ kv' = FALSE /\ kvAge' = Old
  /\ late' = late \ {s}
  /\ sweptUseAge' = IF dir /\ open THEN useAge ELSE sweptUseAge
  /\ UNCHANGED <<dirAge, open, useAge>>

Tick ==
  /\ dirAge' = Older(dirAge)
  /\ useAge' = Older(useAge)
  /\ kvAge' = Older(kvAge)
  /\ UNCHANGED <<dir, logDir, kv, look, open, late, sweptUseAge>>

Next ==
  \/ KvPut \/ KvDel \/ Append \/ Clear \/ Abandon \/ Tick
  \/ \E s \in Sweepers : Look(s) \/ Sweep(s)

\* Time passes, and workers keep starting and finishing their sweep.
Fairness ==
  /\ WF_vars(Tick)
  /\ \A s \in Sweepers : WF_vars(Look(s)) /\ WF_vars(Sweep(s))

Spec == Init /\ [][Next]_vars /\ Fairness

-----------------------------------------------------------------------------
(* Properties                                                              *)

\* No removal destroys a key that was put within the day, in whatever order the
\* looks and removals of several starting workers fall among the calls, except
\* one put in the window between that sweeper's own look and its removal, which
\* sweep_stale leaves open.
SweepSparesFreshKeys ==
  [][\A s \in Sweepers :
       look[s] = "stale" /\ look'[s] = "none" => kvAge > Day \/ s \in late]_vars

\* "leaves its directory behind forever ... accumulates without bound" is
\* what the sweep prevents: a scope nobody will clear is reclaimed.
AbandonedIsReclaimed == ~open ~> ~dir

\* "an *active* scope keeps writing: every kv_put and every queue claim
\* touches the directory.  A live collection therefore never looks stale,
\* however long the query runs" (storage.cpp:246).
LiveNeverSwept == sweptUseAge > Day
=============================================================================
