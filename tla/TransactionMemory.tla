-------------------------- MODULE TransactionMemory --------------------------
(***************************************************************************)
(* What a transaction remembers: the scope of tx_cached_value in the store *)
(* every worker process shares (example-worker/table/transaction.cpp),     *)
(* which commit and rollback clear (src/catalog.cpp) and a starting worker *)
(* sweeps.  A call site is bound and then scanned, each by a call that     *)
(* reads the scope and, finding nothing, writes its seed.  The engine      *)
(* binds the call sites of a transaction one at a time and may scan them   *)
(* at the same time; a scan that is cancelled may still be running when    *)
(* the transaction ends.                                                   *)
(***************************************************************************)
EXTENDS Naturals, FiniteSets

CONSTANTS
  Sites,        \* call sites; each asks for one key with its own seed
  KeyOf, SeedOf,
  Forgotten,    \* nothing stored
  MemoryDay     \* 24 h, in ticks

VARIABLES
  autocommit,   \* the engine opened no catalog transaction
  ended,        \* it was committed or rolled back
  memory,       \* per key, what the scope holds
  memoryAge,    \* ticks since a name was put there
  site,         \* per call site: new, binding, bound, scanning, done
  looked,       \* whether the call in hand read the scope and found nothing
  saw,          \* per call site, what bind and init resolved
  lost          \* history: the scope was swept while the transaction ran

txVars == <<autocommit, ended, memory, memoryAge, site, looked, saw, lost>>

Keys == {KeyOf[s] : s \in Sites}
Empty == [k \in Keys |-> Forgotten]
TransactionMemoryAssumption == MemoryDay \in Nat /\ Forgotten \notin {SeedOf[s] : s \in Sites}

Init ==
  /\ autocommit \in BOOLEAN
  /\ ended = FALSE /\ memory = Empty /\ memoryAge = 0
  /\ site = [s \in Sites |-> "new"] /\ looked = [s \in Sites |-> FALSE]
  /\ saw = [s \in Sites |-> [bind |-> Forgotten, init |-> Forgotten]]
  /\ lost = FALSE

\* A call is bind in site state "binding", init in "scanning".
CallOf(s) == IF site[s] = "binding" THEN "bind" ELSE "init"
After(s) == IF site[s] = "binding" THEN "bound" ELSE "done"

CallBind(s) ==
  /\ site[s] = "new" /\ ~ended
  /\ \A t \in Sites : site[t] # "binding"
  /\ site' = [site EXCEPT ![s] = "binding"]
  /\ UNCHANGED <<autocommit, ended, memory, memoryAge, looked, saw, lost>>

CallInit(s) ==
  /\ site[s] = "bound" /\ ~ended
  /\ site' = [site EXCEPT ![s] = "scanning"]
  /\ UNCHANGED <<autocommit, ended, memory, memoryAge, looked, saw, lost>>

\* resolve, first half: kv_get, and what is there is the answer.
ResolveGet(s) ==
  LET stored == memory[KeyOf[s]] IN
  /\ site[s] \in {"binding", "scanning"} /\ ~looked[s] /\ ~autocommit
  /\ IF stored = Forgotten
     THEN looked' = [looked EXCEPT ![s] = TRUE] /\ UNCHANGED <<site, saw>>
     ELSE /\ saw' = [saw EXCEPT ![s][CallOf(s)] = stored]
          /\ site' = [site EXCEPT ![s] = After(s)]
          /\ UNCHANGED looked
  /\ UNCHANGED <<autocommit, ended, memory, memoryAge, lost>>

\* Mutant: the seed is reported and not kept.
ResolveForget(s) ==
  /\ looked[s]
  /\ saw' = [saw EXCEPT ![s][CallOf(s)] = SeedOf[s]]
  /\ site' = [site EXCEPT ![s] = After(s)]
  /\ looked' = [looked EXCEPT ![s] = FALSE]
  /\ UNCHANGED <<autocommit, ended, memory, memoryAge, lost>>

\* resolve, second half: kv_put of the seed, which creates the scope.
ResolvePut(s) ==
  /\ looked[s]
  /\ memory' = [memory EXCEPT ![KeyOf[s]] = SeedOf[s]] /\ memoryAge' = 0
  /\ saw' = [saw EXCEPT ![s][CallOf(s)] = SeedOf[s]]
  /\ site' = [site EXCEPT ![s] = After(s)]
  /\ looked' = [looked EXCEPT ![s] = FALSE]
  /\ UNCHANGED <<autocommit, ended, lost>>

\* resolve without a transaction.
ResolveSeed(s) ==
  /\ site[s] \in {"binding", "scanning"} /\ autocommit
  /\ saw' = [saw EXCEPT ![s][CallOf(s)] = SeedOf[s]]
  /\ site' = [site EXCEPT ![s] = After(s)]
  /\ UNCHANGED <<autocommit, ended, memory, memoryAge, looked, lost>>

\* catalog_transaction_commit and rollback.
End ==
  /\ ~ended /\ ~autocommit
  /\ \A s \in Sites : site[s] # "binding"
  /\ ended' = TRUE
  /\ memory' = Empty
  /\ UNCHANGED <<autocommit, memoryAge, site, looked, saw, lost>>

\* Mutant: the cutoff is compared the wrong way round.
SweepFresh ==
  /\ memory # Empty /\ memoryAge <= MemoryDay
  /\ memory' = Empty
  /\ lost' = (lost \/ ~ended)
  /\ UNCHANGED <<autocommit, ended, memoryAge, site, looked, saw>>

\* A worker starts: the scope goes if nothing was put there for a day.
SweepMemory ==
  /\ memory # Empty /\ memoryAge > MemoryDay
  /\ memory' = Empty
  /\ lost' = (lost \/ ~ended)
  /\ UNCHANGED <<autocommit, ended, memoryAge, site, looked, saw>>

Age ==
  /\ memoryAge <= MemoryDay
  /\ memoryAge' = memoryAge + 1
  /\ UNCHANGED <<autocommit, ended, memory, site, looked, saw, lost>>

Next ==
  \/ \E s \in Sites :
       CallBind(s) \/ CallInit(s) \/ ResolveGet(s) \/ ResolvePut(s) \/ ResolveSeed(s)
  \/ End \/ SweepMemory \/ Age

-----------------------------------------------------------------------------
(* Properties                                                              *)

TransactionTypeOK ==
  /\ memory \in [Keys -> {SeedOf[s] : s \in Sites} \cup {Forgotten}]
  /\ site \in [Sites -> {"new", "binding", "bound", "scanning", "done"}]
  /\ memoryAge \in 0..(MemoryDay + 1)
  /\ \A s \in Sites : looked[s] => site[s] \in {"binding", "scanning"}

\* "the two only agree because they both read the same cross-process store":
\* while its transaction runs, every call of every site of a key resolves the
\* one value, the first seed, whichever processes serve them; a scan that
\* outlives its transaction reports that value or the seed of a scan that does.
OneAnswerPerTransaction ==
  ~autocommit /\ ~lost =>
    /\ \A s, t \in Sites : KeyOf[s] = KeyOf[t] /\ Forgotten \notin {saw[s].bind, saw[t].bind}
                             => saw[s].bind = saw[t].bind
    /\ \A s \in Sites : saw[s].init # Forgotten /\ saw[s].init # saw[s].bind
                          => ended /\ \E t \in Sites : KeyOf[t] = KeyOf[s] /\ saw[s].init = SeedOf[t]

\* Committing ends what the transaction remembered: a late call of a cancelled
\* scan may write it again, and then the sweep takes it.
EndedIsForgotten == ended ~> [](memory = Empty)
=============================================================================
