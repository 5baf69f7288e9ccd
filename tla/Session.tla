------------------------------- MODULE Session -------------------------------
(***************************************************************************)
(* What outlives a call: an attachment, a ticket for one, what a           *)
(* transaction remembers, and any other scope of storage with the sweep    *)
(* that reclaims it.  The parts share no state (the secrets of attachments *)
(* and the memory of transactions are scopes of their own), so a behaviour *)
(* is of one of them.                                                      *)
(***************************************************************************)
EXTENDS Attachments

CONSTANTS
  Sites, KeyOf, SeedOf, Forgotten, MemoryDay,     \* TransactionMemory
  SweepDay, Sweepers                              \* ScopeSweep

VARIABLES part, autocommit, ended, memory, memoryAge, site, looked, saw, lost
VARIABLES dir, dirAge, logDir, kv, look, open, useAge, kvAge, late, sweptUseAge

M == INSTANCE TransactionMemory
S == INSTANCE ScopeSweep WITH Day <- SweepDay

memVars == <<autocommit, ended, memory, memoryAge, site, looked, saw, lost>>
scopeVars == <<dir, dirAge, logDir, kv, look, open, useAge, kvAge, late, sweptUseAge>>
sessionVars == <<part, attachVars, memVars, scopeVars>>

ASSUME SessionAssumption ==
  AttachmentsAssumption /\ M!TransactionMemoryAssumption /\ S!DayAssumption

SessionInit ==
  /\ part \in {"attachments", "memory", "scope"}
  /\ Init /\ M!Init /\ S!Init
  /\ part # "memory" => ~autocommit
  /\ part # "attachments" => /\ setup = CHOOSE s \in Setups : TRUE
                             /\ ahead = [w \in Workers |-> 0]

Attachment == part = "attachments" /\ Next /\ UNCHANGED <<part, memVars, scopeVars>>
Remember == part = "memory" /\ M!Next /\ UNCHANGED <<part, attachVars, scopeVars>>
Reclaim == part = "scope" /\ S!Next /\ UNCHANGED <<part, attachVars, memVars>>
SessionNext == Attachment \/ Remember \/ Reclaim

\* Time passes, workers start now and then, and a call of resolve that began
\* ends.
Sweeps == part = "memory" /\ M!SweepMemory /\ UNCHANGED <<part, attachVars, scopeVars>>
Ages == part = "memory" /\ M!Age /\ UNCHANGED <<part, attachVars, scopeVars>>
Resolves(s) ==
  /\ part = "memory" /\ (M!ResolveGet(s) \/ M!ResolvePut(s))
  /\ UNCHANGED <<part, attachVars, scopeVars>>
InScope(A) == part = "scope" /\ A /\ UNCHANGED <<part, attachVars, memVars>>

SessionSafety == SessionInit /\ [][SessionNext]_sessionVars
SessionFairness ==
  /\ WF_sessionVars(Sweeps) /\ WF_sessionVars(Ages)
  /\ \A s \in Sites : WF_sessionVars(Resolves(s))
  /\ WF_sessionVars(InScope(S!Tick))
  /\ \A s \in Sweepers : WF_sessionVars(InScope(S!Look(s))) /\ WF_sessionVars(InScope(S!Sweep(s)))
SessionSpec == SessionSafety /\ SessionFairness

\* The types of the parts.
SessionTypeOK == AttachmentsTypeOK /\ M!TransactionTypeOK

\* TransactionMemory: bind and init agree, and call sites with each other.
OneAnswerPerTransaction == M!OneAnswerPerTransaction

\* TransactionMemory: an ended transaction's memory goes for good.
EndedIsForgotten == part = "memory" => M!EndedIsForgotten

\* ScopeSweep: a removal destroys no key put within the day, but in its window.
SweepSparesFreshKeys == S!SweepSparesFreshKeys

\* ScopeSweep: a scope that is left behind is reclaimed.
AbandonedIsReclaimed == part = "scope" => S!AbandonedIsReclaimed
=============================================================================
