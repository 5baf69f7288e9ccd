-------------------------- MODULE StorageFilesProofs --------------------------
(***************************************************************************)
(* Proofs about FunctionStorage, WorkQueue and StorageFiles, for any       *)
(* number of processes, any batches and any bound on claim attempts: ids   *)
(* are spent once and items conserved, the files implement the shared log, *)
(* values under a key are whole, the cursor of queue_pop strands nothing   *)
(* when pushes do not overlap, and a parallel scan's workers finish only   *)
(* when the queue is drained.                                              *)
(***************************************************************************)
EXTENDS StorageFiles, FiniteSetTheorems, TLAPS

-----------------------------------------------------------------------------
(* Type correctness                                                        *)

LEMMA FileIdsNat == TypeOK => FileIds \subseteq Nat
  BY DEF TypeOK, FileIds, IdsOf, Entry, Claimed

LEMMA EmptySeq == << >> \in Seq(Items)
  OBVIOUS

LEMMA TypeOKInit == Init => TypeOK
<1> SUFFICES ASSUME Init PROVE TypeOK
  OBVIOUS
<1> USE DEF Init
<1>1. cleared \in BOOLEAN
  OBVIOUS
<1>2. queue \in [Procs -> Seq(Items)]
  BY EmptySeq
<1>3. /\ pc \in [Procs -> {"idle", "dead"} \cup PushSteps \cup PopSteps]
      /\ result \in [Procs -> {"none", "item", "empty"}]
      /\ \A p \in Procs : pc[p] \notin PushSteps \cup PopSteps
  BY DEF PushSteps, PopSteps
<1>4. QED
  BY <1>1, <1>2, <1>3 DEF TypeOK, Unknown

LEMMA TypeOKStep == TypeOK /\ [Next]_vars => TypeOK'
<1> SUFFICES ASSUME TypeOK, [Next]_vars PROVE TypeOK'
  OBVIOUS
<1> USE DEF TypeOK, files, pushVars, popVars, history, vars, Goto, PushSteps,
            PopSteps, Unknown
<1>1. ASSUME NEW p \in Procs, NEW batch \in Batches, BeginPush(p, batch)
      PROVE TypeOK'
  <2>1. batch \in Seq(Items) /\ batch # << >>
    BY BatchesAssumption
  <2>2. id' \in [Procs -> Nat] /\ limit' \in [Procs -> Nat]
    <3>1. PICK h \in FileIds \cup {0} :
            /\ id' = [id EXCEPT ![p] = h + 1]
            /\ limit' = [limit EXCEPT ![p] = h + 1 + MaxClaimAttempts]
      BY <1>1 DEF BeginPush
    <3>2. h \in Nat
      BY FileIdsNat
    <3>3. QED
      BY <3>1, <3>2, AttemptsAssumption
  <2>3. pc' \in [Procs -> {"idle", "dead"} \cup PushSteps \cup PopSteps]
    BY <1>1 DEF BeginPush
  <2>4. queue' \in [Procs -> Seq(Items)] /\ before' \in [Procs -> SUBSET Nat]
    BY <1>1, <2>1 DEF BeginPush
  <2>5. \A q \in Procs : /\ pc'[q] \in PushSteps => queue'[q] # << >>
                         /\ pc'[q] \in PopSteps => high'[q] \in Nat
    BY <1>1, <2>1 DEF BeginPush
  <2>6. QED
    BY <1>1, <2>2, <2>3, <2>4, <2>5 DEF BeginPush
<1>2. ASSUME NEW p \in Procs, ClaimWon(p) PROVE TypeOK'
  BY <1>2 DEF ClaimWon
<1>3. ASSUME NEW p \in Procs, ClaimLost(p) PROVE TypeOK'
  BY <1>3 DEF ClaimLost
<1>4. ASSUME NEW p \in Procs, ClaimExhausted(p) PROVE TypeOK'
  BY <1>4 DEF ClaimExhausted
<1>5. ASSUME NEW p \in Procs, CheckEntry(p) PROVE TypeOK'
  BY <1>5 DEF CheckEntry
<1>6. ASSUME NEW p \in Procs, CheckUsed(p) PROVE TypeOK'
  <2>1. pc' \in [Procs -> {"idle", "dead"} \cup PushSteps \cup PopSteps]
    BY <1>6 DEF CheckUsed
  <2>2. \A q \in Procs : /\ pc'[q] \in PushSteps => queue'[q] # << >>
                         /\ pc'[q] \in PopSteps => high'[q] \in Nat
    BY <1>6 DEF CheckUsed
  <2>3. QED
    BY <1>6, <2>1, <2>2 DEF CheckUsed
<1>7. ASSUME NEW p \in Procs, Release(p) PROVE TypeOK'
  <2>1. /\ pc' \in [Procs -> {"idle", "dead"} \cup PushSteps \cup PopSteps]
        /\ id' \in [Procs -> Nat]
    BY <1>7 DEF Release
  <2>2. \A q \in Procs : /\ pc'[q] \in PushSteps => queue'[q] # << >>
                         /\ pc'[q] \in PopSteps => high'[q] \in Nat
    BY <1>7 DEF Release
  <2>3. QED
    BY <1>7, <2>1, <2>2 DEF Release
<1>8. ASSUME NEW p \in Procs, Publish(p) PROVE TypeOK'
  <2>1. [id |-> id[p], value |-> Head(queue[p])] \in Entry
    BY <1>8 DEF Publish, Entry
  <2>2. QED
    BY <1>8, <2>1 DEF Publish
<1>9. ASSUME NEW p \in Procs, WriteFails(p) PROVE TypeOK'
  BY <1>9 DEF WriteFails
<1>10. ASSUME NEW p \in Procs, Finalize(p) PROVE TypeOK'
  <2>1. Tail(queue[p]) \in Seq(Items)
    BY <1>10 DEF Finalize
  <2>2. id[p] + 1 + MaxClaimAttempts \in Nat /\ id[p] + 1 \in Nat
    BY AttemptsAssumption
  <2>3. /\ claim' \subseteq Nat /\ used' \subseteq Nat /\ acked' \subseteq Nat
        /\ queue' \in [Procs -> Seq(Items)]
        /\ id' \in [Procs -> Nat] /\ limit' \in [Procs -> Nat]
        /\ pc' \in [Procs -> {"idle", "dead"} \cup PushSteps \cup PopSteps]
    BY <1>10, <2>1, <2>2 DEF Finalize
  <2>4. \A q \in Procs : pc'[q] \in PushSteps => queue'[q] # << >>
    BY <1>10 DEF Finalize
  <2>5. \A q \in Procs : pc'[q] \in PopSteps => high'[q] \in Nat
    BY <1>10 DEF Finalize
  <2>6. QED
    BY <1>10, <2>3, <2>4, <2>5 DEF Finalize
<1>11. ASSUME NEW p \in Procs, BeginPop(p) PROVE TypeOK'
  <2>1. PICK h \in FileIds \cup {0} :
          high' = [high EXCEPT ![p] = IF @ = Unknown THEN h ELSE @]
    BY <1>11 DEF BeginPop
  <2>2. h \in Nat
    BY FileIdsNat
  <2>3. high' \in [Procs -> Nat \cup {Unknown}] /\ high'[p] \in Nat
    BY <2>1, <2>2
  <2>4. pc' \in [Procs -> {"idle", "dead"} \cup PushSteps \cup PopSteps]
    BY <1>11 DEF BeginPop
  <2>5. \A q \in Procs : /\ pc'[q] \in PushSteps => queue'[q] # << >>
                         /\ pc'[q] \in PopSteps => high'[q] \in Nat
    BY <1>11, <2>1, <2>3 DEF BeginPop
  <2>6. /\ id' \in [Procs -> Nat] /\ pending' \in [Procs -> Nat]
        /\ result' \in [Procs -> {"none", "item", "empty"}]
    BY <1>11 DEF BeginPop
  <2>7. QED
    BY <1>11, <2>3, <2>4, <2>5, <2>6 DEF BeginPop
<1>12. ASSUME NEW p \in Procs, TakeEntry(p) PROVE TypeOK'
  <2>1. claimed' \subseteq Claimed
    BY <1>12 DEF TakeEntry, Entry, Claimed
  <2>2. cursor' \in [Procs -> Nat]
    BY <1>12 DEF TakeEntry
  <2>3. QED
    BY <1>12, <2>1, <2>2 DEF TakeEntry
<1>13. ASSUME NEW p \in Procs, MissEntry(p) PROVE TypeOK'
  BY <1>13 DEF MissEntry
<1>14. ASSUME NEW p \in Procs, CheckReservation(p) PROVE TypeOK'
  BY <1>14 DEF CheckReservation
<1>15. ASSUME NEW p \in Procs, ReadClaimed(p) PROVE TypeOK'
  BY <1>15 DEF ReadClaimed
<1>16. ASSUME NEW p \in Procs, RewindToPending(p) PROVE TypeOK'
  <2>1. cursor' \in [Procs -> Nat]
    BY <1>16 DEF RewindToPending
  <2>2. QED
    BY <1>16, <2>1 DEF RewindToPending
<1>17. ASSUME NEW p \in Procs, RefreshHigh(p) PROVE TypeOK'
  <2>1. PICK h \in FileIds \cup {0} : high' = [high EXCEPT ![p] = h]
    BY <1>17 DEF RefreshHigh
  <2>2. h \in Nat
    BY FileIdsNat
  <2>3. high' \in [Procs -> Nat \cup {Unknown}]
    BY <2>1, <2>2
  <2>4. /\ pc' \in [Procs -> {"idle", "dead"} \cup PushSteps \cup PopSteps]
        /\ id' \in [Procs -> Nat]
        /\ result' \in [Procs -> {"none", "item", "empty"}]
    <3>1. \/ Goto(p, "probe", "idle") /\ id' = id
          \/ /\ Goto(p, "probe", "probe")
             /\ id' = [id EXCEPT ![p] = cursor[p] + 1]
      BY <1>17 DEF RefreshHigh
    <3>2. \/ result' = [result EXCEPT ![p] = "empty"]
          \/ result' = result
      BY <1>17 DEF RefreshHigh
    <3>3. pc' \in [Procs -> {"idle", "dead"} \cup PushSteps \cup PopSteps]
      BY <3>1
    <3>4. id' \in [Procs -> Nat]
      BY <3>1
    <3>5. result' \in [Procs -> {"none", "item", "empty"}]
      BY <3>2
    <3>6. QED
      BY <3>3, <3>4, <3>5
  <2>5. \A q \in Procs : /\ pc'[q] \in PushSteps => queue'[q] # << >>
                         /\ pc'[q] \in PopSteps => high'[q] \in Nat
    BY <1>17, <2>1, <2>2 DEF RefreshHigh
  <2>6. QED
    BY <1>17, <2>3, <2>4, <2>5 DEF RefreshHigh
<1>18. ASSUME NEW p \in Procs, Clear(p) PROVE TypeOK'
  <2>1. cleared' \in BOOLEAN
    BY <1>18, Zenon DEF Clear
  <2>2. cursor' \in [Procs -> Nat] /\ high' \in [Procs -> Nat \cup {Unknown}]
    BY <1>18 DEF Clear
  <2>3. \A q \in Procs : pc'[q] \notin PushSteps \cup PopSteps
    BY <1>18 DEF Clear
  <2>4. QED
    BY <1>18, <2>1, <2>2, <2>3 DEF Clear
<1>19. ASSUME NEW p \in Procs, Crash(p) PROVE TypeOK'
  <2>1. queue' \in [Procs -> Seq(Items)]
    BY <1>19, EmptySeq DEF Crash
  <2>2. pc' \in [Procs -> {"idle", "dead"} \cup PushSteps \cup PopSteps]
    BY <1>19 DEF Crash
  <2>3. \A q \in Procs : /\ pc'[q] \in PushSteps => queue'[q] # << >>
                         /\ pc'[q] \in PopSteps => high'[q] \in Nat
    BY <1>19 DEF Crash
  <2>4. /\ id' \in [Procs -> Nat] /\ limit' \in [Procs -> Nat]
        /\ before' \in [Procs -> SUBSET Nat] /\ cursor' \in [Procs -> Nat]
        /\ high' \in [Procs -> Nat \cup {Unknown}]
        /\ pending' \in [Procs -> Nat]
        /\ result' \in [Procs -> {"none", "item", "empty"}]
    BY <1>19 DEF Crash
  <2>5. QED
    BY <1>19, <2>1, <2>2, <2>3, <2>4 DEF Crash
<1>20. CASE UNCHANGED vars
  BY <1>20
<1>21. QED
  BY <1>1, <1>2, <1>3, <1>4, <1>5, <1>6, <1>7, <1>8, <1>9, <1>10, <1>11,
     <1>12, <1>13, <1>14, <1>15, <1>16, <1>17, <1>18, <1>19, <1>20
     DEF Next, PushStep, PopStep

\* The variables keep their types in every reachable state; in particular a
\* rewound cursor never drops below zero and a popper never probes without a
\* high-water mark.
THEOREM TypeCorrect == Spec => []TypeOK
  BY TypeOKInit, TypeOKStep, PTL DEF Spec

-----------------------------------------------------------------------------
(* The inductive invariant                                                 *)

LEMMA IInvInit == Init => IInv
<1> SUFFICES ASSUME Init PROVE IInv
  OBVIOUS
<1>1. TypeOK
  BY TypeOKInit
<1>2. Reservations /\ AboveBefore
  BY DEF Init, Reservations, AboveBefore, Holds, PushSteps
<1>3. SpentIds /\ QuietWhenCleared /\ IdSpentOnce /\ Conservation
  BY DEF Init, SpentIds, QuietWhenCleared, IdSpentOnce, Conservation
<1>4. QED
  BY <1>1, <1>2, <1>3 DEF IInv

\* What a step of a popper, a failing push or a crash leaves alone: the names
\* that mark ids, and every push that is still running.
PushFrame ==
  /\ UNCHANGED <<claim, used, published, acked, cleared>>
  /\ \A q \in Procs : pc'[q] \in PushSteps =>
       pc'[q] = pc[q] /\ id'[q] = id[q] /\ before'[q] = before[q]

\* The parts of IInv about reservations and ids.
Marks == Reservations /\ SpentIds /\ AboveBefore /\ IdSpentOnce

LEMMA FrameSteps ==
  ASSUME TypeOK, NEW p \in Procs,
         ClaimExhausted(p) \/ WriteFails(p) \/ BeginPop(p) \/ PopStep(p)
           \/ Crash(p)
  PROVE  PushFrame
<1> USE DEF TypeOK, files, pushVars, popVars, history, Goto, PushSteps,
            PopSteps, PushFrame
<1>1. CASE ClaimExhausted(p)
  BY <1>1 DEF ClaimExhausted
<1>2. CASE WriteFails(p)
  BY <1>2 DEF WriteFails
<1>3. CASE BeginPop(p)
  <2>1. /\ pc' = [pc EXCEPT ![p] = "probe"] /\ before' = before
        /\ id' = [id EXCEPT ![p] = cursor[p] + 1]
    BY <1>3 DEF BeginPop
  <2>2. QED
    BY <1>3, <2>1 DEF BeginPop
<1>4. CASE TakeEntry(p)
  BY <1>4 DEF TakeEntry
<1>5. CASE MissEntry(p)
  BY <1>5 DEF MissEntry
<1>6. CASE CheckReservation(p)
  BY <1>6 DEF CheckReservation
<1>7. CASE ReadClaimed(p)
  BY <1>7 DEF ReadClaimed
<1>8. CASE RewindToPending(p)
  BY <1>8 DEF RewindToPending
<1>9. CASE RefreshHigh(p)
  <2>1. /\ \/ pc' = [pc EXCEPT ![p] = "idle"] /\ id' = id
           \/ /\ pc' = [pc EXCEPT ![p] = "probe"]
              /\ id' = [id EXCEPT ![p] = cursor[p] + 1]
        /\ before' = before
    BY <1>9 DEF RefreshHigh
  <2>2. QED
    BY <1>9, <2>1 DEF RefreshHigh
<1>10. CASE Crash(p)
  BY <1>10 DEF Crash
<1>11. QED
  BY <1>1, <1>2, <1>3, <1>4, <1>5, <1>6, <1>7, <1>8, <1>9, <1>10 DEF PopStep

LEMMA FrameKeepsMarks == IInv /\ PushFrame => Marks'
<1> SUFFICES ASSUME IInv, PushFrame PROVE Marks'
  OBVIOUS
<1> USE DEF IInv, PushFrame
<1>1. Reservations'
  BY DEF Reservations, Holds
<1>2. SpentIds'
  BY DEF SpentIds, PushSteps
<1>3. AboveBefore'
  BY DEF AboveBefore
<1>4. IdSpentOnce'
  BY DEF IdSpentOnce
<1>5. QED
  BY <1>1, <1>2, <1>3, <1>4 DEF Marks

LEMMA MarksStep == IInv /\ [Next]_vars => Marks'
<1> SUFFICES ASSUME IInv, [Next]_vars PROVE Marks'
  OBVIOUS
<1> USE DEF IInv, TypeOK, files, pushVars, popVars, history, Goto
<1>1. ASSUME NEW p \in Procs, NEW batch \in Batches, BeginPush(p, batch)
      PROVE Marks'
  <2>1. PICK h \in FileIds \cup {0} :
          IsHighestId(h) /\ id' = [id EXCEPT ![p] = h + 1]
    BY <1>1 DEF BeginPush
  <2>2. /\ pc' = [pc EXCEPT ![p] = "claim"]
        /\ before' = [before EXCEPT ![p] = acked]
        /\ UNCHANGED <<claim, used, published, acked, cleared>>
    BY <1>1 DEF BeginPush
  <2>3. Reservations'
    BY <2>1, <2>2 DEF Reservations, Holds, PushSteps
  <2>4. SpentIds'
    BY <2>1, <2>2 DEF SpentIds
  <2>5. \A i \in acked : i < h + 1
    <3>1. acked \subseteq FileIds
      BY <1>1 DEF BeginPush, SpentIds, FileIds
    <3>2. h \in Nat
      BY FileIdsNat
    <3>3. QED
      BY <2>1, <3>1, <3>2 DEF IsHighestId
  <2>6. AboveBefore'
    BY <2>1, <2>2, <2>5 DEF AboveBefore, PushSteps
  <2>7. QED
    BY <2>2, <2>3, <2>4, <2>6 DEF Marks, IdSpentOnce
<1>2. ASSUME NEW p \in Procs, ClaimWon(p) PROVE Marks'
  <2>1. Reservations'
    BY <1>2 DEF ClaimWon, Reservations, Holds, PushSteps
  <2>2. ~cleared
    BY <1>2 DEF ClaimWon, QuietWhenCleared
  <2>3. \A e \in published : e.id = id[p] => id[p] \in used
    BY <1>2, <2>2 DEF ClaimWon, SpentIds
  <2>4. SpentIds'
    BY <1>2, <2>3 DEF ClaimWon, SpentIds
  <2>5. AboveBefore' /\ IdSpentOnce'
    BY <1>2 DEF ClaimWon, AboveBefore, IdSpentOnce, PushSteps
  <2>6. QED
    BY <2>1, <2>4, <2>5 DEF Marks
<1>3. ASSUME NEW p \in Procs, ClaimLost(p) PROVE Marks'
  <2>1. Reservations' /\ SpentIds'
    BY <1>3 DEF ClaimLost, Reservations, SpentIds, Holds, PushSteps
  <2>2. AboveBefore' /\ IdSpentOnce'
    BY <1>3 DEF ClaimLost, AboveBefore, IdSpentOnce, PushSteps
  <2>3. QED
    BY <2>1, <2>2 DEF Marks
<1>4. ASSUME NEW p \in Procs, CheckEntry(p) PROVE Marks'
  <2>1. \/ pc' = [pc EXCEPT ![p] = "release"]
        \/ pc' = [pc EXCEPT ![p] = "check_used"]
    BY <1>4 DEF CheckEntry
  <2>2. Reservations' /\ SpentIds'
    BY <1>4, <2>1 DEF CheckEntry, Reservations, SpentIds, Holds, PushSteps
  <2>3. AboveBefore' /\ IdSpentOnce'
    BY <1>4, <2>1 DEF CheckEntry, AboveBefore, IdSpentOnce, PushSteps
  <2>4. QED
    BY <2>2, <2>3 DEF Marks
<1>5. ASSUME NEW p \in Procs, CheckUsed(p) PROVE Marks'
  <2>1. \/ pc' = [pc EXCEPT ![p] = "release"]
        \/ pc' = [pc EXCEPT ![p] = "publish"] /\ id[p] \notin used
    BY <1>5 DEF CheckUsed
  <2>2. Reservations'
    BY <1>5, <2>1 DEF CheckUsed, Reservations, Holds, PushSteps
  <2>3. SpentIds'
    BY <1>5, <2>1 DEF CheckUsed, SpentIds
  <2>4. AboveBefore' /\ IdSpentOnce'
    BY <1>5, <2>1 DEF CheckUsed, AboveBefore, IdSpentOnce, PushSteps
  <2>5. QED
    BY <2>2, <2>3, <2>4 DEF Marks
<1>6. ASSUME NEW p \in Procs, Release(p) PROVE Marks'
  <2>1. Reservations'
    BY <1>6 DEF Release, Reservations, Holds, PushSteps
  <2>2. \A e \in published : e.id = id[p] => id[p] \in used
    BY <1>6 DEF Release, SpentIds
  <2>3. SpentIds'
    BY <1>6, <2>2 DEF Release, SpentIds
  <2>4. AboveBefore' /\ IdSpentOnce'
    BY <1>6 DEF Release, AboveBefore, IdSpentOnce, PushSteps
  <2>5. QED
    BY <2>1, <2>3, <2>4 DEF Marks
<1>7. ASSUME NEW p \in Procs, Publish(p) PROVE Marks'
  <2> DEFINE e == [id |-> id[p], value |-> Head(queue[p])]
  <2>1. /\ published' = published \cup {e} /\ e.id = id[p]
        /\ pc' = [pc EXCEPT ![p] = "finalize"] /\ pc[p] = "publish"
        /\ UNCHANGED <<claim, used, id, before, acked, cleared>>
    BY <1>7 DEF Publish
  <2> HIDE DEF e
  <2>2. Reservations' /\ AboveBefore'
    BY <2>1 DEF Reservations, AboveBefore, Holds, PushSteps
  <2>3. IdSpentOnce'
    BY <2>1 DEF IdSpentOnce, SpentIds
  <2>4. SpentIds'
    BY <2>1 DEF SpentIds, Reservations, Holds, PushSteps
  <2>5. QED
    BY <2>2, <2>3, <2>4 DEF Marks
<1>8. ASSUME NEW p \in Procs, Finalize(p) PROVE Marks'
  <2>1. /\ claim' = claim \ {id[p]} /\ used' = used \cup {id[p]}
        /\ acked' = acked \cup {id[p]} /\ id' = [id EXCEPT ![p] = @ + 1]
        /\ pc[p] = "finalize"
        /\ \/ pc' = [pc EXCEPT ![p] = "idle"]
           \/ pc' = [pc EXCEPT ![p] = "claim"]
        /\ UNCHANGED <<published, before, cleared>>
    BY <1>8 DEF Finalize
  <2>2. Reservations'
    <3>1. \A q \in Procs : Holds(q)' => q # p /\ Holds(q) /\ id'[q] = id[q]
      BY <2>1 DEF Holds, PushSteps
    <3>2. Holds(p)
      BY <2>1 DEF Holds, PushSteps
    <3>3. QED
      BY <2>1, <3>1, <3>2 DEF Reservations
  <2>3. AboveBefore'
    BY <2>1 DEF AboveBefore, PushSteps
  <2>4. SpentIds' /\ IdSpentOnce'
    BY <2>1 DEF SpentIds, IdSpentOnce
  <2>5. QED
    BY <2>2, <2>3, <2>4 DEF Marks
<1>9. ASSUME NEW p \in Procs, Clear(p) PROVE Marks'
  <2>1. cleared' /\ \A q \in Procs : pc'[q] \in {"idle", "dead"}
    BY <1>9 DEF Clear
  <2>2. Reservations' /\ SpentIds' /\ AboveBefore'
    BY <2>1 DEF Reservations, SpentIds, AboveBefore, Holds, PushSteps
  <2>3. IdSpentOnce'
    BY <1>9 DEF Clear, IdSpentOnce
  <2>4. QED
    BY <2>2, <2>3 DEF Marks
<1>10. ASSUME NEW p \in Procs,
              ClaimExhausted(p) \/ WriteFails(p) \/ BeginPop(p) \/ PopStep(p)
                \/ Crash(p)
       PROVE  Marks'
  BY <1>10, FrameSteps, FrameKeepsMarks
<1>11. CASE UNCHANGED vars
  BY <1>11, FrameKeepsMarks DEF vars, PushFrame
<1>12. QED
  BY <1>1, <1>2, <1>3, <1>4, <1>5, <1>6, <1>7, <1>8, <1>9, <1>10, <1>11
     DEF Next, PushStep

LEMMA QuietStep == IInv /\ [Next]_vars => QuietWhenCleared'
<1> SUFFICES ASSUME IInv, [Next]_vars, cleared' PROVE QuietWhenCleared'
  BY DEF QuietWhenCleared
<1> USE DEF IInv, TypeOK, QuietWhenCleared, files, pushVars, popVars, history,
            Goto
<1>1. ASSUME NEW p \in Procs, Clear(p) PROVE QuietWhenCleared'
  BY <1>1 DEF Clear
<1>2. ASSUME NEW p \in Procs, Crash(p) PROVE QuietWhenCleared'
  BY <1>2 DEF Crash
<1>3. ASSUME NEW p \in Procs,
             BeginPop(p) \/ \E batch \in Batches : BeginPush(p, batch)
      PROVE  FALSE
  BY <1>3 DEF BeginPop, BeginPush
<1>4. ASSUME NEW p \in Procs, PushStep(p) PROVE FALSE
  <2>1. cleared
    BY <1>4 DEF PushStep, ClaimWon, ClaimLost, ClaimExhausted, CheckEntry,
                CheckUsed, Release, Publish, WriteFails, Finalize
  <2>2. pc[p] \in PushSteps
    BY <1>4 DEF PushStep, ClaimWon, ClaimLost, ClaimExhausted, CheckEntry,
                CheckUsed, Release, Publish, WriteFails, Finalize, PushSteps
  <2>3. QED
    BY <2>1, <2>2 DEF PushSteps
<1>5. ASSUME NEW p \in Procs, PopStep(p) PROVE FALSE
  <2>1. cleared
    BY <1>5 DEF PopStep, TakeEntry, MissEntry, CheckReservation, ReadClaimed,
                RewindToPending, RefreshHigh
  <2>2. pc[p] \in PopSteps
    BY <1>5 DEF PopStep, TakeEntry, MissEntry, CheckReservation, ReadClaimed,
                RewindToPending, RefreshHigh, PopSteps
  <2>3. QED
    BY <2>1, <2>2 DEF PopSteps
<1>6. CASE UNCHANGED vars
  BY <1>6 DEF vars
<1>7. QED
  BY <1>1, <1>2, <1>3, <1>4, <1>5, <1>6 DEF Next

LEMMA ConservationStep == IInv /\ [Next]_vars => Conservation'
<1> SUFFICES ASSUME IInv, [Next]_vars PROVE Conservation'
  OBVIOUS
<1> USE DEF IInv, TypeOK, files, pushVars, popVars, history, Goto
<1>1. ASSUME UNCHANGED <<entry, claimed, cleared, published, delivered>>
      PROVE  Conservation'
  BY <1>1 DEF Conservation
<1>2. ASSUME NEW p \in Procs, Publish(p) PROVE Conservation'
  <2> DEFINE e == [id |-> id[p], value |-> Head(queue[p])]
  <2>1. /\ published' = published \cup {e} /\ e.id = id[p]
        /\ entry' = {x \in entry : x.id # id[p]} \cup {e}
        /\ pc[p] = "publish"
        /\ UNCHANGED <<claimed, delivered, cleared>>
    BY <1>2 DEF Publish
  <2> HIDE DEF e
  <2>2. \A x \in published : x.id # id[p]
    BY <2>1 DEF SpentIds
  <2>3. SUFFICES ASSUME ~cleared PROVE Conservation'
    BY <2>1 DEF Conservation
  <2>4. entry' = entry \cup {e}
    BY <2>1, <2>2, <2>3 DEF Conservation
  <2>5. \A c \in claimed \cup delivered : c.id # id[p]
    BY <2>2, <2>3 DEF Conservation, Payload
  <2>6. QED
    BY <2>1, <2>3, <2>4, <2>5 DEF Conservation
<1>3. ASSUME NEW p \in Procs, TakeEntry(p) PROVE Conservation'
  <2>1. PICK e \in entry :
          /\ entry' = entry \ {e}
          /\ claimed' = claimed \cup {[id |-> e.id, value |-> e.value,
                                       proc |-> p]}
    BY <1>3 DEF TakeEntry
  <2> DEFINE c == [id |-> e.id, value |-> e.value, proc |-> p]
  <2>2. c.id = e.id /\ Payload(c) = e
    BY DEF Payload, Entry
  <2>3. UNCHANGED <<delivered, cleared, published>>
    BY <1>3 DEF TakeEntry
  <2>4. SUFFICES ASSUME ~cleared PROVE Conservation'
    BY <2>3 DEF Conservation
  <2> HIDE DEF c
  <2>5. claimed' = claimed \cup {c}
    BY <2>1 DEF c
  <2>6. \A x \in entry : x.id = e.id => x = e
    BY <2>4 DEF Conservation, IdSpentOnce
  <2>7. \A d \in claimed \cup delivered : d.id # c.id
    BY <2>2, <2>4 DEF Conservation
  <2>8. entry' \subseteq published' /\ claimed' \cap delivered' = {}
    BY <2>1, <2>3, <2>4, <2>5, <2>7 DEF Conservation
  <2>9. \A d \in claimed' \cup delivered' :
          /\ Payload(d) \in published'
          /\ \A x \in entry' : x.id # d.id
          /\ \A f \in claimed' \cup delivered' : d.id = f.id => d = f
    BY <2>1, <2>2, <2>3, <2>4, <2>5, <2>6, <2>7 DEF Conservation
  <2>10. \A x \in published' :
           x \in entry' \/ \E d \in claimed' \cup delivered' : Payload(d) = x
    BY <2>1, <2>2, <2>3, <2>4, <2>5 DEF Conservation
  <2>11. QED
    BY <2>8, <2>9, <2>10 DEF Conservation
<1>4. ASSUME NEW p \in Procs, ReadClaimed(p) PROVE Conservation'
  <2>1. PICK c \in claimed :
          claimed' = claimed \ {c} /\ delivered' = delivered \cup {c}
    BY <1>4 DEF ReadClaimed
  <2>2. UNCHANGED <<entry, cleared, published>>
    BY <1>4 DEF ReadClaimed
  <2>3. claimed' \cup delivered' = claimed \cup delivered
    BY <2>1
  <2>4. ~cleared => claimed' \cap delivered' = {}
    BY <2>1 DEF Conservation
  <2>5. QED
    BY <2>2, <2>3, <2>4 DEF Conservation
<1>5. ASSUME NEW p \in Procs, Clear(p) PROVE Conservation'
  BY <1>5 DEF Clear, Conservation
<1>6. ASSUME NEW p \in Procs, NEW batch \in Batches, BeginPush(p, batch)
      PROVE  Conservation'
  BY <1>6, <1>1 DEF BeginPush
<1>7. ASSUME NEW p \in Procs,
             \/ ClaimWon(p) \/ ClaimLost(p) \/ ClaimExhausted(p)
             \/ CheckEntry(p) \/ CheckUsed(p) \/ Release(p) \/ WriteFails(p)
             \/ Finalize(p)
      PROVE  Conservation'
  BY <1>7, <1>1 DEF ClaimWon, ClaimLost, ClaimExhausted, CheckEntry,
     CheckUsed, Release, WriteFails, Finalize
<1>8. ASSUME NEW p \in Procs,
             \/ BeginPop(p) \/ MissEntry(p) \/ CheckReservation(p)
             \/ RewindToPending(p) \/ RefreshHigh(p) \/ Crash(p)
      PROVE  Conservation'
  BY <1>8, <1>1 DEF BeginPop, MissEntry, CheckReservation, RewindToPending,
     RefreshHigh, Crash
<1>9. CASE UNCHANGED vars
  BY <1>9, <1>1 DEF vars
<1>10. QED
  BY <1>2, <1>3, <1>4, <1>5, <1>6, <1>7, <1>8, <1>9
     DEF Next, PushStep, PopStep

LEMMA IInvStep == IInv /\ [Next]_vars => IInv'
  BY TypeOKStep, MarksStep, QuietStep, ConservationStep DEF IInv, Marks

\* The inductive invariant holds in every reachable state.
THEOREM Invariance == Spec => []IInv
  BY IInvInit, IInvStep, PTL DEF Spec

-----------------------------------------------------------------------------
(* What follows                                                            *)

\* However many processes append at once, and however stale the directory
\* walk each started from, no id is published under twice.
THEOREM IdsSpentOnce == Spec => []IdSpentOnce
  BY Invariance, PTL DEF IInv

\* Until the scope is cleared, no published item is lost, duplicated or
\* invented by any interleaving of pushes, pops and crashes.
THEOREM ItemsConserved == Spec => []Conservation
  BY Invariance, PTL DEF IInv

\* An append that begins after another returned gets the larger id.
THEOREM IdsMonotonic == Spec => []MonotonicIds
<1>1. IInv => MonotonicIds
  BY DEF IInv, AboveBefore, MonotonicIds, PushSteps
<1>2. QED
  BY <1>1, Invariance, PTL

LEMMA AbstractInit == Init => Abstract!Init
  BY DEF Init, Abstract!Init

LEMMA AbstractStep == IInv /\ [Next]_vars => [Abstract!Next]_(Abstract!vars)
<1> SUFFICES ASSUME IInv, [Next]_vars PROVE [Abstract!Next]_(Abstract!vars)
  OBVIOUS
<1> USE DEF IInv, TypeOK, files, pushVars, popVars, history, Goto
<1>1. ASSUME UNCHANGED <<entry, published>>
      PROVE  [Abstract!Next]_(Abstract!vars)
  BY <1>1 DEF Abstract!vars
<1>2. ASSUME NEW p \in Procs, Publish(p) PROVE Abstract!Add
  <2> DEFINE e == [id |-> id[p], value |-> Head(queue[p])]
  <2>1. /\ published' = published \cup {e} /\ e.id = id[p]
        /\ entry' = {x \in entry : x.id # id[p]} \cup {e}
        /\ pc[p] = "publish" /\ cleared' = cleared
    BY <1>2 DEF Publish
  <2> HIDE DEF e
  <2>2. \A x \in published : x.id # e.id
    BY <2>1 DEF SpentIds
  <2>3. entry \subseteq published
    BY DEF Conservation, QuietWhenCleared
  <2>4. (published \ entry)' = published \ entry
    BY <2>1, <2>2, <2>3
  <2>5. QED
    BY <2>1, <2>2, <2>4 DEF Abstract!Add
<1>3. ASSUME NEW p \in Procs, TakeEntry(p) PROVE Abstract!Take
  <2>1. PICK e \in entry : entry' = entry \ {e}
    BY <1>3 DEF TakeEntry
  <2>2. published' = published
    BY <1>3 DEF TakeEntry
  <2>3. e \in published
    BY DEF Conservation, QuietWhenCleared
  <2>4. e \in published \ (published \ entry)
    BY <2>3
  <2>5. (published \ entry)' = (published \ entry) \cup {e}
    BY <2>1, <2>2, <2>3
  <2>6. QED
    BY <2>2, <2>4, <2>5 DEF Abstract!Take
<1>4. ASSUME NEW p \in Procs, Clear(p) PROVE Abstract!Discard
  BY <1>4 DEF Clear, Abstract!Discard
<1>5. ASSUME NEW p \in Procs, NEW batch \in Batches, BeginPush(p, batch)
      PROVE  [Abstract!Next]_(Abstract!vars)
  BY <1>5, <1>1 DEF BeginPush
<1>6. ASSUME NEW p \in Procs,
             \/ ClaimWon(p) \/ ClaimLost(p) \/ ClaimExhausted(p)
             \/ CheckEntry(p) \/ CheckUsed(p) \/ Release(p) \/ WriteFails(p)
             \/ Finalize(p)
      PROVE  [Abstract!Next]_(Abstract!vars)
  BY <1>6, <1>1 DEF ClaimWon, ClaimLost, ClaimExhausted, CheckEntry,
     CheckUsed, Release, WriteFails, Finalize
<1>7. ASSUME NEW p \in Procs,
             \/ BeginPop(p) \/ MissEntry(p) \/ CheckReservation(p)
             \/ ReadClaimed(p) \/ RewindToPending(p) \/ RefreshHigh(p)
             \/ Crash(p)
      PROVE  [Abstract!Next]_(Abstract!vars)
  BY <1>7, <1>1 DEF BeginPop, MissEntry, CheckReservation, ReadClaimed,
     RewindToPending, RefreshHigh, Crash
<1>8. CASE UNCHANGED vars
  BY <1>8, <1>1 DEF vars
<1>9. QED
  BY <1>2, <1>3, <1>4, <1>5, <1>6, <1>7, <1>8
     DEF Next, PushStep, PopStep, Abstract!Next

\* The directory of files implements the shared log storage.h describes: what
\* callers can observe is payloads added under fresh ids and handed out once.
THEOREM Refinement == Spec => ImplementsSharedLog
<1>1. Init => Abstract!Init
  BY AbstractInit
<1>2. IInv /\ [Next]_vars => [Abstract!Next]_(Abstract!vars)
  BY AbstractStep
<1>3. QED
  BY <1>1, <1>2, Invariance, PTL DEF Spec, ImplementsSharedLog, Abstract!Spec

-----------------------------------------------------------------------------
(* Pushes one at a time: the inductive invariant                           *)

\* An id a directory walk has reached: at or below a name that stays.
Reached(n) == n = 0 \/ \E i \in claim \cup used : n <= i

\* At most one push runs, every id in the directory is below the one it works
\* on, and nobody's cursor has got there; so its exclusive create always
\* succeeds and it never has to give an id back.
OnePush ==
  /\ \A p, q \in Procs : pc[p] \in PushSteps /\ pc[q] \in PushSteps => p = q
  /\ \A q \in Procs : pc[q] \in PushSteps =>
       /\ pc[q] # "release"
       /\ \A i \in used : i < id[q]
       /\ \A i \in claim : IF pc[q] = "claim" THEN i < id[q] ELSE i <= id[q]
       /\ pc[q] # "finalize" => \A p \in Procs : cursor[p] < id[q]

\* What a popper knows of the directory is about ids that are in it for good.
KnownIds ==
  \A p \in Procs :
    /\ Reached(cursor[p]) /\ Reached(pending[p])
    /\ high[p] # Unknown => Reached(high[p])

\* An id the running probe of p has passed over has no entry, but for those at
\* or above the first reservation seen and those at or above the known mark,
\* for which the probe starts again before the cursor moves.
Passed(p, i) ==
  \A e \in entry : e.id < i =>
    \/ pending[p] # 0 /\ pending[p] <= e.id
    \/ high[p] <= e.id

Probing ==
  \A p \in Procs :
    /\ pc[p] = "probe" => Passed(p, id[p])
    /\ pc[p] = "exists_claim" => Passed(p, id[p] + 1) /\ id[p] <= high[p]
    /\ pc[p] \in {"probe", "exists_claim"} =>
         pending[p] <= high[p] /\ (pending[p] # 0 => pending[p] < id[p])

Serial == OnePush /\ KnownIds /\ Probing /\ CursorStrandsNothing

SInv == IInv /\ (~cleared => Serial)

LEMMA SerialIsNext == [SerialNext]_vars => [Next]_vars
  BY DEF SerialNext, Next

\* Until clear, every name in the directory is accounted for by a reservation
\* or a tombstone of its id.
LEMMA NamesAreMarked ==
  ASSUME IInv, ~cleared
  PROVE  FileIds = claim \cup used /\ IdsOf(entry) \subseteq claim \cup used
<1>1. \A e \in published : e.id \in claim \cup used
  BY DEF IInv, SpentIds
<1>2. \A c \in claimed : c.id \in claim \cup used
  <2>1. \A c \in claimed : Payload(c) \in published /\ Payload(c).id = c.id
    BY DEF IInv, Conservation, Payload
  <2>2. QED
    BY <1>1, <2>1
<1>3. \A e \in entry : e.id \in claim \cup used
  BY <1>1 DEF IInv, Conservation
<1>4. QED
  BY <1>2, <1>3 DEF FileIds, IdsOf

\* Serial' from Serial, for a step in which only p's call makes progress, no
\* entry appears and no id becomes free: what is left to show is about p.
Elsewhere(p) ==
  /\ entry' \subseteq entry /\ claim \cup used \subseteq (claim \cup used)'
  /\ \A q \in Procs \ {p} :
       /\ pc'[q] = pc[q] /\ id'[q] = id[q] /\ cursor'[q] = cursor[q]
       /\ high'[q] = high[q] /\ pending'[q] = pending[q]

LEMMA PopperStep ==
  ASSUME SInv, ~cleared, Serial, NEW p \in Procs, Elsewhere(p), TypeOK',
         UNCHANGED <<claim, used>>,
         pc'[p] \notin PushSteps,
         Reached(cursor'[p]), Reached(pending'[p]),
         high'[p] # Unknown => Reached(high'[p]),
         pc'[p] = "probe" => Passed(p, id[p])',
         pc'[p] = "exists_claim" => Passed(p, id[p] + 1)' /\ id'[p] <= high'[p],
         pc'[p] \in {"probe", "exists_claim"} =>
           pending'[p] <= high'[p] /\ (pending'[p] # 0 => pending'[p] < id'[p]),
         pc'[p] # "dead" => \A e \in entry' : e.id > cursor'[p],
         \A q \in Procs : pc[q] \in PushSteps /\ pc[q] # "finalize"
            => cursor'[p] < id[q]
  PROVE  Serial'
<1> USE DEF SInv, Serial, Elsewhere
<1>1. OnePush'
  BY DEF OnePush, PushSteps
<1>2. KnownIds'
  BY DEF KnownIds, Reached
<1>3. Probing'
  BY DEF Probing, Passed
<1>4. CursorStrandsNothing'
  BY DEF CursorStrandsNothing
<1>5. QED
  BY <1>1, <1>2, <1>3, <1>4

LEMMA SerialPop ==
  ASSUME SInv, ~cleared, TypeOK', NEW p \in Procs, BeginPop(p) \/ PopStep(p)
  PROVE  Serial'
<1>1. Serial /\ IInv /\ TypeOK
  BY DEF SInv, IInv
<1> USE DEF files, pushVars, popVars, history, Goto, Elsewhere
<1>0. /\ pc \in [Procs -> {"idle", "dead"} \cup PushSteps \cup PopSteps]
      /\ id \in [Procs -> Nat] /\ cursor \in [Procs -> Nat]
      /\ high \in [Procs -> Nat \cup {Unknown}] /\ pending \in [Procs -> Nat]
      /\ pc[p] \in PopSteps => high[p] \in Nat
      /\ claim \cup used \subseteq Nat
      /\ \A e \in entry : e.id \in Nat
  BY <1>1 DEF TypeOK, Entry
<1>2. /\ Reached(cursor[p]) /\ Reached(pending[p])
      /\ high[p] # Unknown => Reached(high[p])
  BY <1>1 DEF Serial, KnownIds
<1>3. /\ pc[p] # "dead" => \A e \in entry : e.id > cursor[p]
      /\ pc[p] = "probe" => Passed(p, id[p])
      /\ pc[p] = "exists_claim" => Passed(p, id[p] + 1) /\ id[p] <= high[p]
      /\ pc[p] \in {"probe", "exists_claim"} =>
           pending[p] <= high[p] /\ (pending[p] # 0 => pending[p] < id[p])
      /\ \A q \in Procs : pc[q] \in PushSteps /\ pc[q] # "finalize"
           => cursor[p] < id[q]
  BY <1>1 DEF Serial, CursorStrandsNothing, Probing, OnePush
<1>4. \A h \in FileIds \cup {0} : h \in Nat /\ Reached(h)
  BY <1>0, <1>1, NamesAreMarked DEF Reached
<1>5. \A n \in Nat, m \in Nat : Reached(n) /\ m <= n => Reached(m)
  BY <1>0 DEF Reached
<1>6. CASE BeginPop(p)
  <2>1. PICK h \in FileIds \cup {0} :
          high' = [high EXCEPT ![p] = IF @ = Unknown THEN h ELSE @]
    BY <1>6 DEF BeginPop
  <2>2. /\ pc' = [pc EXCEPT ![p] = "probe"] /\ pc[p] = "idle"
        /\ id' = [id EXCEPT ![p] = cursor[p] + 1]
        /\ pending' = [pending EXCEPT ![p] = 0]
        /\ UNCHANGED <<claim, entry, used, cursor>>
    BY <1>6 DEF BeginPop
  <2>3. Passed(p, id[p])'
    BY <1>0, <1>3, <2>2 DEF Passed
  <2>4. high'[p] \in Nat /\ Reached(high'[p]) /\ Reached(0)
    BY <1>0, <1>2, <1>4, <2>1 DEF Reached
  <2>5. QED
    BY <1>0, <1>1, <1>2, <1>3, <2>1, <2>2, <2>3, <2>4, PopperStep DEF PushSteps
<1>7. CASE TakeEntry(p)
  <2>1. PICK e \in entry : e.id = id[p] /\ entry' = entry \ {e}
    BY <1>7 DEF TakeEntry
  <2>2. /\ pc' = [pc EXCEPT ![p] = "read"] /\ pc[p] = "probe"
        /\ id[p] <= high[p]
        /\ cursor' = [cursor EXCEPT ![p] =
             IF pending[p] # 0 THEN pending[p] - 1 ELSE id[p]]
        /\ UNCHANGED <<claim, used, id, high, pending>>
    BY <1>7 DEF TakeEntry
  <2>3. \A x \in entry' : x.id \in Nat /\ x.id # id[p]
    BY <1>0, <1>1, <2>1 DEF IInv, Conservation, IdSpentOnce
  <2>4. \A x \in entry' : x.id > cursor'[p]
    BY <1>0, <1>3, <2>1, <2>2, <2>3 DEF Passed, PopSteps
  <2>5. id[p] \in claim \cup used
    BY <1>1, <2>1, NamesAreMarked DEF IdsOf
  <2>6. Reached(cursor'[p])
    BY <1>0, <1>2, <1>5, <2>2, <2>5 DEF Reached
  <2>7. ASSUME NEW q \in Procs, pc[q] \in PushSteps, pc[q] # "finalize"
        PROVE  cursor'[p] < id[q]
    <3>1. e \in published
      BY <1>1 DEF IInv, Conservation
    <3>2. id[p] # id[q]
      <4>1. /\ pc[q] \in {"claim", "check_entry", "check_used", "publish"}
            /\ \A i \in used : i < id[q]
            /\ pc[q] = "claim" => \A i \in claim : i < id[q]
        BY <1>1, <2>7 DEF Serial, OnePush, PushSteps
      <4>2. pc[q] # "claim" /\ id[p] = id[q] => id[q] \in used
        BY <1>1, <2>1, <3>1, <4>1 DEF IInv, SpentIds
      <4>3. QED
        BY <1>0, <2>5, <4>1, <4>2
    <3>3. id[p] <= id[q] /\ \A i \in claim \cup used : i <= id[q]
      BY <1>0, <1>1, <2>5, <2>7 DEF Serial, OnePush, PushSteps
    <3>4. pending[p] <= id[q]
      BY <1>0, <1>2, <2>7, <3>3 DEF Reached
    <3>5. QED
      BY <1>0, <2>2, <3>2, <3>3, <3>4
  <2>8. QED
    BY <1>0, <1>1, <1>2, <1>3, <2>1, <2>2, <2>4, <2>6, <2>7, PopperStep DEF PushSteps
<1>8. CASE MissEntry(p)
  <2>1. /\ pc' = [pc EXCEPT ![p] = "exists_claim"] /\ pc[p] = "probe"
        /\ id[p] <= high[p] /\ id[p] \notin IdsOf(entry)
        /\ UNCHANGED <<claim, entry, used, id, cursor, high, pending>>
    BY <1>8 DEF MissEntry
  <2>2. Passed(p, id[p] + 1)'
    BY <1>0, <1>3, <2>1 DEF Passed, IdsOf, Entry
  <2>3. QED
    BY <1>0, <1>1, <1>2, <1>3, <2>1, <2>2, PopperStep DEF PushSteps
<1>9. CASE CheckReservation(p)
  <2>1. /\ pc' = [pc EXCEPT ![p] = "probe"] /\ pc[p] = "exists_claim"
        /\ pending' = [pending EXCEPT ![p] =
             IF id[p] \in claim /\ @ = 0 THEN id[p] ELSE @]
        /\ id' = [id EXCEPT ![p] = @ + 1]
        /\ UNCHANGED <<claim, entry, used, cursor, high>>
    BY <1>9 DEF CheckReservation
  <2>2. Passed(p, id[p])'
    BY <1>0, <1>3, <2>1 DEF Passed, Entry
  <2>3. Reached(pending'[p])
    BY <1>0, <1>2, <2>1 DEF Reached
  <2>4. pending'[p] <= high'[p] /\ (pending'[p] # 0 => pending'[p] < id'[p])
    BY <1>0, <1>3, <2>1
  <2>5. QED
    BY <1>0, <1>1, <1>2, <1>3, <2>1, <2>2, <2>3, <2>4, PopperStep DEF PushSteps
<1>10. CASE ReadClaimed(p)
  <2>1. /\ pc' = [pc EXCEPT ![p] = "idle"] /\ pc[p] = "read"
        /\ UNCHANGED <<claim, entry, used, id, cursor, high, pending>>
    BY <1>10 DEF ReadClaimed
  <2>2. QED
    BY <1>0, <1>1, <1>2, <1>3, <2>1, PopperStep DEF PushSteps
<1>11. CASE RewindToPending(p)
  <2>1. /\ pc' = [pc EXCEPT ![p] = "idle"] /\ pc[p] = "probe"
        /\ id[p] > high[p] /\ pending[p] # 0
        /\ cursor' = [cursor EXCEPT ![p] = pending[p] - 1]
        /\ UNCHANGED <<claim, entry, used, id, high, pending>>
    BY <1>11 DEF RewindToPending
  <2>2. \A e \in entry : e.id > pending[p] - 1
    BY <1>0, <1>3, <2>1 DEF Passed, Entry, PopSteps
  <2>3. Reached(cursor'[p])
    BY <1>0, <1>2, <1>5, <2>1
  <2>4. ASSUME NEW q \in Procs, pc[q] \in PushSteps, pc[q] # "finalize"
        PROVE  cursor'[p] < id[q]
    <3>1. \A i \in claim \cup used : i <= id[q]
      BY <1>0, <1>1, <2>4 DEF Serial, OnePush, PushSteps
    <3>2. pending[p] <= id[q]
      BY <1>0, <1>2, <3>1 DEF Reached
    <3>3. QED
      BY <1>0, <2>1, <3>2
  <2>5. QED
    BY <1>0, <1>1, <1>2, <1>3, <2>1, <2>2, <2>3, <2>4, PopperStep DEF PushSteps
<1>12. CASE RefreshHigh(p)
  <2>1. PICK h \in FileIds \cup {0} :
          /\ high' = [high EXCEPT ![p] = h]
          /\ \/ pc' = [pc EXCEPT ![p] = "idle"] /\ id' = id
             \/ /\ pc' = [pc EXCEPT ![p] = "probe"]
                /\ id' = [id EXCEPT ![p] = cursor[p] + 1]
    BY <1>12 DEF RefreshHigh
  <2>2. /\ pending[p] = 0 /\ pc[p] = "probe"
        /\ UNCHANGED <<claim, entry, used, cursor, pending>>
    BY <1>12 DEF RefreshHigh
  <2>3. pc'[p] = "probe" => Passed(p, id[p])'
    BY <1>0, <1>3, <2>1, <2>2 DEF Passed, Entry
  <2>4. high'[p] \in Nat /\ Reached(high'[p])
    BY <1>0, <1>4, <2>1
  <2>5. pc'[p] \in {"idle", "probe"}
    BY <1>0, <2>1
  <2>6. Elsewhere(p)
    BY <1>0, <2>1, <2>2
  <2>7. QED
    BY <1>0, <1>1, <1>2, <1>3, <2>2, <2>3, <2>4, <2>5, <2>6, PopperStep DEF PushSteps
<1>13. QED
  BY <1>6, <1>7, <1>8, <1>9, <1>10, <1>11, <1>12 DEF PopStep

\* The same for a step of a push that publishes nothing.
LEMMA PusherStep ==
  ASSUME Serial, NEW p \in Procs, Elsewhere(p), OnePush',
         UNCHANGED <<entry, cursor, high, pending>>,
         pc[p] # "dead", pc'[p] \notin {"probe", "exists_claim"}
  PROVE  Serial'
<1> USE DEF Serial, Elsewhere
<1>1. KnownIds'
  BY DEF KnownIds, Reached
<1>2. Probing'
  BY DEF Probing, Passed
<1>3. CursorStrandsNothing'
  BY DEF CursorStrandsNothing
<1>4. QED
  BY <1>1, <1>2, <1>3

LEMMA SerialPush ==
  ASSUME SInv, ~cleared, TypeOK', NEW p \in Procs,
         \/ PushStep(p) \/ Crash(p)
         \/ NoPushRunning /\ \E batch \in Batches : BeginPush(p, batch)
  PROVE  Serial'
<1>1. Serial /\ IInv /\ TypeOK
  BY DEF SInv, IInv
<1> USE DEF files, pushVars, popVars, history, Goto, Elsewhere
<1>0. /\ pc \in [Procs -> {"idle", "dead"} \cup PushSteps \cup PopSteps]
      /\ id \in [Procs -> Nat] /\ cursor \in [Procs -> Nat]
      /\ high \in [Procs -> Nat \cup {Unknown}] /\ pending \in [Procs -> Nat]
      /\ claim \cup used \subseteq Nat
      /\ \A e \in entry : e.id \in Nat
  BY <1>1 DEF TypeOK, Entry
<1>2. \A q \in Procs : /\ Reached(cursor[q]) /\ Reached(pending[q])
                       /\ high[q] # Unknown => Reached(high[q])
  BY <1>1 DEF Serial, KnownIds
<1>3. \A q \in Procs : pc[q] # "dead" => \A e \in entry : e.id > cursor[q]
  BY <1>1 DEF Serial, CursorStrandsNothing
\* What OnePush says of p while p is the process that pushes.
<1>4. ASSUME pc[p] \in PushSteps
      PROVE  /\ pc[p] # "release"
             /\ \A q \in Procs : pc[q] \in PushSteps => q = p
             /\ \A i \in used : i < id[p]
             /\ \A i \in claim : i <= id[p]
             /\ pc[p] = "claim" => \A i \in claim : i < id[p]
             /\ pc[p] # "finalize" => \A q \in Procs : cursor[q] < id[p]
             /\ \A n \in Nat : Reached(n) => n <= id[p]
  <2>1. /\ pc[p] # "release"
        /\ \A q \in Procs : pc[q] \in PushSteps => q = p
        /\ \A i \in used : i < id[p]
        /\ \A i \in claim : IF pc[p] = "claim" THEN i < id[p] ELSE i <= id[p]
        /\ pc[p] # "finalize" => \A q \in Procs : cursor[q] < id[p]
    BY <1>1, <1>4 DEF Serial, OnePush
  <2>2. \A i \in claim \cup used : i <= id[p]
    BY <1>0, <2>1
  <2>3. QED
    BY <1>0, <2>1, <2>2 DEF Reached
<1>5. ASSUME NoPushRunning, NEW batch \in Batches, BeginPush(p, batch)
      PROVE  Serial'
  <2>1. PICK h \in FileIds \cup {0} :
          IsHighestId(h) /\ id' = [id EXCEPT ![p] = h + 1]
    BY <1>5 DEF BeginPush
  <2>2. /\ pc' = [pc EXCEPT ![p] = "claim"] /\ pc[p] = "idle"
        /\ UNCHANGED <<claim, entry, used, cursor, high, pending>>
    BY <1>5 DEF BeginPush
  <2>3. h \in Nat /\ \A i \in claim \cup used : i <= h
    BY <1>0, <1>1, <2>1, NamesAreMarked DEF IsHighestId
  <2>4. \A q \in Procs : cursor[q] <= h
    BY <1>0, <1>2, <2>3 DEF Reached
  <2>5. OnePush'
    BY <1>0, <1>5, <2>1, <2>2, <2>3, <2>4 DEF OnePush, NoPushRunning, PushSteps
  <2>6. QED
    BY <1>0, <1>1, <2>1, <2>2, <2>5, PusherStep
<1>6. CASE ClaimWon(p)
  <2>1. /\ pc' = [pc EXCEPT ![p] = "check_entry"] /\ pc[p] = "claim"
        /\ claim' = claim \cup {id[p]}
        /\ UNCHANGED <<entry, used, id, cursor, high, pending>>
    BY <1>6 DEF ClaimWon
  <2>2. OnePush'
    BY <1>0, <1>4, <2>1 DEF OnePush, PushSteps
  <2>3. QED
    BY <1>0, <1>1, <2>1, <2>2, PusherStep
<1>7. CASE ClaimLost(p)
  BY <1>0, <1>4, <1>7 DEF ClaimLost, PushSteps
<1>8. CASE ClaimExhausted(p) \/ WriteFails(p)
  <2>1. /\ pc' = [pc EXCEPT ![p] = "idle"] /\ pc[p] \in {"claim", "publish"}
        /\ UNCHANGED <<claim, entry, used, id, cursor, high, pending>>
    BY <1>8 DEF ClaimExhausted, WriteFails
  <2>2. OnePush'
    BY <1>0, <1>4, <2>1 DEF OnePush, PushSteps
  <2>3. QED
    BY <1>0, <1>1, <2>1, <2>2, PusherStep
<1>9. CASE CheckEntry(p)
  <2>1. pc[p] = "check_entry"
    BY <1>9 DEF CheckEntry
  <2>2. id[p] \notin used
    BY <1>0, <1>4, <2>1 DEF PushSteps
  <2>3. id[p] \notin IdsOf(entry)
    BY <1>1, <2>1, <2>2 DEF IInv, SpentIds, Conservation, IdsOf
  <2>4. /\ pc' = [pc EXCEPT ![p] = "check_used"]
        /\ UNCHANGED <<claim, entry, used, id, cursor, high, pending>>
    BY <1>9, <2>3 DEF CheckEntry
  <2>5. OnePush'
    BY <1>0, <1>4, <2>1, <2>4 DEF OnePush, PushSteps
  <2>6. QED
    BY <1>0, <1>1, <2>1, <2>4, <2>5, PusherStep
<1>10. CASE CheckUsed(p)
  <2>1. pc[p] = "check_used"
    BY <1>10 DEF CheckUsed
  <2>2. id[p] \notin used
    BY <1>0, <1>4, <2>1 DEF PushSteps
  <2>3. /\ pc' = [pc EXCEPT ![p] = "publish"]
        /\ UNCHANGED <<claim, entry, used, id, cursor, high, pending>>
    BY <1>10, <2>2 DEF CheckUsed
  <2>4. OnePush'
    BY <1>0, <1>4, <2>1, <2>3 DEF OnePush, PushSteps
  <2>5. QED
    BY <1>0, <1>1, <2>1, <2>3, <2>4, PusherStep
<1>11. CASE Release(p)
  BY <1>0, <1>4, <1>11 DEF Release, PushSteps
<1>12. CASE Publish(p)
  <2> DEFINE x == [id |-> id[p], value |-> Head(queue[p])]
  <2>1. /\ pc' = [pc EXCEPT ![p] = "finalize"] /\ pc[p] = "publish"
        /\ entry' \subseteq entry \cup {x} /\ x.id = id[p]
        /\ UNCHANGED <<claim, used, id, cursor, high, pending>>
    BY <1>12 DEF Publish
  <2> HIDE DEF x
  <2>2. OnePush'
    BY <1>0, <1>4, <2>1 DEF OnePush, PushSteps
  <2>3. KnownIds'
    BY <1>1, <2>1 DEF Serial, KnownIds, Reached
  <2>4. /\ \A q \in Procs : cursor[q] < id[p]
        /\ \A q \in Procs : high[q] \in Nat => high[q] <= id[p]
    BY <1>0, <1>2, <1>4, <2>1 DEF PushSteps, Unknown
  <2>5. CursorStrandsNothing'
    BY <1>0, <1>3, <2>1, <2>4 DEF CursorStrandsNothing
  <2>6. Probing'
    <3>1. \A q \in Procs : pc[q] \in PopSteps => high[q] <= id[p]
      BY <1>1, <2>4 DEF TypeOK
    <3>2. \A q \in Procs, i \in Nat : Passed(q, i) /\ pc[q] \in PopSteps => Passed(q, i)'
      BY <2>1, <3>1 DEF Passed
    <3>3. QED
      BY <1>0, <1>1, <2>1, <3>2 DEF Serial, Probing, PopSteps
  <2>7. QED
    BY <2>2, <2>3, <2>5, <2>6 DEF Serial
<1>13. CASE Finalize(p)
  <2>1. /\ claim' = claim \ {id[p]} /\ used' = used \cup {id[p]}
        /\ id' = [id EXCEPT ![p] = @ + 1]
        /\ pc[p] = "finalize"
        /\ \/ pc' = [pc EXCEPT ![p] = "idle"]
           \/ pc' = [pc EXCEPT ![p] = "claim"]
        /\ UNCHANGED <<entry, cursor, high, pending>>
    BY <1>13 DEF Finalize
  <2>2. \A q \in Procs : cursor[q] <= id[p]
    BY <1>0, <1>2, <1>4, <2>1 DEF PushSteps
  <2>3. pc'[p] \in {"idle", "claim"} /\ Elsewhere(p)
    BY <1>0, <2>1
  <2>4. OnePush'
    BY <1>0, <1>4, <2>1, <2>2, <2>3 DEF OnePush, PushSteps
  <2>5. QED
    BY <1>1, <2>1, <2>3, <2>4, PusherStep
<1>14. CASE Crash(p)
  <2>1. /\ pc' = [pc EXCEPT ![p] = "dead"]
        /\ id' = [id EXCEPT ![p] = 0] /\ cursor' = [cursor EXCEPT ![p] = 0]
        /\ high' = [high EXCEPT ![p] = Unknown]
        /\ pending' = [pending EXCEPT ![p] = 0]
        /\ UNCHANGED <<claim, entry, used>>
    BY <1>14 DEF Crash
  <2>2. Reached(0)
    BY DEF Reached
  <2>3. \A q \in Procs : pc[q] \in PushSteps /\ pc[q] # "finalize" => 0 < id[q]
    BY <1>0, <1>1 DEF Serial, OnePush
  <2>4. QED
    BY <1>0, <1>1, <2>1, <2>2, <2>3, PopperStep DEF PushSteps
<1>15. QED
  BY <1>5, <1>6, <1>7, <1>8, <1>9, <1>10, <1>11, <1>12, <1>13, <1>14
     DEF PushStep

LEMMA SerialInit == Init => SInv
<1> SUFFICES ASSUME Init PROVE SInv
  OBVIOUS
<1>1. OnePush /\ KnownIds /\ Probing /\ CursorStrandsNothing
  BY DEF Init, OnePush, KnownIds, Probing, CursorStrandsNothing, Reached,
         PushSteps
<1>2. QED
  BY <1>1, IInvInit DEF SInv, Serial

LEMMA SerialStep == SInv /\ [SerialNext]_vars => SInv'
<1> SUFFICES ASSUME SInv, [SerialNext]_vars PROVE SInv'
  OBVIOUS
<1>1. IInv' /\ TypeOK'
  BY SerialIsNext, IInvStep DEF SInv, IInv
<1>2. SUFFICES ASSUME ~cleared' PROVE Serial'
  BY <1>1 DEF SInv
<1>3. CASE UNCHANGED vars
  <2>1. /\ UNCHANGED <<claim, entry, used, cursor, high, pending, pc, id>>
        /\ cleared' = cleared
    BY <1>3 DEF vars, files, popVars
  <2>2. QED
    BY <1>2, <2>1 DEF SInv, Serial, OnePush, KnownIds, Reached, Probing, Passed,
                      CursorStrandsNothing
<1>4. CASE SerialNext
  <2>1. ~cleared
    <3>1. ASSUME cleared PROVE FALSE
      <4>1. PICK p \in Procs :
              \/ NoPushRunning /\ \E batch \in Batches : BeginPush(p, batch)
              \/ PushStep(p) \/ BeginPop(p) \/ PopStep(p) \/ Clear(p) \/ Crash(p)
        BY <1>4 DEF SerialNext
      <4>2. cleared' = cleared \/ cleared' = TRUE
        BY <4>1 DEF BeginPush, PushStep, BeginPop, PopStep, Clear, Crash,
             ClaimWon, ClaimLost, ClaimExhausted, CheckEntry, CheckUsed,
             Release, Publish, WriteFails, Finalize, TakeEntry, MissEntry,
             CheckReservation, ReadClaimed, RewindToPending, RefreshHigh
      <4>3. QED
        BY <1>2, <3>1, <4>2
    <3>2. QED
      BY <3>1
  <2>2. ASSUME NEW p \in Procs, Clear(p) PROVE FALSE
    BY <1>2, <2>2 DEF Clear
  <2>3. QED
    BY <1>1, <1>4, <2>1, <2>2, SerialPop, SerialPush DEF SerialNext
<1>5. QED
  BY <1>3, <1>4

\* When no two pushes overlap, pops may run at any time: the cursor of
\* queue_pop never passes an id that has or will have an item, although every
\* popper probes with its own cursor, its own stale high-water mark and two
\* system calls per id, and whatever reservations dead pushers left.
THEOREM SerialCursor == SerialSafety => []CursorStrandsNothing
<1>1. SInv => CursorStrandsNothing
  BY DEF SInv, IInv, QuietWhenCleared, Serial, CursorStrandsNothing
<1>2. QED
  BY <1>1, SerialInit, SerialStep, PTL DEF SerialSafety

-----------------------------------------------------------------------------
(* The parallel scan: the inductive invariant                              *)

\* Before init: nothing there.  During it: the chunks still queued and the
\* ids returned make up the scan, and the only reservation is that of the id
\* being published.  Once it has answered: no reservation is left.
Dividing ==
  /\ ~cleared
  /\ IsFiniteSet(acked)
  /\ \A p \in Procs : pc[p] \in PushSteps => p = Primary /\ Chunks \notin unsent
  /\ Chunks \in unsent => claim = {} /\ used = {} /\ acked = {}
  /\ pc[Primary] \in PushSteps =>
       /\ Cardinality(acked) + Len(queue[Primary]) = Len(Chunks)
       /\ pc[Primary] # "release"
       /\ claim = IF pc[Primary] = "claim" THEN {} ELSE {id[Primary]}
       /\ id[Primary] > 0 /\ \A i \in used : i < id[Primary]
  /\ InitAnswered => claim = {}

\* Workers pop only after init has answered, when entries only go away: what
\* a probe has passed over stays passed over.
Draining ==
  \A p \in Procs :
    /\ pc[p] \in PopSteps \/ result[p] = "empty" => InitAnswered
    /\ pending[p] = 0
    /\ result[p] = "empty" => entry = {}
    /\ InitAnswered \/ cursor[p] = 0
    /\ pc[p] # "dead" => \A e \in entry : e.id > cursor[p]
    /\ pc[p] = "probe" => \A e \in entry : e.id >= id[p]
    /\ pc[p] = "exists_claim" => \A e \in entry : e.id > id[p]

DInv == IInv /\ Dividing /\ Draining

LEMMA ScanIsNext == [ScanNext]_vars => [Next]_vars
  BY ScanAssumption DEF ScanNext, OnInit, NextChunk, Next

LEMMA ScanInit == Init => DInv
<1> SUFFICES ASSUME Init PROVE DInv
  OBVIOUS
<1>1. Dividing /\ Draining
  BY FS_EmptySet, ScanAssumption
     DEF Init, Dividing, Draining, InitAnswered, PushSteps, PopSteps
<1>2. QED
  BY <1>1, IInvInit DEF DInv

\* Draining' from Draining, for a step that leaves the answer of init and
\* the other workers alone and adds no entry.
LEMMA DrainerStep ==
  ASSUME Draining, NEW p \in Procs, Elsewhere(p),
         InitAnswered' = InitAnswered,
         \A q \in Procs \ {p} : result'[q] = result[q],
         pc'[p] \in PopSteps \/ result'[p] = "empty" => InitAnswered',
         pending'[p] = 0,
         result'[p] = "empty" => entry' = {},
         pc'[p] # "dead" => \A e \in entry' : e.id > cursor'[p],
         pc'[p] = "probe" => \A e \in entry' : e.id >= id'[p],
         pc'[p] = "exists_claim" => \A e \in entry' : e.id > id'[p],
         InitAnswered' \/ cursor'[p] = 0
  PROVE  Draining'
BY DEF Draining, Elsewhere

LEMMA ScanPop ==
  ASSUME DInv, TypeOK', NEW p \in Procs, NextChunk(p) \/ PopStep(p)
  PROVE  Dividing' /\ Draining'
<1>1. Dividing /\ Draining /\ IInv /\ TypeOK /\ ~cleared
  BY DEF DInv, IInv, Dividing
<1> USE DEF files, pushVars, popVars, history, Goto, Elsewhere
<1>0. /\ pc \in [Procs -> {"idle", "dead"} \cup PushSteps \cup PopSteps]
      /\ id \in [Procs -> Nat] /\ cursor \in [Procs -> Nat]
      /\ high \in [Procs -> Nat \cup {Unknown}] /\ pending \in [Procs -> Nat]
      /\ result \in [Procs -> {"none", "item", "empty"}]
      /\ pc[p] \in PopSteps => high[p] \in Nat
      /\ claim \cup used \subseteq Nat
      /\ \A e \in entry : e.id \in Nat
  BY <1>1 DEF TypeOK, Entry
<1>2. InitAnswered /\ claim = {}
  <2>1. InitAnswered
    BY <1>1 DEF Draining, NextChunk, PopStep, TakeEntry, MissEntry,
       CheckReservation, ReadClaimed, RewindToPending, RefreshHigh, PopSteps
  <2>2. QED
    BY <1>1, <2>1 DEF Dividing
<1>3. /\ pending[p] = 0
      /\ result[p] = "empty" => entry = {}
      /\ pc[p] # "dead" => \A e \in entry : e.id > cursor[p]
      /\ pc[p] = "probe" => \A e \in entry : e.id >= id[p]
      /\ pc[p] = "exists_claim" => \A e \in entry : e.id > id[p]
  BY <1>1, <1>2 DEF Draining
<1>4. UNCHANGED <<claim, used, queue, unsent, acked, cleared>>
  BY DEF NextChunk, BeginPop, PopStep, TakeEntry, MissEntry, CheckReservation,
         ReadClaimed, RewindToPending, RefreshHigh
<1>5. InitAnswered' /\ InitAnswered' = InitAnswered
  BY <1>2, <1>4 DEF InitAnswered
<1>6. /\ pc'[p] \notin PushSteps
      /\ \A q \in Procs \ {p} : pc'[q] = pc[q] /\ id'[q] = id[q]
  <2>1. CASE NextChunk(p)
    BY <1>0, <2>1 DEF NextChunk, BeginPop, PushSteps
  <2>2. CASE RefreshHigh(p)
    <3>1. \/ pc' = [pc EXCEPT ![p] = "idle"] /\ id' = id
          \/ /\ pc' = [pc EXCEPT ![p] = "probe"]
             /\ id' = [id EXCEPT ![p] = cursor[p] + 1]
      BY <2>2 DEF RefreshHigh
    <3>2. QED
      BY <1>0, <3>1 DEF PushSteps
  <2>3. CASE TakeEntry(p) \/ MissEntry(p) \/ CheckReservation(p)
               \/ ReadClaimed(p) \/ RewindToPending(p)
    BY <1>0, <2>3 DEF TakeEntry, MissEntry, CheckReservation, ReadClaimed,
       RewindToPending, PushSteps
  <2>4. QED
    BY <2>1, <2>2, <2>3 DEF PopStep
<1>7. Dividing'
  <2>1. pc'[Primary] \in PushSteps =>
          pc'[Primary] = pc[Primary] /\ id'[Primary] = id[Primary]
    BY <1>6, ScanAssumption
  <2>2. \A q \in Procs : pc'[q] \in PushSteps => pc[q] \in PushSteps
    BY <1>6
  <2>3. QED
    BY <1>1, <1>2, <1>4, <2>1, <2>2 DEF Dividing
<1>8. CASE NextChunk(p)
  <2>1. /\ pc' = [pc EXCEPT ![p] = "probe"] /\ pc[p] = "idle"
        /\ id' = [id EXCEPT ![p] = cursor[p] + 1]
        /\ pending' = [pending EXCEPT ![p] = 0]
        /\ result' = [result EXCEPT ![p] = "none"]
        /\ UNCHANGED <<entry, cursor>>
    BY <1>8 DEF NextChunk, BeginPop
  <2>2. \A q \in Procs \ {p} : high'[q] = high[q]
    BY <1>0, <1>8 DEF NextChunk, BeginPop
  <2>3. QED
    BY <1>0, <1>1, <1>2, <1>3, <1>4, <1>5, <1>7, <2>1, <2>2, DrainerStep
<1>9. CASE TakeEntry(p)
  <2>1. PICK e \in entry : e.id = id[p] /\ entry' = entry \ {e}
    BY <1>9 DEF TakeEntry
  <2>2. /\ pc' = [pc EXCEPT ![p] = "read"] /\ pc[p] = "probe"
        /\ cursor' = [cursor EXCEPT ![p] = id[p]]
        /\ UNCHANGED <<id, high, pending, result>>
    BY <1>3, <1>9 DEF TakeEntry
  <2>3. \A x \in entry' : x.id \in Nat /\ x.id # id[p]
    BY <1>0, <1>1, <2>1 DEF IInv, Conservation, IdSpentOnce
  <2>4. \A x \in entry' : x.id > id[p]
    BY <1>0, <1>3, <2>1, <2>2, <2>3
  <2>5. QED
    BY <1>0, <1>1, <1>2, <1>3, <1>4, <1>5, <1>7, <2>1, <2>2, <2>4, DrainerStep
<1>10. CASE MissEntry(p)
  <2>1. /\ pc' = [pc EXCEPT ![p] = "exists_claim"] /\ pc[p] = "probe"
        /\ id[p] \notin IdsOf(entry)
        /\ UNCHANGED <<entry, id, cursor, high, pending, result>>
    BY <1>10 DEF MissEntry
  <2>2. \A e \in entry : e.id > id[p]
    BY <1>0, <1>3, <2>1 DEF IdsOf
  <2>3. QED
    BY <1>0, <1>1, <1>2, <1>3, <1>4, <1>5, <1>7, <2>1, <2>2, DrainerStep
<1>11. CASE CheckReservation(p)
  <2>1. /\ pc' = [pc EXCEPT ![p] = "probe"] /\ pc[p] = "exists_claim"
        /\ id' = [id EXCEPT ![p] = @ + 1]
        /\ UNCHANGED <<entry, cursor, high, result>>
    BY <1>11 DEF CheckReservation
  <2>2. pending' = pending
    BY <1>0, <1>2, <1>11 DEF CheckReservation
  <2>3. \A e \in entry : e.id >= id'[p]
    BY <1>0, <1>3, <2>1
  <2>4. QED
    BY <1>0, <1>1, <1>2, <1>3, <1>4, <1>5, <1>7, <2>1, <2>2, <2>3, DrainerStep
<1>12. CASE ReadClaimed(p)
  <2>1. /\ pc' = [pc EXCEPT ![p] = "idle"] /\ pc[p] = "read"
        /\ result' = [result EXCEPT ![p] = "item"]
        /\ UNCHANGED <<entry, id, cursor, high, pending>>
    BY <1>12 DEF ReadClaimed
  <2>2. QED
    BY <1>0, <1>1, <1>2, <1>3, <1>4, <1>5, <1>7, <2>1, DrainerStep
<1>13. CASE RewindToPending(p)
  BY <1>3, <1>13 DEF RewindToPending
<1>14. CASE RefreshHigh(p)
  <2>1. PICK h \in FileIds \cup {0} :
          /\ IsHighestId(h) /\ high' = [high EXCEPT ![p] = h]
          /\ \/ /\ h <= high[p] /\ id' = id
                /\ pc' = [pc EXCEPT ![p] = "idle"]
                /\ result' = [result EXCEPT ![p] = "empty"]
             \/ /\ pc' = [pc EXCEPT ![p] = "probe"] /\ result' = result
                /\ id' = [id EXCEPT ![p] = cursor[p] + 1]
    BY <1>14 DEF RefreshHigh
  <2>2. /\ pc[p] = "probe" /\ id[p] > high[p]
        /\ UNCHANGED <<entry, cursor, pending>>
    BY <1>14 DEF RefreshHigh
  <2>3. h <= high[p] => entry = {}
    <3>1. h \in Nat /\ \A e \in entry : e.id <= h
      BY <1>0, <1>1, <2>1, NamesAreMarked DEF IsHighestId, FileIds, IdsOf
    <3>2. \A e \in entry : e.id >= id[p]
      BY <1>3, <2>2
    <3>3. QED
      BY <1>0, <2>2, <3>1, <3>2 DEF PopSteps
  <2>4. CASE pc' = [pc EXCEPT ![p] = "idle"] /\ entry = {}
    BY <1>0, <1>1, <1>2, <1>3, <1>4, <1>5, <1>7, <2>1, <2>2, <2>4, DrainerStep
  <2>5. CASE /\ pc' = [pc EXCEPT ![p] = "probe"] /\ result' = result
             /\ id' = [id EXCEPT ![p] = cursor[p] + 1]
    <3>1. \A e \in entry : e.id >= id'[p]
      BY <1>0, <1>3, <2>2, <2>5
    <3>2. QED
      BY <1>0, <1>1, <1>2, <1>3, <1>4, <1>5, <1>7, <2>1, <2>2, <2>5, <3>1,
         DrainerStep
  <2>6. QED
    BY <2>1, <2>3, <2>4, <2>5
<1>15. QED
  BY <1>8, <1>9, <1>10, <1>11, <1>12, <1>13, <1>14 DEF PopStep

\* While chunks are queued init has not answered, so nobody pops.
LEMMA NobodyPops ==
  ASSUME DInv, pc[Primary] \in PushSteps
  PROVE  /\ ~InitAnswered /\ IsFiniteSet(acked) /\ Cardinality(acked) \in Nat
         /\ Len(queue[Primary]) \in Nat \ {0}
         /\ \A q \in Procs : pc[q] \notin PopSteps /\ result[q] # "empty"
                             /\ cursor[q] = 0
<1>1. IsFiniteSet(acked) /\ Cardinality(acked) \in Nat
  BY FS_CardinalityType DEF DInv, Dividing
<1>2. Len(queue[Primary]) \in Nat \ {0}
  BY ScanAssumption DEF DInv, IInv, TypeOK
<1>3. Cardinality(acked) # Len(Chunks)
  BY <1>1, <1>2 DEF DInv, Dividing
<1>4. ~InitAnswered
  BY <1>3 DEF InitAnswered
<1>5. QED
  BY <1>1, <1>2, <1>4 DEF DInv, Draining

LEMMA ScanPush ==
  ASSUME DInv, IInv', NEW p \in Procs, PushStep(p)
  PROVE  Dividing' /\ Draining'
<1>1. Dividing /\ Draining /\ IInv /\ TypeOK /\ ~cleared
  BY DEF DInv, IInv, Dividing
<1>2. p = Primary /\ pc[p] \in PushSteps
  <2>1. pc[p] \in PushSteps
    BY DEF PushStep, ClaimWon, ClaimLost, ClaimExhausted, CheckEntry, CheckUsed,
           Release, Publish, WriteFails, Finalize, Goto, PushSteps
  <2>2. QED
    BY <1>1, <2>1 DEF Dividing
<1> USE DEF files, pushVars, popVars, history, Goto
<1>0. /\ pc \in [Procs -> {"idle", "dead"} \cup PushSteps \cup PopSteps]
      /\ id \in [Procs -> Nat] /\ queue \in [Procs -> Seq(Items)]
      /\ result \in [Procs -> {"none", "item", "empty"}]
      /\ claim \cup used \subseteq Nat
      /\ \A e \in entry : e.id \in Nat
  BY <1>1 DEF TypeOK, Entry
<1>3. /\ ~InitAnswered /\ IsFiniteSet(acked) /\ Cardinality(acked) \in Nat
      /\ Len(queue[p]) \in Nat \ {0}
      /\ \A q \in Procs : pc[q] \notin PopSteps /\ result[q] # "empty"
                          /\ cursor[q] = 0
  BY <1>2, NobodyPops
<1>4. /\ Chunks \notin unsent
      /\ \A q \in Procs : pc[q] \in PushSteps => q = p
      /\ Cardinality(acked) + Len(queue[p]) = Len(Chunks)
      /\ pc[p] # "release"
      /\ claim = IF pc[p] = "claim" THEN {} ELSE {id[p]}
      /\ id[p] > 0 /\ \A i \in used : i < id[p]
  BY <1>1, <1>2 DEF Dividing
<1>5. \A q \in Procs : pending[q] = 0
  BY <1>1 DEF Draining
<1>6. UNCHANGED <<cursor, pending, result, unsent, cleared>>
  BY DEF PushStep, ClaimWon, ClaimLost, ClaimExhausted, CheckEntry, CheckUsed,
         Release, Publish, WriteFails, Finalize
\* The poppers' part: nobody pops, every cursor is 0 and every id is above.
<1>7. ASSUME \A q \in Procs : pc'[q] \in PushSteps \cup {"idle"} \/ pc'[q] = pc[q],
             \A e \in entry' : e.id > 0
      PROVE  Draining'
  BY <1>3, <1>5, <1>6, <1>7 DEF Draining, PushSteps, PopSteps
<1>8. \A e \in entry : e.id > 0
  BY <1>1, <1>2, <1>3 DEF Draining, PushSteps
<1>9. ASSUME UNCHANGED <<entry, used, acked, id, queue>>,
             NEW s \in {"idle", "check_entry", "check_used", "publish"},
             pc' = [pc EXCEPT ![p] = s],
             s # "idle" => claim' = {id[p]}
      PROVE  Dividing' /\ Draining'
  <2>1. Draining'
    BY <1>0, <1>7, <1>8, <1>9 DEF PushSteps
  <2>2. ~InitAnswered'
    BY <1>3, <1>6, <1>9 DEF InitAnswered
  <2>3. Dividing'
    BY <1>0, <1>1, <1>2, <1>3, <1>4, <1>6, <1>9, <2>2 DEF Dividing, PushSteps
  <2>4. QED
    BY <2>1, <2>3
<1>10. CASE ClaimWon(p)
  <2>1. /\ pc' = [pc EXCEPT ![p] = "check_entry"] /\ claim' = {id[p]}
        /\ UNCHANGED <<entry, used, acked, id, queue>>
    BY <1>4, <1>10 DEF ClaimWon
  <2>2. QED
    BY <1>9, <2>1
<1>11. CASE ClaimLost(p)
  BY <1>4, <1>11 DEF ClaimLost
<1>12. CASE ClaimExhausted(p) \/ WriteFails(p)
  <2>1. /\ pc' = [pc EXCEPT ![p] = "idle"]
        /\ UNCHANGED <<entry, used, acked, id, queue>>
    BY <1>12 DEF ClaimExhausted, WriteFails
  <2>2. QED
    BY <1>9, <2>1
<1>13. CASE CheckEntry(p)
  <2>1. pc[p] = "check_entry"
    BY <1>13 DEF CheckEntry
  <2>2. id[p] \notin used
    BY <1>0, <1>4
  <2>3. id[p] \notin IdsOf(entry)
    BY <1>1, <2>1, <2>2 DEF IInv, SpentIds, Conservation, IdsOf
  <2>4. /\ pc' = [pc EXCEPT ![p] = "check_used"] /\ claim' = claim
        /\ UNCHANGED <<entry, used, acked, id, queue>>
    BY <1>13, <2>3 DEF CheckEntry
  <2>5. QED
    BY <1>4, <1>9, <2>1, <2>4
<1>14. CASE CheckUsed(p)
  <2>1. pc[p] = "check_used" /\ id[p] \notin used
    BY <1>0, <1>4, <1>14 DEF CheckUsed
  <2>2. /\ pc' = [pc EXCEPT ![p] = "publish"] /\ claim' = claim
        /\ UNCHANGED <<entry, used, acked, id, queue>>
    BY <1>14, <2>1 DEF CheckUsed
  <2>3. QED
    BY <1>4, <1>9, <2>1, <2>2
<1>15. CASE Release(p)
  BY <1>4, <1>15 DEF Release
<1>16. CASE Publish(p)
  <2> DEFINE x == [id |-> id[p], value |-> Head(queue[p])]
  <2>1. /\ pc' = [pc EXCEPT ![p] = "finalize"] /\ pc[p] = "publish"
        /\ entry' \subseteq entry \cup {x} /\ x.id = id[p]
        /\ UNCHANGED <<claim, used, acked, id, queue>>
    BY <1>16 DEF Publish
  <2> HIDE DEF x
  <2>2. Draining'
    BY <1>0, <1>4, <1>7, <1>8, <2>1 DEF PushSteps
  <2>3. ~InitAnswered'
    BY <1>3, <1>6, <2>1 DEF InitAnswered
  <2>4. Dividing'
    BY <1>0, <1>1, <1>2, <1>3, <1>4, <1>6, <2>1, <2>3 DEF Dividing, PushSteps
  <2>5. QED
    BY <2>2, <2>4
<1>17. CASE Finalize(p)
  <2> DEFINE rest == Tail(queue[p])
  <2>1. /\ pc[p] = "finalize" /\ pc' = [pc EXCEPT ![p] =
             IF rest = << >> THEN "idle" ELSE "claim"]
        /\ claim' = claim \ {id[p]} /\ used' = used \cup {id[p]}
        /\ acked' = acked \cup {id[p]}
        /\ queue' = [queue EXCEPT ![p] = rest]
        /\ id' = [id EXCEPT ![p] = @ + 1]
        /\ UNCHANGED entry
    BY <1>17 DEF Finalize
  <2>2. queue[p] \in Seq(Items) /\ queue[p] # << >>
    BY <1>1, <1>2 DEF TypeOK
  <2>3. rest \in Seq(Items) /\ Len(rest) = Len(queue[p]) - 1
    BY <2>2
  <2> HIDE DEF rest
  <2>4. id[p] \notin acked
    BY <1>0, <1>1, <1>4 DEF IInv, SpentIds
  <2>5. /\ IsFiniteSet(acked')
        /\ Cardinality(acked') = Cardinality(acked) + 1
    BY <1>3, <2>1, <2>4, FS_AddElement
  <2>6. claim' = {}
    BY <1>4, <2>1
  <2>7. Draining'
    BY <1>0, <1>7, <1>8, <2>1 DEF PushSteps
  <2>8. Cardinality(acked') + Len(queue'[p]) = Len(Chunks)
    BY <1>0, <1>3, <1>4, <2>1, <2>3, <2>5
  <2>9. \A i \in used' : i < id'[p]
    BY <1>0, <1>4, <2>1
  <2>10. pc'[p] \in {"idle", "claim"} /\ \A q \in Procs \ {p} : pc'[q] = pc[q]
    BY <1>0, <2>1
  <2>11. id'[p] > 0 /\ ~cleared' /\ Chunks \notin unsent'
    BY <1>0, <1>1, <1>4, <1>6, <2>1
  <2>12. \A q \in Procs : pc'[q] \in PushSteps => q = Primary
    BY <1>2, <1>4, <2>10
  <2>13. Dividing'
    BY <1>2, <2>5, <2>6, <2>8, <2>9, <2>10, <2>11, <2>12
       DEF Dividing, PushSteps
  <2>14. QED
    BY <2>7, <2>13
<1>18. QED
  BY <1>10, <1>11, <1>12, <1>13, <1>14, <1>15, <1>16, <1>17 DEF PushStep

LEMMA ScanCrash ==
  ASSUME DInv, NEW p \in Procs, Crash(p)
  PROVE  Dividing' /\ Draining'
<1>1. Dividing /\ Draining /\ TypeOK
  BY DEF DInv, IInv
<1>2. /\ pc' = [pc EXCEPT ![p] = "dead"] /\ id' = [id EXCEPT ![p] = 0]
      /\ queue' = [queue EXCEPT ![p] = << >>]
      /\ cursor' = [cursor EXCEPT ![p] = 0]
      /\ high' = [high EXCEPT ![p] = Unknown]
      /\ pending' = [pending EXCEPT ![p] = 0]
      /\ result' = [result EXCEPT ![p] = "none"]
      /\ UNCHANGED <<claim, entry, used, cleared, unsent, acked>>
  BY DEF Crash, files, history
<1>3. InitAnswered' = InitAnswered
  BY <1>2 DEF InitAnswered
<1>4. Elsewhere(p) /\ pc'[p] = "dead" /\ pending'[p] = 0 /\ cursor'[p] = 0
      /\ result'[p] = "none" /\ \A q \in Procs \ {p} : result'[q] = result[q]
  BY <1>1, <1>2 DEF TypeOK, Elsewhere
<1>5. Draining'
  BY <1>1, <1>3, <1>4, DrainerStep DEF PopSteps
<1>6. pc'[Primary] \in PushSteps =>
        /\ pc'[Primary] = pc[Primary] /\ id'[Primary] = id[Primary]
        /\ queue'[Primary] = queue[Primary]
  BY <1>1, <1>2, ScanAssumption DEF TypeOK, PushSteps
<1>7. \A q \in Procs : pc'[q] \in PushSteps => pc[q] \in PushSteps
  BY <1>4 DEF Elsewhere, PushSteps
<1>8. Dividing'
  BY <1>1, <1>2, <1>3, <1>6, <1>7 DEF Dividing
<1>9. QED
  BY <1>5, <1>8

LEMMA ScanBegin ==
  ASSUME DInv, OnInit
  PROVE  Dividing' /\ Draining'
<1>1. Dividing /\ Draining /\ TypeOK /\ IInv /\ ~cleared
  BY DEF DInv, IInv, Dividing
<1>2. /\ Chunks \in unsent /\ unsent' = unsent \ {Chunks}
      /\ pc' = [pc EXCEPT ![Primary] = "claim"] /\ pc[Primary] = "idle"
      /\ queue' = [queue EXCEPT ![Primary] = Chunks]
      /\ UNCHANGED <<claim, used, entry, cursor, high, pending, result, acked>>
      /\ cleared' = cleared
  BY DEF OnInit, BeginPush, Goto, files, popVars
<1>3. claim = {} /\ used = {} /\ acked = {} /\ ~InitAnswered
  BY <1>1, <1>2 DEF Dividing, InitAnswered
<1>4. PICK h \in FileIds \cup {0} : id' = [id EXCEPT ![Primary] = h + 1]
  BY DEF OnInit, BeginPush
<1>5. FileIds = {} /\ entry = {}
  BY <1>1, <1>3, NamesAreMarked DEF IdsOf
<1>6. id'[Primary] = 1
  BY <1>1, <1>4, <1>5, ScanAssumption DEF TypeOK
<1>7. Chunks \in Seq(Items) /\ Len(Chunks) \in Nat \ {0}
  BY ScanAssumption, BatchesAssumption
<1>8. IsFiniteSet(acked') /\ Cardinality(acked') = 0 /\ ~InitAnswered'
  BY <1>2, <1>3, <1>7, FS_EmptySet DEF InitAnswered
<1>9. /\ pc'[Primary] = "claim" /\ queue'[Primary] = Chunks
      /\ \A q \in Procs \ {Primary} : pc'[q] = pc[q]
  BY <1>1, <1>2, ScanAssumption DEF TypeOK
<1>10. Draining'
  BY <1>1, <1>2, <1>3, <1>5, <1>9 DEF Draining, PopSteps
<1>11. Dividing'
  <2>1. \A q \in Procs : pc'[q] \in PushSteps => q = Primary
    BY <1>1, <1>2, <1>9 DEF Dividing
  <2>2. Cardinality(acked') + Len(queue'[Primary]) = Len(Chunks)
    BY <1>7, <1>8, <1>9
  <2>3. QED
    BY <1>1, <1>2, <1>3, <1>6, <1>8, <1>9, <2>1, <2>2 DEF Dividing, PushSteps
<1>12. QED
  BY <1>10, <1>11

LEMMA ScanStep == DInv /\ [ScanNext]_vars => DInv'
<1> SUFFICES ASSUME DInv, [ScanNext]_vars PROVE DInv'
  OBVIOUS
<1>1. IInv' /\ TypeOK'
  BY ScanIsNext, IInvStep DEF DInv, IInv
<1>2. CASE UNCHANGED vars
  BY <1>1, <1>2 DEF DInv, Dividing, Draining, InitAnswered, vars, files,
                    pushVars, popVars, history
<1>3. CASE ScanNext
  BY <1>1, <1>3, ScanPop, ScanPush, ScanCrash, ScanBegin DEF ScanNext, DInv
<1>4. QED
  BY <1>2, <1>3

\* However many workers pop, however stale the cursor and the mark each probes
\* with and whoever dies: a worker whose queue_pop answered nullopt ends its
\* stream only when every chunk of the scan has been taken by some worker.
THEOREM ScanDrains == ScanSpec => []FinishedMeansDrained
<1>1. DInv => FinishedMeansDrained
  BY DEF DInv, Draining, FinishedMeansDrained, Finished
<1>2. QED
  BY <1>1, ScanInit, ScanStep, PTL DEF ScanSpec

-----------------------------------------------------------------------------
(* The file of one key                                                     *)

\* A process's temporary exists only while its thread is writing it, is empty
\* until the write and whole from there to the rename; no two names are of
\* the same inode, so what has the key's name is written by nobody.
KeyTypes ==
  /\ path \in Inodes \cup {None}
  /\ temp \in [K!Pids -> Inodes \cup {None}]
  /\ content \in [Inodes -> SUBSET Values]
  /\ call \in [Threads -> {"idle", "write", "rename", "read"}]
  /\ fd \in [Threads -> Inodes \cup {None}]
  /\ value \in [Threads -> Values \cup {None}]
  /\ DOMAIN got = Threads /\ DOMAIN raced = Threads

Temporaries ==
  \A t \in Threads :
    LET i == temp[ProcOf[t]] IN
    /\ call[t] \in {"idle", "read"} => i = None /\ fd[t] = None
    /\ call[t] = "write" =>
         i # None /\ fd[t] = i /\ content[i] = {} /\ value[t] \in Values
    /\ call[t] = "rename" => i # None /\ fd[t] = None /\ content[i] \in K!Whole

NamesApart ==
  /\ \A q \in K!Pids : path # None => temp[q] # path
  /\ \A q, r \in K!Pids : temp[q] = temp[r] /\ temp[q] # None => q = r

\* A kv_get about to read has a file to read, or a kv_del came between.
Reading == \A t \in Threads : call[t] = "read" => path # None \/ raced[t]

KInv == KeyTypes /\ Temporaries /\ NamesApart /\ Reading /\ ValuesAreWhole

LEMMA KeyInit == K!Init => KInv
<1> SUFFICES ASSUME K!Init PROVE KInv
  OBVIOUS
<1> USE DEF K!Init
<1>1. KeyTypes
  BY DEF KeyTypes
<1>2. Temporaries /\ NamesApart /\ Reading
  BY DEF Temporaries, NamesApart, Reading, K!Pids
<1>3. ValuesAreWhole
  BY DEF ValuesAreWhole, K!NameIsWhole, K!GetIsHonest
<1>4. QED
  BY <1>1, <1>2, <1>3 DEF KInv

\* A file can always be created: the key's name and the temporaries of the
\* other threads leave an inode over.
LEMMA FreeInode ==
  ASSUME KInv, NEW t \in Threads, temp[ProcOf[t]] = None
  PROVE  (CHOOSE f \in K!Free : TRUE) \in K!Free
<1>1. SUFFICES ASSUME K!Free = {} PROVE FALSE
  OBVIOUS
<1> DEFINE f == [i \in Inodes |->
                   IF i = path THEN t
                   ELSE CHOOSE u \in Threads : temp[ProcOf[u]] = i]
<1>2. ASSUME NEW i \in Inodes, i # path
      PROVE  \E u \in Threads : temp[ProcOf[u]] = i
  <2>1. \/ \E q \in K!Pids : temp[q] = i
        \/ \E u \in Threads : fd[u] = i
    BY <1>1, <1>2 DEF K!Free
  <2>2. \A u \in Threads : fd[u] = None \/ fd[u] = temp[ProcOf[u]]
    BY DEF KInv, KeyTypes, Temporaries
  <2>3. QED
    BY <2>1, <2>2, StorageFilesAssumption DEF K!Pids, K!NoneAssumption
<1>3. ASSUME NEW i \in Inodes, i # path
      PROVE  f[i] \in Threads /\ temp[ProcOf[f[i]]] = i /\ f[i] # t
  BY <1>2, <1>3, StorageFilesAssumption DEF K!NoneAssumption
<1>4. f \in [Inodes -> Threads]
  BY <1>3
<1>5. /\ IsFiniteSet(Threads) /\ IsFiniteSet(Inodes)
      /\ Cardinality(Threads) < Cardinality(Inodes)
  <2>1. /\ IsFiniteSet(Threads) /\ IsFiniteSet(Inodes)
        /\ Cardinality(Inodes) > Cardinality(Threads)
    BY StorageFilesAssumption DEF EnoughInodes
  <2>2. Cardinality(Threads) \in Nat /\ Cardinality(Inodes) \in Nat
    BY <2>1, FS_CardinalityType
  <2>3. QED
    BY <2>1, <2>2
<1>6. \E i, j \in Inodes : i # j /\ f[i] = f[j]
  <2> HIDE DEF f
  <2>1. QED
    BY <1>4, <1>5, FS_PigeonHole
<1>7. path \in Inodes => f[path] = t
  OBVIOUS
<1> HIDE DEF f
<1>8. QED
  BY <1>3, <1>6, <1>7

LEMMA KeyStep == KInv /\ [K!Next]_keyVars => KInv'
<1> SUFFICES ASSUME KInv, [K!Next]_keyVars PROVE KInv'
  OBVIOUS
<1>1. KeyTypes /\ Temporaries /\ NamesApart /\ Reading /\ ValuesAreWhole
  BY DEF KInv
<1>2. None \notin Inodes /\ \A t, u \in Threads : ProcOf[t] = ProcOf[u] => t = u
  BY StorageFilesAssumption DEF K!NoneAssumption, K!OneThreadPerProcess
<1>3. \A t \in Threads : ProcOf[t] \in K!Pids
  BY DEF K!Pids
<1>4. \A q \in K!Pids : \E t \in Threads : q = ProcOf[t]
  BY DEF K!Pids
<1>5. /\ path # None => content[path] \in K!Whole
      /\ \A t \in Threads : got[t] \in K!Whole \cup {None} \/ raced[t]
  BY <1>1 DEF ValuesAreWhole, K!NameIsWhole, K!GetIsHonest
<1>6. \A v \in Values : {v} \in K!Whole
  BY DEF K!Whole
<1> USE DEF K!Goto
<1>7. ASSUME NEW t \in Threads, NEW v \in Values, K!OpenTemp(t, v) PROVE KInv'
  <2> DEFINE i == IF temp[ProcOf[t]] = None THEN CHOOSE f \in K!Free : TRUE
                  ELSE temp[ProcOf[t]]
  <2>1. /\ call[t] = "idle" /\ call' = [call EXCEPT ![t] = "write"]
        /\ temp' = [temp EXCEPT ![ProcOf[t]] = i]
        /\ content' = [content EXCEPT ![i] = {}]
        /\ fd' = [fd EXCEPT ![t] = i] /\ value' = [value EXCEPT ![t] = v]
        /\ UNCHANGED <<path, got, raced>>
    BY <1>7 DEF K!OpenTemp
  <2>2. temp[ProcOf[t]] = None
    BY <1>1, <2>1 DEF Temporaries
  <2>3. i \in K!Free
    BY <2>2, FreeInode
  <2> HIDE DEF i
  <2>4. /\ i \in Inodes /\ i # path /\ i # None
        /\ \A q \in K!Pids : i # temp[q]
    BY <1>2, <2>3 DEF K!Free
  <2>5. KeyTypes'
    BY <1>1, <2>1, <2>4 DEF KeyTypes
  <2>6. NamesApart'
    BY <1>1, <1>3, <2>1, <2>4 DEF NamesApart, KeyTypes
  <2>7. Temporaries'
    <3>1. \A u \in Threads \ {t} : ProcOf[u] # ProcOf[t]
      BY <1>2
    <3>2. ASSUME NEW u \in Threads, u # t
          PROVE  /\ temp'[ProcOf[u]] = temp[ProcOf[u]] /\ call'[u] = call[u]
                 /\ fd'[u] = fd[u] /\ value'[u] = value[u]
                 /\ temp[ProcOf[u]] \in Inodes =>
                      content'[temp[ProcOf[u]]] = content[temp[ProcOf[u]]]
      BY <1>1, <1>3, <2>1, <2>4, <3>1, <3>2 DEF KeyTypes
    <3>3. /\ temp'[ProcOf[t]] = i /\ fd'[t] = i /\ content'[i] = {}
          /\ value'[t] = v /\ call'[t] = "write"
      BY <1>1, <1>3, <2>1, <2>4 DEF KeyTypes
    <3>4. \A u \in Threads : temp[ProcOf[u]] \in Inodes \cup {None}
      BY <1>1, <1>3 DEF KeyTypes
    <3>5. QED
      BY <1>1, <2>4, <3>2, <3>3, <3>4 DEF Temporaries
  <2>8. Reading'
    BY <1>1, <2>1 DEF Reading, KeyTypes
  <2>9. ValuesAreWhole'
    BY <1>1, <1>5, <2>1, <2>4
       DEF KeyTypes, ValuesAreWhole, K!NameIsWhole, K!GetIsHonest
  <2>10. QED
    BY <2>5, <2>6, <2>7, <2>8, <2>9 DEF KInv
<1>8. ASSUME NEW t \in Threads, K!WriteTemp(t) PROVE KInv'
  <2>1. /\ call[t] = "write" /\ call' = [call EXCEPT ![t] = "rename"]
        /\ content' = [content EXCEPT ![fd[t]] = @ \cup {value[t]}]
        /\ fd' = [fd EXCEPT ![t] = None] /\ value' = [value EXCEPT ![t] = None]
        /\ UNCHANGED <<path, temp, got, raced>>
    BY <1>8 DEF K!WriteTemp
  <2> DEFINE i == temp[ProcOf[t]]
  <2>2. /\ i # None /\ fd[t] = i /\ content[i] = {} /\ value[t] \in Values
    BY <1>1, <2>1 DEF Temporaries
  <2>3. i \in Inodes /\ i # path
    BY <1>1, <1>3, <2>2 DEF KeyTypes, NamesApart
  <2>4. content' = [content EXCEPT ![i] = {value[t]}]
    BY <1>1, <2>1, <2>2, <2>3 DEF KeyTypes
  <2>5. KeyTypes'
    BY <1>1, <2>1, <2>2, <2>3, <2>4 DEF KeyTypes
  <2>6. NamesApart'
    BY <1>1, <2>1 DEF NamesApart
  <2>7. Temporaries'
    <3>1. ASSUME NEW u \in Threads, u # t
          PROVE  /\ temp'[ProcOf[u]] = temp[ProcOf[u]] /\ call'[u] = call[u]
                 /\ fd'[u] = fd[u] /\ value'[u] = value[u]
                 /\ temp[ProcOf[u]] \in Inodes =>
                      content'[temp[ProcOf[u]]] = content[temp[ProcOf[u]]]
      <4>1. temp[ProcOf[u]] # i
        BY <1>1, <1>2, <1>3, <2>2, <3>1 DEF NamesApart
      <4>2. QED
        BY <1>1, <2>1, <2>3, <2>4, <3>1, <4>1 DEF KeyTypes
    <3>2. /\ temp'[ProcOf[t]] = i /\ fd'[t] = None
          /\ content'[i] = {value[t]} /\ call'[t] = "rename"
      BY <1>1, <2>1, <2>3, <2>4 DEF KeyTypes
    <3>3. \A u \in Threads : temp[ProcOf[u]] \in Inodes \cup {None}
      BY <1>1, <1>3 DEF KeyTypes
    <3>4. content'[i] \in K!Whole
      BY <1>6, <2>2, <3>2
    <3> HIDE DEF i
    <3>5. QED
      BY <1>1, <2>2, <3>1, <3>2, <3>3, <3>4 DEF Temporaries
  <2>8. Reading'
    BY <1>1, <2>1 DEF Reading, KeyTypes
  <2>9. ValuesAreWhole'
    BY <1>1, <1>5, <2>1, <2>3, <2>4
       DEF KeyTypes, ValuesAreWhole, K!NameIsWhole, K!GetIsHonest
  <2>10. QED
    BY <2>5, <2>6, <2>7, <2>8, <2>9 DEF KInv
\* The call that ends a kv_put drops its temporary; the others keep theirs.
<1>9. ASSUME NEW t \in Threads, content' = content,
             temp' = [temp EXCEPT ![ProcOf[t]] = None], fd'[t] = None,
             \A u \in Threads \ {t} : value'[u] = value[u] /\ fd'[u] = fd[u],
             call' = [call EXCEPT ![t] = "idle"]
      PROVE  Temporaries'
  <2>1. \A u \in Threads \ {t} :
          temp'[ProcOf[u]] = temp[ProcOf[u]] /\ call'[u] = call[u]
    BY <1>1, <1>2, <1>3, <1>9 DEF KeyTypes
  <2>2. temp'[ProcOf[t]] = None /\ call'[t] = "idle"
    BY <1>1, <1>3, <1>9 DEF KeyTypes
  <2>3. QED
    BY <1>1, <1>9, <2>1, <2>2 DEF Temporaries
<1>10. ASSUME NEW t \in Threads, K!WriteFails(t) PROVE KInv'
  <2>1. /\ call[t] = "write" /\ call' = [call EXCEPT ![t] = "idle"]
        /\ temp' = [temp EXCEPT ![ProcOf[t]] = None]
        /\ fd' = [fd EXCEPT ![t] = None] /\ value' = [value EXCEPT ![t] = None]
        /\ UNCHANGED <<path, content, got, raced>>
    BY <1>10 DEF K!WriteFails
  <2>2. KeyTypes'
    BY <1>1, <2>1 DEF KeyTypes
  <2>3. Temporaries'
    BY <1>1, <1>9, <2>1 DEF KeyTypes
  <2>4. NamesApart'
    BY <1>1, <1>3, <2>1 DEF NamesApart, KeyTypes
  <2>5. Reading' /\ ValuesAreWhole'
    BY <1>1, <1>5, <2>1
       DEF KeyTypes, Reading, ValuesAreWhole, K!NameIsWhole, K!GetIsHonest
  <2>6. QED
    BY <2>2, <2>3, <2>4, <2>5 DEF KInv
<1>11. ASSUME NEW t \in Threads, K!RenameTemp(t) PROVE KInv'
  <2>1. /\ call[t] = "rename" /\ call' = [call EXCEPT ![t] = "idle"]
        /\ temp' = [temp EXCEPT ![ProcOf[t]] = None]
        /\ UNCHANGED <<content, fd, value, got, raced>>
    BY <1>11 DEF K!RenameTemp
  <2>2. /\ path' = temp[ProcOf[t]] /\ temp[ProcOf[t]] # None /\ fd[t] = None
        /\ content[temp[ProcOf[t]]] \in K!Whole
    BY <1>1, <1>11, <2>1 DEF K!RenameTemp, Temporaries
  <2>3. KeyTypes'
    BY <1>1, <1>3, <2>1, <2>2 DEF KeyTypes
  <2>4. Temporaries'
    BY <1>9, <2>1, <2>2
  <2>5. NamesApart'
    BY <1>1, <1>3, <2>1, <2>2 DEF NamesApart, KeyTypes
  <2>6. Reading' /\ ValuesAreWhole'
    BY <1>1, <1>5, <2>1, <2>2
       DEF KeyTypes, Reading, ValuesAreWhole, K!NameIsWhole, K!GetIsHonest
  <2>7. QED
    BY <2>3, <2>4, <2>5, <2>6 DEF KInv
<1>12. ASSUME NEW t \in Threads, K!GetExists(t) PROVE KInv'
  <2>1. /\ call[t] = "idle"
        /\ call' = [call EXCEPT ![t] = IF path = None THEN "idle" ELSE "read"]
        /\ got' = [got EXCEPT ![t] = None]
        /\ raced' = [raced EXCEPT ![t] = FALSE]
        /\ UNCHANGED <<path, temp, content, fd, value>>
    BY <1>12 DEF K!GetExists
  <2>2. KeyTypes' /\ Temporaries' /\ NamesApart'
    BY <1>1, <2>1 DEF KeyTypes, Temporaries, NamesApart
  <2>3. /\ \A u \in Threads \ {t} : raced'[u] = raced[u] /\ got'[u] = got[u]
                                    /\ call'[u] = call[u]
        /\ got'[t] = None
        /\ call'[t] = "read" => path # None
    BY <1>1, <2>1 DEF KeyTypes
  <2>4. Reading'
    BY <1>1, <2>1, <2>3 DEF Reading
  <2>5. ValuesAreWhole'
    BY <1>5, <2>1, <2>3 DEF ValuesAreWhole, K!NameIsWhole, K!GetIsHonest
  <2>6. QED
    BY <2>2, <2>4, <2>5 DEF KInv
<1>13. ASSUME NEW t \in Threads, K!GetRead(t) PROVE KInv'
  <2>1. /\ call[t] = "read" /\ call' = [call EXCEPT ![t] = "idle"]
        /\ got' = [got EXCEPT ![t] = IF path = None THEN {} ELSE content[path]]
        /\ UNCHANGED <<path, temp, content, fd, value, raced>>
    BY <1>13 DEF K!GetRead
  <2>2. KeyTypes' /\ Temporaries' /\ NamesApart' /\ Reading'
    BY <1>1, <2>1 DEF KeyTypes, Temporaries, NamesApart, Reading
  <2>3. path # None \/ raced[t]
    BY <1>1, <2>1 DEF Reading
  <2>4. got'[t] \in K!Whole \cup {None} \/ raced[t]
    BY <1>1, <1>5, <2>1, <2>3 DEF KeyTypes
  <2>5. \A u \in Threads \ {t} : got'[u] = got[u]
    BY <1>1, <2>1 DEF KeyTypes
  <2>6. ValuesAreWhole'
    BY <1>5, <2>1, <2>4, <2>5
       DEF ValuesAreWhole, K!NameIsWhole, K!GetIsHonest
  <2>7. QED
    BY <2>2, <2>6 DEF KInv
<1>14. ASSUME NEW t \in Threads, K!Del(t) PROVE KInv'
  <2>1. /\ path' = None
        /\ raced' = [u \in Threads |-> raced[u] \/ call[u] = "read"]
        /\ UNCHANGED <<temp, content, call, fd, value, got>>
    BY <1>14 DEF K!Del
  <2>2. KeyTypes' /\ Temporaries' /\ NamesApart'
    BY <1>1, <2>1 DEF KeyTypes, Temporaries, NamesApart
  <2>3. \A u \in Threads : raced'[u] <=> raced[u] \/ call[u] = "read"
    BY <2>1
  <2>4. Reading' /\ ValuesAreWhole'
    BY <1>5, <2>1, <2>3
       DEF Reading, ValuesAreWhole, K!NameIsWhole, K!GetIsHonest
  <2>5. QED
    BY <2>2, <2>4 DEF KInv
<1>15. CASE UNCHANGED keyVars
  BY <1>1, <1>15 DEF keyVars, KInv, KeyTypes, Temporaries, NamesApart, Reading,
     ValuesAreWhole, K!NameIsWhole, K!GetIsHonest
<1>16. QED
  BY <1>7, <1>8, <1>10, <1>11, <1>12, <1>13, <1>14, <1>15 DEF K!Next

-----------------------------------------------------------------------------
(* Both halves of a scope                                                  *)

\* Whatever processes of one thread put, get and delete at once, and wherever
\* a write fails: kv_<key> names one complete payload or nothing, and a kv_get
\* that answers with anything else had a kv_del between its two system calls.
THEOREM KeyIsWhole == FilesSpec => []ValuesAreWhole
<1>1. FilesInit => KInv
  BY KeyInit DEF FilesInit
<1>2. KInv /\ [Log \/ Key]_<<half, vars, keyVars>> => KInv'
  BY KeyStep DEF Log, Key
<1>3. KInv => ValuesAreWhole
  BY DEF KInv
<1>4. QED
  BY <1>1, <1>2, <1>3, PTL DEF FilesSpec

\* SerialCursor for the scope as a whole.
THEOREM CursorIsSound == FilesSpec => []CursorStrandsNothing
<1>1. FilesInit => SInv
  BY SerialInit DEF FilesInit
<1>2. SInv /\ [Log \/ Key]_<<half, vars, keyVars>> => SInv'
  BY SerialStep DEF Log, Key
<1>3. SInv => CursorStrandsNothing
  BY DEF SInv, IInv, QuietWhenCleared, Serial, CursorStrandsNothing
<1>4. QED
  BY <1>1, <1>2, <1>3, PTL DEF FilesSpec
=============================================================================
