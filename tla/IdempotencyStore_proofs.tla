----------------------- MODULE IdempotencyStore_proofs -----------------------
(***************************************************************************)
(* Theorems about the idempotency store for any number of callers, heads   *)
(* and polls.  The inductive invariant IInv adds to TypeOK that a call     *)
(* past the lock holds it (Holding), what the call knows while it does     *)
(* (Knows), and where the heads in the store come from (MarkedMeansDone    *)
(* for the page cache, SyncedMeansDone for the disk) and where the last    *)
(* acknowledged one is (CachedUnlessLost in the page cache,                *)
(* AckedSurvivesPowerLoss on the disk).                                    *)
(***************************************************************************)
EXTENDS IdempotencyStore, FiniteSetTheorems, TLAPS

Inside == {"check", "spawn", "arm", "wait", "save", "sync"}

Holding == \A p \in Caller : call[p].pc \in Inside => lock = p

\* A head that is about to be run is not in the store, one that is about to
\* be saved was earned, and one that is about to be synced is in the store.
Knows ==
  \A p \in Caller :
    /\ call[p].pc = "spawn" => record # call[p].head
    /\ call[p].pc = "save" /\ call[p].action # "mark" => call[p].head \in done
    /\ call[p].pc = "sync" => record = call[p].head

SyncedMeansDone == synced # None => synced \in done

\* As long as the power stays a mark is in the store, firm or not.
CachedUnlessLost == acked # None /\ standing # "lost" => record \in {acked} \cup unacked

IInv == /\ TypeOK /\ Holding /\ Knows /\ MarkedMeansDone /\ SyncedMeansDone
        /\ CachedUnlessLost /\ AckedSurvivesPowerLoss

-----------------------------------------------------------------------------

LEMMA IdleType == ASSUME NEW code PROVE Idle(code) \in CallState
  BY StoreAssumption DEF Idle, CallState, Actions, Limits

LEMMA InitInv == Init => IInv
<1> SUFFICES ASSUME Init PROVE IInv
  OBVIOUS
<1>1. TypeOK
  BY IdleType DEF Init, TypeOK, Idle, NoChild
<1>2. Holding /\ Knows
  BY DEF Init, Holding, Knows, Inside, Idle
<1>3. MarkedMeansDone /\ SyncedMeansDone /\ CachedUnlessLost /\ AckedSurvivesPowerLoss
  BY DEF Init, MarkedMeansDone, SyncedMeansDone, CachedUnlessLost, AckedSurvivesPowerLoss
<1>4. QED
  BY <1>1, <1>2, <1>3 DEF IInv

\* A caller that moves on keeps the rest of its locals.
LEMMA GotoType ==
  ASSUME TypeOK, NEW p \in Caller, call[p].pc # "idle", NEW pc \in Inside, Goto(p, pc)
  PROVE  /\ call' \in [Caller -> CallState]
         /\ call'[p].pc = pc /\ call'[p].head = call[p].head
         /\ \A q \in Caller \ {p} : call'[q] = call[q]
<1> DEFINE c == [call[p] EXCEPT !.pc = pc]
<1>1. c \in CallState /\ c.pc = pc /\ c.head = call[p].head
  BY DEF TypeOK, CallState, Inside
<1>2. call' = [call EXCEPT ![p] = c]
  BY DEF Goto, TypeOK
<1> HIDE DEF c
<1>3. QED
  BY <1>1, <1>2 DEF TypeOK

\* An answer leaves the caller idle.
LEMMA AnswerType ==
  ASSUME TypeOK, NEW p \in Caller, NEW code, Answer(p, code)
  PROVE  /\ call' \in [Caller -> CallState] /\ lock' \in Caller \cup {None}
         /\ child' \in [Caller -> [state : {"none", "running", "ended"}, code : {None, 0, Failed}]]
         /\ call'[p].pc = "idle" /\ child'[p].state = "none"
         /\ \A q \in Caller \ {p} : call'[q] = call[q] /\ child'[q] = child[q]
<1>1. Idle(code) \in CallState /\ Idle(code).pc = "idle"
  BY IdleType DEF Idle
<1>2. QED
  BY <1>1 DEF Answer, TypeOK, NoChild

\* Every step keeps the types.
LEMMA TypeStep == TypeOK /\ [Next]_vars => TypeOK'
<1> SUFFICES ASSUME TypeOK, [Next]_vars PROVE TypeOK'
  OBVIOUS
<1> USE DEF In, history, answered, store
<1>a. ASSUME NEW p \in Caller, NEW c \in CallState, call' = [call EXCEPT ![p] = c],
             c.pc # "idle" => c.head \in Head,
             child[p].state # "none" => c.pc \in {"arm", "wait", "save", "sync"},
             UNCHANGED <<record, synced, dir, lock, child, done, acked, standing, unacked>>
      PROVE  TypeOK'
  BY <1>a DEF TypeOK
<1>b. ASSUME NEW p \in Caller, NEW code, Answer(p, code), UNCHANGED <<record, synced, dir, done, acked, standing, unacked>>
      PROVE  TypeOK'
  BY <1>b, AnswerType DEF TypeOK
<1>1. ASSUME NEW p \in Caller, Start(p) PROVE TypeOK'
  <2>1. PICK a \in Actions, h \in Head, l \in Limits : call' = [call EXCEPT ![p] = Working("lock", a, h, l)]
    BY <1>1 DEF Start
  <2>2. Working("lock", a, h, l) \in CallState /\ Working("lock", a, h, l).head \in Head
    BY StoreAssumption DEF CallState, Working
  <2>3. child[p].state = "none"
    BY <1>1 DEF Start, TypeOK
  <2>4. QED
    BY <1>1, <1>a, <2>1, <2>2, <2>3 DEF Start
<1>2. ASSUME NEW p \in Caller, Lock(p) PROVE TypeOK'
  <2> DEFINE c == Working(IF call[p].action = "mark" THEN "save" ELSE "check", call[p].action, call[p].head, 0)
  <2>1. c \in CallState /\ c.head \in Head
    BY <1>2, StoreAssumption DEF Lock, TypeOK, CallState, Limits, Working
  <2>2. call' = [call EXCEPT ![p] = c] /\ child[p].state = "none"
    BY <1>2 DEF Lock, TypeOK
  <2> HIDE DEF c
  <2>3. QED
    BY <1>2, <2>1, <2>2 DEF Lock, TypeOK
<1>3. ASSUME NEW p \in Caller, Poll(p) PROVE TypeOK'
  <2> DEFINE c == [call[p] EXCEPT !.waited = @ + 1]
  <2>1. call[p].limit \in 0 .. MaxPolls /\ call[p].waited + 1 \in 0 .. MaxPolls
    BY <1>3, StoreAssumption DEF Poll, Busy, TypeOK, CallState, Limits
  <2>2. c \in CallState /\ c.pc = call[p].pc /\ c.head = call[p].head
    BY <2>1 DEF TypeOK, CallState
  <2>3. call' = [call EXCEPT ![p] = c]
    BY <1>3 DEF Poll, TypeOK
  <2>4. c.head \in Head /\ child[p].state = "none"
    BY <1>3, <2>2 DEF Poll, Busy, TypeOK
  <2> HIDE DEF c
  <2>5. QED
    BY <1>3, <1>a, <2>2, <2>3, <2>4 DEF Poll
<1>4. ASSUME NEW p \in Caller, TimeOut(p) PROVE TypeOK'
  BY <1>4, <1>b DEF TimeOut
<1>5. ASSUME NEW p \in Caller, Duplicate(p) PROVE TypeOK'
  BY <1>5, <1>b DEF Duplicate
<1>6. ASSUME NEW p \in Caller, IsNew(p) PROVE TypeOK'
  <2>1. CASE call[p].action = "check"
    BY <1>6, <1>b, <2>1 DEF IsNew
  <2>2. CASE call[p].action # "check"
    <3>1. Goto(p, "spawn") /\ UNCHANGED <<lock, child>> /\ call[p].pc = "check"
      BY <1>6, <2>2 DEF IsNew
    <3>2. child[p].state = "none"
      BY <3>1 DEF TypeOK
    <3>3. QED
      BY <1>6, <3>1, <3>2, GotoType DEF IsNew, TypeOK, Inside
  <2>3. QED
    BY <2>1, <2>2
<1>7. ASSUME NEW p \in Caller, Spawn(p) PROVE TypeOK'
  <2>1. call[p].pc # "idle" /\ Goto(p, "arm")
    BY <1>7 DEF Spawn
  <2>2. QED
    BY <1>7, <2>1, GotoType DEF Spawn, TypeOK, Inside
<1>8. ASSUME NEW p \in Caller, Arm(p) PROVE TypeOK'
  <2>1. call[p].pc # "idle" /\ Goto(p, "wait")
    BY <1>8 DEF Arm
  <2>2. QED
    BY <1>8, <2>1, GotoType DEF Arm, TypeOK, Inside
<1>9. ASSUME NEW p \in Caller, Judge(p) PROVE TypeOK'
  <2>1. CASE ~call[p].signalled /\ child[p].code = 0
    <3>1. Goto(p, "save") /\ UNCHANGED <<lock, child>> /\ call[p].pc = "wait" /\ done' = done \cup {call[p].head}
      BY <1>9, <2>1 DEF Judge
    <3>2. QED
      BY <1>9, <3>1, GotoType DEF Judge, TypeOK, Inside
  <2>2. CASE ~(~call[p].signalled /\ child[p].code = 0)
    <3>1. UNCHANGED done /\ (Answer(p, 4) \/ Answer(p, child[p].code))
      <4>1. CASE call[p].signalled
        BY <1>9, <4>1 DEF Judge
      <4>2. CASE ~call[p].signalled
        BY <1>9, <2>2, <4>2 DEF Judge
      <4>3. QED
        BY <4>1, <4>2
    <3>2. QED
      BY <1>9, <1>b, <3>1 DEF Judge
  <2>3. QED
    BY <2>1, <2>2
<1>10. ASSUME NEW p \in Caller, Save(p) PROVE TypeOK'
  <2>1. call[p].pc # "idle" /\ Goto(p, "sync") /\ call[p].head \in Head
    BY <1>10 DEF Save, TypeOK
  <2>2. QED
    BY <1>10, <2>1, GotoType DEF Save, TypeOK, Inside
<1>11. ASSUME NEW p \in Caller, Sync(p) PROVE TypeOK'
  <2>1. call[p].head \in Head /\ Answer(p, 0)
    BY <1>11 DEF Sync, TypeOK
  <2>2. QED
    BY <1>11, <2>1, AnswerType DEF Sync, TypeOK
<1>12. ASSUME NEW p \in Caller, SpawnFails(p) PROVE TypeOK'
  BY <1>12, <1>b DEF SpawnFails
<1>13. ASSUME NEW p \in Caller, SaveFails(p) PROVE TypeOK'
  BY <1>13, <1>b DEF SaveFails
<1>14. ASSUME NEW p \in Caller, ChildEnds(p) PROVE TypeOK'
  BY <1>14 DEF ChildEnds, TypeOK
<1>15. ASSUME NEW p \in Caller, Signal(p) PROVE TypeOK'
  <2> DEFINE c == [call[p] EXCEPT !.signalled = TRUE]
  <2>1. c \in CallState /\ c.pc = call[p].pc /\ c.head = call[p].head
    BY DEF TypeOK, CallState
  <2>2. call' = [call EXCEPT ![p] = c]
    BY <1>15 DEF Signal, TypeOK
  <2> HIDE DEF c
  <2>3. QED
    BY <1>15, <1>a, <2>1, <2>2 DEF Signal, TypeOK
<1>16. ASSUME NEW p \in Caller, Kill(p) PROVE TypeOK'
  BY <1>16, <1>b DEF Kill
<1>17. ASSUME PowerLoss PROVE TypeOK'
  <2>1. Idle(None) \in CallState /\ Idle(None).pc = "idle"
    BY IdleType DEF Idle
  <2>2. QED
    BY <1>17, <2>1 DEF PowerLoss, NoChild, TypeOK
<1>18. ASSUME WriteBack PROVE TypeOK'
  BY <1>18 DEF WriteBack, TypeOK
<1>19. ASSUME UNCHANGED vars PROVE TypeOK'
  BY <1>19 DEF vars, TypeOK
<1>20. QED
  BY <1>1, <1>2, <1>3, <1>4, <1>5, <1>6, <1>7, <1>8, <1>9, <1>10, <1>11, <1>12, <1>13, <1>14, <1>15, <1>16, <1>17, <1>18, <1>19 DEF Next, Step

\* Only the holder gives the lock back, and by then its call has ended.
LEMMA HoldingStep == TypeOK /\ Holding /\ [Next]_vars => Holding'
<1> SUFFICES ASSUME TypeOK, Holding, [Next]_vars PROVE Holding'
  OBVIOUS
<1> USE StoreAssumption DEF TypeOK, Holding, Inside, In, history, answered, store
<1>1. ASSUME NEW p \in Caller, Start(p) PROVE Holding'
  BY <1>1 DEF Start, Working, CallState
<1>2. ASSUME NEW p \in Caller, Lock(p) PROVE Holding'
  BY <1>2 DEF Lock, Working, CallState
<1>3. ASSUME NEW p \in Caller, Poll(p) PROVE Holding'
  BY <1>3 DEF Poll, Busy, CallState
<1>4. ASSUME NEW p \in Caller, TimeOut(p) PROVE Holding'
  BY <1>4 DEF TimeOut, Busy, Answer, Idle, NoChild, CallState
<1>5. ASSUME NEW p \in Caller, Duplicate(p) PROVE Holding'
  BY <1>5 DEF Duplicate, Answer, Idle, NoChild, CallState
<1>6. ASSUME NEW p \in Caller, IsNew(p) PROVE Holding'
  BY <1>6 DEF IsNew, Goto, Answer, Idle, NoChild, CallState
<1>7. ASSUME NEW p \in Caller, Spawn(p) PROVE Holding'
  BY <1>7 DEF Spawn, Goto, CallState
<1>8. ASSUME NEW p \in Caller, Arm(p) PROVE Holding'
  BY <1>8 DEF Arm, Goto, CallState
<1>9. ASSUME NEW p \in Caller, Judge(p) PROVE Holding'
  BY <1>9 DEF Judge, Goto, Answer, Idle, NoChild, CallState
<1>10. ASSUME NEW p \in Caller, Save(p) PROVE Holding'
  BY <1>10 DEF Save, Goto, CallState
<1>11. ASSUME NEW p \in Caller, Sync(p) PROVE Holding'
  BY <1>11 DEF Sync, Answer, Idle, NoChild, CallState
<1>12. ASSUME NEW p \in Caller, SpawnFails(p) PROVE Holding'
  BY <1>12 DEF SpawnFails, Answer, Idle, NoChild, CallState
<1>13. ASSUME NEW p \in Caller, SaveFails(p) PROVE Holding'
  BY <1>13 DEF SaveFails, Answer, Idle, NoChild, CallState
<1>14. ASSUME NEW p \in Caller, ChildEnds(p) PROVE Holding'
  BY <1>14 DEF ChildEnds, CallState
<1>15. ASSUME NEW p \in Caller, Signal(p) PROVE Holding'
  BY <1>15 DEF Signal, CallState
<1>16. ASSUME NEW p \in Caller, Kill(p) PROVE Holding'
  BY <1>16 DEF Kill, Answer, Idle, NoChild, CallState
<1>17. ASSUME PowerLoss PROVE Holding'
  BY <1>17 DEF PowerLoss, Idle, NoChild, CallState
<1>18. ASSUME WriteBack PROVE Holding'
  BY <1>18 DEF WriteBack, CallState
<1>19. ASSUME UNCHANGED vars PROVE Holding'
  BY <1>19 DEF vars, CallState
<1>20. QED
  BY <1>1, <1>2, <1>3, <1>4, <1>5, <1>6, <1>7, <1>8, <1>9, <1>10, <1>11, <1>12, <1>13, <1>14, <1>15, <1>16, <1>17, <1>18, <1>19 DEF Next, Step

\* What a call learned under the lock stays true while it holds it.
LEMMA KnowsStep == TypeOK /\ Holding /\ Knows /\ [Next]_vars => Knows'
<1> SUFFICES ASSUME TypeOK, Holding, Knows, [Next]_vars PROVE Knows'
  OBVIOUS
<1> USE StoreAssumption DEF TypeOK, Holding, Knows, Inside, In, history, answered, store
<1>1. ASSUME NEW p \in Caller, Start(p) PROVE Knows'
  BY <1>1 DEF Start, Working, CallState
<1>2. ASSUME NEW p \in Caller, Lock(p) PROVE Knows'
  BY <1>2 DEF Lock, Working, CallState
<1>3. ASSUME NEW p \in Caller, Poll(p) PROVE Knows'
  BY <1>3 DEF Poll, Busy, CallState
<1>4. ASSUME NEW p \in Caller, TimeOut(p) PROVE Knows'
  BY <1>4 DEF TimeOut, Busy, Answer, Idle, NoChild, CallState
<1>5. ASSUME NEW p \in Caller, Duplicate(p) PROVE Knows'
  BY <1>5 DEF Duplicate, Answer, Idle, NoChild, CallState
<1>6. ASSUME NEW p \in Caller, IsNew(p) PROVE Knows'
  BY <1>6 DEF IsNew, Goto, Answer, Idle, NoChild, CallState
<1>7. ASSUME NEW p \in Caller, Spawn(p) PROVE Knows'
  BY <1>7 DEF Spawn, Goto, CallState
<1>8. ASSUME NEW p \in Caller, Arm(p) PROVE Knows'
  BY <1>8 DEF Arm, Goto, CallState
<1>9. ASSUME NEW p \in Caller, Judge(p) PROVE Knows'
  BY <1>9 DEF Judge, Goto, Answer, Idle, NoChild, CallState
<1>10. ASSUME NEW p \in Caller, Save(p) PROVE Knows'
  BY <1>10 DEF Save, Goto, CallState
<1>11. ASSUME NEW p \in Caller, Sync(p) PROVE Knows'
  BY <1>11 DEF Sync, Answer, Idle, NoChild, CallState
<1>12. ASSUME NEW p \in Caller, SpawnFails(p) PROVE Knows'
  BY <1>12 DEF SpawnFails, Answer, Idle, NoChild, CallState
<1>13. ASSUME NEW p \in Caller, SaveFails(p) PROVE Knows'
  BY <1>13 DEF SaveFails, Answer, Idle, NoChild, CallState
<1>14. ASSUME NEW p \in Caller, ChildEnds(p) PROVE Knows'
  BY <1>14 DEF ChildEnds, CallState
<1>15. ASSUME NEW p \in Caller, Signal(p) PROVE Knows'
  BY <1>15 DEF Signal, CallState
<1>16. ASSUME NEW p \in Caller, Kill(p) PROVE Knows'
  BY <1>16 DEF Kill, Answer, Idle, NoChild, CallState
<1>17. ASSUME PowerLoss PROVE Knows'
  BY <1>17 DEF PowerLoss, Idle, NoChild, CallState
<1>18. ASSUME WriteBack PROVE Knows'
  BY <1>18 DEF WriteBack, CallState
<1>19. ASSUME UNCHANGED vars PROVE Knows'
  BY <1>19 DEF vars, CallState
<1>20. QED
  BY <1>1, <1>2, <1>3, <1>4, <1>5, <1>6, <1>7, <1>8, <1>9, <1>10, <1>11, <1>12, <1>13, <1>14, <1>15, <1>16, <1>17, <1>18, <1>19 DEF Next, Step

\* A head is saved only when it was earned; a power loss puts back one that was.
LEMMA DoneStep == IInv /\ [Next]_vars => (MarkedMeansDone /\ SyncedMeansDone)'
<1> SUFFICES ASSUME IInv, [Next]_vars PROVE (MarkedMeansDone /\ SyncedMeansDone)'
  OBVIOUS
<1> USE StoreAssumption DEF IInv, TypeOK, Knows, MarkedMeansDone, SyncedMeansDone, In, history, answered, store
<1>1. ASSUME NEW p \in Caller, Start(p) PROVE (MarkedMeansDone /\ SyncedMeansDone)'
  BY <1>1 DEF Start, Working, CallState
<1>2. ASSUME NEW p \in Caller, Lock(p) PROVE (MarkedMeansDone /\ SyncedMeansDone)'
  BY <1>2 DEF Lock, Working, CallState
<1>3. ASSUME NEW p \in Caller, Poll(p) PROVE (MarkedMeansDone /\ SyncedMeansDone)'
  BY <1>3 DEF Poll, Busy, CallState
<1>4. ASSUME NEW p \in Caller, TimeOut(p) PROVE (MarkedMeansDone /\ SyncedMeansDone)'
  BY <1>4 DEF TimeOut, Busy, Answer, Idle, NoChild, CallState
<1>5. ASSUME NEW p \in Caller, Duplicate(p) PROVE (MarkedMeansDone /\ SyncedMeansDone)'
  BY <1>5 DEF Duplicate, Answer, Idle, NoChild, CallState
<1>6. ASSUME NEW p \in Caller, IsNew(p) PROVE (MarkedMeansDone /\ SyncedMeansDone)'
  BY <1>6 DEF IsNew, Goto, Answer, Idle, NoChild, CallState
<1>7. ASSUME NEW p \in Caller, Spawn(p) PROVE (MarkedMeansDone /\ SyncedMeansDone)'
  BY <1>7 DEF Spawn, Goto, CallState
<1>8. ASSUME NEW p \in Caller, Arm(p) PROVE (MarkedMeansDone /\ SyncedMeansDone)'
  BY <1>8 DEF Arm, Goto, CallState
<1>9. ASSUME NEW p \in Caller, Judge(p) PROVE (MarkedMeansDone /\ SyncedMeansDone)'
  BY <1>9 DEF Judge, Goto, Answer, Idle, NoChild, CallState
<1>10. ASSUME NEW p \in Caller, Save(p) PROVE (MarkedMeansDone /\ SyncedMeansDone)'
  BY <1>10 DEF Save, Goto, CallState
<1>11. ASSUME NEW p \in Caller, Sync(p) PROVE (MarkedMeansDone /\ SyncedMeansDone)'
  BY <1>11 DEF Sync, Answer, Idle, NoChild, CallState
<1>12. ASSUME NEW p \in Caller, SpawnFails(p) PROVE (MarkedMeansDone /\ SyncedMeansDone)'
  BY <1>12 DEF SpawnFails, Answer, Idle, NoChild, CallState
<1>13. ASSUME NEW p \in Caller, SaveFails(p) PROVE (MarkedMeansDone /\ SyncedMeansDone)'
  BY <1>13 DEF SaveFails, Answer, Idle, NoChild, CallState
<1>14. ASSUME NEW p \in Caller, ChildEnds(p) PROVE (MarkedMeansDone /\ SyncedMeansDone)'
  BY <1>14 DEF ChildEnds, CallState
<1>15. ASSUME NEW p \in Caller, Signal(p) PROVE (MarkedMeansDone /\ SyncedMeansDone)'
  BY <1>15 DEF Signal, CallState
<1>16. ASSUME NEW p \in Caller, Kill(p) PROVE (MarkedMeansDone /\ SyncedMeansDone)'
  BY <1>16 DEF Kill, Answer, Idle, NoChild, CallState
<1>17. ASSUME PowerLoss PROVE (MarkedMeansDone /\ SyncedMeansDone)'
  BY <1>17 DEF PowerLoss, Idle, NoChild, CallState
<1>18. ASSUME WriteBack PROVE (MarkedMeansDone /\ SyncedMeansDone)'
  BY <1>18 DEF WriteBack, CallState
<1>19. ASSUME UNCHANGED vars PROVE (MarkedMeansDone /\ SyncedMeansDone)'
  BY <1>19 DEF vars, CallState
<1>20. QED
  BY <1>1, <1>2, <1>3, <1>4, <1>5, <1>6, <1>7, <1>8, <1>9, <1>10, <1>11, <1>12, <1>13, <1>14, <1>15, <1>16, <1>17, <1>18, <1>19 DEF Next, Step

\* A call acknowledges a firm mark only when it has synced it; later heads are
\* remembered in unacked, and a power loss in standing.
LEMMA AckedStep == IInv /\ [Next]_vars => (CachedUnlessLost /\ AckedSurvivesPowerLoss)'
<1> SUFFICES ASSUME IInv, [Next]_vars PROVE (CachedUnlessLost /\ AckedSurvivesPowerLoss)'
  OBVIOUS
<1> USE StoreAssumption DEF IInv, TypeOK, Knows, CachedUnlessLost, AckedSurvivesPowerLoss, In, history, answered, store
<1>1. ASSUME NEW p \in Caller, Start(p) PROVE (CachedUnlessLost /\ AckedSurvivesPowerLoss)'
  BY <1>1 DEF Start, Working, CallState
<1>2. ASSUME NEW p \in Caller, Lock(p) PROVE (CachedUnlessLost /\ AckedSurvivesPowerLoss)'
  BY <1>2 DEF Lock, Working, CallState
<1>3. ASSUME NEW p \in Caller, Poll(p) PROVE (CachedUnlessLost /\ AckedSurvivesPowerLoss)'
  BY <1>3 DEF Poll, Busy, CallState
<1>4. ASSUME NEW p \in Caller, TimeOut(p) PROVE (CachedUnlessLost /\ AckedSurvivesPowerLoss)'
  BY <1>4 DEF TimeOut, Busy, Answer, Idle, NoChild, CallState
<1>5. ASSUME NEW p \in Caller, Duplicate(p) PROVE (CachedUnlessLost /\ AckedSurvivesPowerLoss)'
  BY <1>5 DEF Duplicate, Answer, Idle, NoChild, CallState
<1>6. ASSUME NEW p \in Caller, IsNew(p) PROVE (CachedUnlessLost /\ AckedSurvivesPowerLoss)'
  BY <1>6 DEF IsNew, Goto, Answer, Idle, NoChild, CallState
<1>7. ASSUME NEW p \in Caller, Spawn(p) PROVE (CachedUnlessLost /\ AckedSurvivesPowerLoss)'
  BY <1>7 DEF Spawn, Goto, CallState
<1>8. ASSUME NEW p \in Caller, Arm(p) PROVE (CachedUnlessLost /\ AckedSurvivesPowerLoss)'
  BY <1>8 DEF Arm, Goto, CallState
<1>9. ASSUME NEW p \in Caller, Judge(p) PROVE (CachedUnlessLost /\ AckedSurvivesPowerLoss)'
  BY <1>9 DEF Judge, Goto, Answer, Idle, NoChild, CallState
<1>10. ASSUME NEW p \in Caller, Save(p) PROVE (CachedUnlessLost /\ AckedSurvivesPowerLoss)'
  BY <1>10 DEF Save, Goto, CallState
<1>11. ASSUME NEW p \in Caller, Sync(p) PROVE (CachedUnlessLost /\ AckedSurvivesPowerLoss)'
  BY <1>11 DEF Sync, Answer, Idle, NoChild, CallState
<1>12. ASSUME NEW p \in Caller, SpawnFails(p) PROVE (CachedUnlessLost /\ AckedSurvivesPowerLoss)'
  BY <1>12 DEF SpawnFails, Answer, Idle, NoChild, CallState
<1>13. ASSUME NEW p \in Caller, SaveFails(p) PROVE (CachedUnlessLost /\ AckedSurvivesPowerLoss)'
  BY <1>13 DEF SaveFails, Answer, Idle, NoChild, CallState
<1>14. ASSUME NEW p \in Caller, ChildEnds(p) PROVE (CachedUnlessLost /\ AckedSurvivesPowerLoss)'
  BY <1>14 DEF ChildEnds, CallState
<1>15. ASSUME NEW p \in Caller, Signal(p) PROVE (CachedUnlessLost /\ AckedSurvivesPowerLoss)'
  BY <1>15 DEF Signal, CallState
<1>16. ASSUME NEW p \in Caller, Kill(p) PROVE (CachedUnlessLost /\ AckedSurvivesPowerLoss)'
  BY <1>16 DEF Kill, Answer, Idle, NoChild, CallState
<1>17. ASSUME PowerLoss PROVE (CachedUnlessLost /\ AckedSurvivesPowerLoss)'
  BY <1>17 DEF PowerLoss, Idle, NoChild, CallState
<1>18. ASSUME WriteBack PROVE (CachedUnlessLost /\ AckedSurvivesPowerLoss)'
  BY <1>18 DEF WriteBack, CallState
<1>19. ASSUME UNCHANGED vars PROVE (CachedUnlessLost /\ AckedSurvivesPowerLoss)'
  BY <1>19 DEF vars, CallState
<1>20. QED
  BY <1>1, <1>2, <1>3, <1>4, <1>5, <1>6, <1>7, <1>8, <1>9, <1>10, <1>11, <1>12, <1>13, <1>14, <1>15, <1>16, <1>17, <1>18, <1>19 DEF Next, Step

LEMMA StepInv == IInv /\ [Next]_vars => IInv'
  BY TypeStep, HoldingStep, KnowsStep, DoneStep, AckedStep DEF IInv

LEMMA Invariance == Spec => []IInv
  BY InitInv, StepInv, PTL DEF Spec

-----------------------------------------------------------------------------

\* The variables keep their types.
THEOREM TypeCorrect == Spec => []TypeOK
<1>1. IInv => TypeOK
  BY DEF IInv
<1>2. QED
  BY <1>1, Invariance, PTL

\* mark_processed is reached only by a run that ended well and uninterrupted,
\* or by hand: the store never names another head.
THEOREM MarkedHeadsAreDone == Spec => []MarkedMeansDone
<1>1. IInv => MarkedMeansDone
  BY DEF IInv
<1>2. QED
  BY <1>1, Invariance, PTL

\* What mark or run-if-new answered for survives every power loss, if it had
\* reached the disk by then.
THEOREM AckedHeadsSurvive == Spec => []AckedSurvivesPowerLoss
<1>1. IInv => AckedSurvivesPowerLoss
  BY DEF IInv
<1>2. QED
  BY <1>1, Invariance, PTL

\* A gatekeeper runs under its caller's lock, so there is one at most.
LEMMA OneGatekeeper == IInv => NoOverlap
<1> SUFFICES ASSUME IInv PROVE NoOverlap
  OBVIOUS
<1> DEFINE R == {p \in Caller : child[p].state = "running"}
<1>1. R \subseteq {lock}
  BY DEF IInv, TypeOK, Holding, Inside
<1>2. IsFiniteSet({lock}) /\ Cardinality({lock}) = 1
  BY FS_Singleton
<1>3. Cardinality(R) <= 1
  BY <1>1, <1>2, FS_Subset
<1>4. QED
  BY <1>3 DEF NoOverlap

\* Gatekeepers that a live run-if-new waits for never overlap, whatever the
\* number of callers, signals, kills and power losses.
THEOREM GatekeepersDoNotOverlap == Spec => []NoOverlap
  BY Invariance, OneGatekeeper, PTL

\* A child appears only in Spawn, and the head that is run then is not the
\* one in the store.
LEMMA SpawnStep ==
  ASSUME IInv, [Next]_vars, NEW q \in Caller, child[q].state = "none", child'[q].state = "running"
  PROVE  call[q].head # acked \/ unacked # {} \/ standing = "lost"
<1> USE StoreAssumption DEF IInv, TypeOK, In, history, answered, store
<1>1. ASSUME NEW p \in Caller, Start(p) PROVE In(q, "spawn")
  BY <1>1 DEF Start, Idle
<1>2. ASSUME NEW p \in Caller, Lock(p) PROVE In(q, "spawn")
  BY <1>2 DEF Lock
<1>3. ASSUME NEW p \in Caller, Poll(p) PROVE In(q, "spawn")
  BY <1>3 DEF Poll, Busy
<1>4. ASSUME NEW p \in Caller, TimeOut(p) PROVE In(q, "spawn")
  BY <1>4 DEF TimeOut, Busy, Answer, Idle, NoChild
<1>5. ASSUME NEW p \in Caller, Duplicate(p) PROVE In(q, "spawn")
  BY <1>5 DEF Duplicate, Answer, Idle, NoChild
<1>6. ASSUME NEW p \in Caller, IsNew(p) PROVE In(q, "spawn")
  BY <1>6 DEF IsNew, Goto, Answer, Idle, NoChild
<1>7. ASSUME NEW p \in Caller, Spawn(p) PROVE In(q, "spawn")
  BY <1>7 DEF Spawn, Goto
<1>8. ASSUME NEW p \in Caller, Arm(p) PROVE In(q, "spawn")
  BY <1>8 DEF Arm, Goto
<1>9. ASSUME NEW p \in Caller, Judge(p) PROVE In(q, "spawn")
  BY <1>9 DEF Judge, Goto, Answer, Idle, NoChild
<1>10. ASSUME NEW p \in Caller, Save(p) PROVE In(q, "spawn")
  BY <1>10 DEF Save, Goto
<1>11. ASSUME NEW p \in Caller, Sync(p) PROVE In(q, "spawn")
  BY <1>11 DEF Sync, Answer, Idle, NoChild
<1>12. ASSUME NEW p \in Caller, SpawnFails(p) PROVE In(q, "spawn")
  BY <1>12 DEF SpawnFails, Answer, Idle, NoChild
<1>13. ASSUME NEW p \in Caller, SaveFails(p) PROVE In(q, "spawn")
  BY <1>13 DEF SaveFails, Answer, Idle, NoChild
<1>14. ASSUME NEW p \in Caller, ChildEnds(p) PROVE In(q, "spawn")
  BY <1>14 DEF ChildEnds
<1>15. ASSUME NEW p \in Caller, Signal(p) PROVE In(q, "spawn")
  BY <1>15 DEF Signal
<1>16. ASSUME NEW p \in Caller, Kill(p) PROVE In(q, "spawn")
  BY <1>16 DEF Kill, Answer, Idle, NoChild
<1>17. ASSUME PowerLoss PROVE In(q, "spawn")
  BY <1>17 DEF PowerLoss, Idle, NoChild
<1>18. ASSUME WriteBack PROVE In(q, "spawn")
  BY <1>18 DEF WriteBack
<1>19. ASSUME UNCHANGED vars PROVE In(q, "spawn")
  BY <1>19 DEF vars
<1>20. In(q, "spawn")
  BY <1>1, <1>2, <1>3, <1>4, <1>5, <1>6, <1>7, <1>8, <1>9, <1>10, <1>11, <1>12, <1>13, <1>14, <1>15, <1>16, <1>17, <1>18, <1>19 DEF Next, Step
<1>21. call[q].head \in Head /\ record # call[q].head
  BY <1>20 DEF Knows, CallState
<1>22. QED
  BY <1>21 DEF CachedUnlessLost

\* Whoever was told that a head is marked: no gatekeeper is started for it
\* before another head is written, unless the mark had not reached the disk and
\* the power was lost.
THEOREM MarkedHeadsAreNotRepeated == Spec => NoRepeat
<1>1. IInv /\ [Next]_vars =>
        [\A p \in Caller : child[p].state = "none" /\ child'[p].state = "running" =>
           call[p].head # acked \/ unacked # {} \/ standing = "lost"]_vars
  BY SpawnStep
<1>2. QED
  BY <1>1, Invariance, PTL DEF Spec, NoRepeat

=============================================================================
