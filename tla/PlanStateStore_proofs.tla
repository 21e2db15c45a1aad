----------------------- MODULE PlanStateStore_proofs -----------------------
(***************************************************************************)
(* Theorems about the checkpoint store for any number of processes, calls, *)
(* tasks, threads and references.  The inductive invariant IInv adds to    *)
(* TypeOK who holds the lock at which step (Phases), that a draft still    *)
(* fits the file (DraftIsCurrent), and what the file keeps of the states   *)
(* already answered or acknowledged (History).                             *)
(***************************************************************************)
EXTENDS PlanStateStore, TLAPS

-----------------------------------------------------------------------------
(* The data: merging keeps types and entries.                              *)

\* Overlaying one mapping on another gives a mapping of the same keys.
LEMMA OverlayType ==
  ASSUME NEW S, NEW durable \in [S -> TaskEntry], NEW incoming \in [S -> TaskEntry]
  PROVE  Overlay(durable, incoming) \in [S -> TaskEntry]
  BY DEF Overlay

\* The thread-aware merge gives threads for the same tasks.
LEMMA MergeThreadsType ==
  ASSUME NEW durable \in [Task -> [Thread -> TaskEntry]],
         NEW incoming \in [Task -> [Thread -> TaskEntry]]
  PROVE  MergeThreads(durable, incoming) \in [Task -> [Thread -> TaskEntry]]
  BY OverlayType DEF MergeThreads

\* The task in progress is a task, or None.
LEMMA CurrentTaskType ==
  ASSUME NEW statuses PROVE CurrentTask(statuses) \in Optional(Task)
  BY DEF CurrentTask, Active, Optional

\* A fresh checkpoint is an execution state.
LEMMA InitialStateType ==
  ASSUME NEW plan \in Plan, NEW head \in Optional(Revision), NEW stamped \in BOOLEAN
  PROVE  InitialState(plan, head, stamped) \in ExecutionState
  BY DEF InitialState, ExecutionState, Optional, TaskEntry, TaskStatus

\* Normalizing an execution state by a call that covers every task with an
\* official status gives an execution state.
LEMMA NormalizedType ==
  ASSUME NEW state \in ExecutionState, NEW req \in CasRequest,
         NEW refs \in SUBSET Ref, NEW generation \in Nat, NEW stamped \in BOOLEAN,
         \A t \in Task : req.official[t] \in OfficialStatus
  PROVE  Normalized(state, req, refs, generation, stamped) \in ExecutionState
<1> DEFINE statuses == [t \in Task |-> TaskStatusOf(req.official[t])]
           blocked  == IF \E t \in Task : statuses[t] = "BLOCKED"
                         THEN req.reason ELSE None
<1>1. statuses \in [Task -> TaskStatus]
  BY DEF TaskStatusOf, TaskStatus
<1>2. CurrentTask(statuses) \in Optional(Task)
  BY CurrentTaskType
<1>3. blocked \in Optional(Reason)
  BY DEF CasRequest, Optional
<1>4. /\ Overlay(state.clarifications, req.clarifications) \in [Task -> TaskEntry]
      /\ Overlay(state.attempts, req.attempts) \in [Task -> TaskEntry]
      /\ MergeThreads(state.threads, req.threads) \in [Task -> [Thread -> TaskEntry]]
  BY OverlayType, MergeThreadsType DEF ExecutionState, CasRequest
<1>5. req.head \in Optional(Revision) /\ state.plan \in Plan
  BY DEF CasRequest, ExecutionState
<1>6. Normalized(state, req, refs, generation, stamped) =
        [plan           |-> state.plan,
         generation     |-> generation,
         current        |-> CurrentTask(statuses),
         statuses       |-> statuses,
         refs           |-> refs,
         head           |-> req.head,
         blocked        |-> blocked,
         stamped        |-> stamped,
         clarifications |-> Overlay(state.clarifications, req.clarifications),
         threads        |-> MergeThreads(state.threads, req.threads),
         attempts       |-> Overlay(state.attempts, req.attempts)]
  BY DEF Normalized
<1> HIDE DEF statuses, blocked
<1>7. QED
  BY <1>1, <1>2, <1>3, <1>4, <1>5, <1>6 DEF ExecutionState

\* Advancing gives an execution state of the same plan, one generation on,
\* that keeps every entry, and every reference if they are passed on.
LEMMA AdvanceProperties ==
  ASSUME NEW state \in ExecutionState, NEW req \in CasRequest,
         NEW refs \in SUBSET Ref, state.refs \subseteq refs,
         \A t \in Task : req.official[t] \in OfficialStatus
  PROVE  LET next == Advance(state, req, refs)
         IN  /\ next \in ExecutionState
             /\ next.generation = req.expected + 1
             /\ next.plan = state.plan
             /\ Keeps(next, state)
<1> DEFINE next == Advance(state, req, refs)
<1>1. next \in ExecutionState
  BY NormalizedType DEF Advance, CasRequest
<1>2. /\ next.generation = req.expected + 1
      /\ next.plan = state.plan
      /\ next.refs = refs
      /\ next.clarifications = Overlay(state.clarifications, req.clarifications)
      /\ next.attempts = Overlay(state.attempts, req.attempts)
      /\ next.threads = MergeThreads(state.threads, req.threads)
  BY DEF Advance, Normalized
<1>3. \A t \in Task :
        /\ state.clarifications[t] # None => next.clarifications[t] # None
        /\ state.attempts[t] # None => next.attempts[t] # None
  BY <1>2 DEF Overlay, ExecutionState
<1>4. \A t \in Task, c \in Thread :
        state.threads[t][c] # None => next.threads[t][c] # None
  BY <1>2 DEF MergeThreads, Overlay, ExecutionState
<1>5. Keeps(next, state)
  BY <1>2, <1>3, <1>4 DEF Keeps
<1>6. QED
  BY <1>1, <1>2, <1>5

\* A later state that keeps a later one keeps the earlier.
LEMMA KeepsTransitive ==
  ASSUME NEW a, NEW b, NEW c, Keeps(a, b), Keeps(b, c)
  PROVE  Keeps(a, c)
  BY DEF Keeps

\* The state a successful cas_advance writes is the successor of the one it
\* found: next generation, same plan, nothing dropped.
LEMMA AdvancedProperties ==
  ASSUME NEW f \in Stored, NEW req \in CasRequest, CasSucceeds(f, req)
  PROVE  /\ f \in ExecutionState \cup {NoFile}
         /\ Advanced(f, req) \in ExecutionState
         /\ f = NoFile => Advanced(f, req).generation = 1
         /\ f # NoFile => /\ Advanced(f, req).generation = f.generation + 1
                          /\ Advanced(f, req).plan = f.plan
                          /\ Keeps(Advanced(f, req), f)
<1>1. f \in ExecutionState \cup {NoFile}
  BY DEF CasSucceeds, Stored
<1>2. Current(f, req) \in ExecutionState
  BY <1>1, InitialStateType DEF Current, CasRequest
<1>3. /\ MergedRefs(f, req) \in SUBSET Ref
      /\ Current(f, req).refs \subseteq MergedRefs(f, req)
  BY <1>2 DEF MergedRefs, ExecutionState, CasRequest
<1>4. /\ \A t \in Task : req.official[t] \in OfficialStatus
      /\ Current(f, req).generation = req.expected
  BY DEF CasSucceeds, Advances, Reconcilable
<1>5. /\ Advanced(f, req) \in ExecutionState
      /\ Advanced(f, req).generation = req.expected + 1
      /\ Advanced(f, req).plan = Current(f, req).plan
      /\ Keeps(Advanced(f, req), Current(f, req))
  BY <1>2, <1>3, <1>4, AdvanceProperties DEF Advanced
<1>6. /\ f = NoFile => Current(f, req).generation = 0
      /\ f # NoFile => Current(f, req) = f
  BY DEF Current, InitialState
<1>7. QED
  BY <1>1, <1>4, <1>5, <1>6

-----------------------------------------------------------------------------
(* The inductive invariant.                                                *)

InCall == {"locked", "writing", "closing"}

\* Which variables of a process are set, and which lock it holds, at each step.
Phases ==
  \A p \in Proc :
    /\ pc[p] = "idle" <=> op[p] = None
    /\ pc[p] \in {"closing", "returning"} <=> result[p] # None
    /\ pc[p] = "writing" <=> draft[p] # None
    /\ p \in exclusive <=> pc[p] \in InCall /\ op[p] # Read
    /\ p \in shared <=> pc[p] \in InCall /\ op[p] = Read
    /\ pc[p] = "writing" => op[p] # Read
    /\ result[p] # None /\ result[p].kind = "stored"
         => result[p].state \in ExecutionState

\* An exclusive holder is alone.
LockExcludes == \A p \in exclusive : exclusive = {p} /\ shared = {}

\* The answers "stored" given so far, whether their callers have them yet.
Won ==
  acked \cup {[by |-> p, state |-> result[p].state] :
                p \in {q \in Proc : result[q] # None /\ result[q].kind = "stored"}}

\* AckedIsDurable and OneWinnerPerGeneration for these.
History ==
  /\ file # Malformed => \A a \in Won :
       /\ file # NoFile
       /\ \/ file = a.state
          \/ file.generation > a.state.generation /\ Keeps(file, a.state)
  /\ \A a, b \in Won : a.state.generation = b.state.generation => a = b

IInv == TypeOK /\ Phases /\ LockExcludes /\ DraftIsCurrent /\ History

-----------------------------------------------------------------------------
(* Preservation, one lemma per conjunct of IInv.                           *)

\* A process past its locking, and not reading, is in a cas_advance call.
LEMMA Writing ==
  ASSUME TypeOK, Phases, NEW p \in Proc, pc[p] # "idle", op[p] # Read
  PROVE  op[p] \in CasRequest
  BY StoreAssumption DEF TypeOK, Phases, Call, Optional

\* Every step keeps every variable in its type.
LEMMA TypeStep ==
  ASSUME TypeOK, Phases, [Next]_vars
  PROVE  TypeOK'
<1> USE DEF TypeOK, Optional, Step
<1>1. ASSUME NEW p \in Proc, NEW call \in Call, Enter(p, call)
      PROVE  TypeOK'
  BY <1>1 DEF Enter
<1>2. ASSUME NEW p \in Proc, Acquire(p)
      PROVE  TypeOK'
  BY <1>2 DEF Acquire
<1>3. ASSUME NEW p \in Proc, TimeOut(p)
      PROVE  TypeOK'
  BY <1>3 DEF TimeOut, Answer, Results, Stored
<1>4. ASSUME NEW p \in Proc, ReadFile(p)
      PROVE  TypeOK'
  BY <1>4 DEF ReadFile, ReadAnswer, Answer, Results
<1>5. ASSUME NEW p \in Proc, Prepare(p)
      PROVE  TypeOK'
  <2>1. op[p] \in CasRequest
    BY <1>5, Writing DEF Prepare
  <2>2. Advanced(file, op[p]) \in ExecutionState
    BY <1>5, <2>1, AdvancedProperties DEF Prepare
  <2>3. QED
    BY <1>5, <2>2 DEF Prepare
<1>6. ASSUME NEW p \in Proc, Reject(p)
      PROVE  TypeOK'
  <2>1. CasAnswer(file, op[p]) \in Results
    BY <1>6 DEF Reject, CasAnswer, CasFailure, Answer, Results, Stored
  <2>2. QED
    BY <1>6, <2>1 DEF Reject
<1>7. ASSUME NEW p \in Proc, Replace(p)
      PROVE  TypeOK'
  <2>1. draft[p] \in ExecutionState
    BY <1>7 DEF Replace, Phases
  <2>2. Answer("stored", draft[p]) \in Results
    BY <2>1 DEF Answer, Results, Stored
  <2>3. QED
    BY <1>7, <2>1, <2>2 DEF Replace, Stored
<1>8. ASSUME NEW p \in Proc, WriteFails(p)
      PROVE  TypeOK'
  BY <1>8 DEF WriteFails, Answer, Results, Stored
<1>9. ASSUME NEW p \in Proc, Close(p)
      PROVE  TypeOK'
  BY <1>9 DEF Close
<1>10. ASSUME NEW p \in Proc, Return(p)
       PROVE  TypeOK'
  <2>1. result[p] # None
    BY <1>10 DEF Return, Phases
  <2>2. result[p].kind = "stored" => result[p].state \in ExecutionState
    BY <2>1 DEF Phases
  <2>3. acked' \subseteq [by : Proc, state : ExecutionState]
    BY <1>10, <2>2 DEF Return
  <2>4. QED
    BY <1>10, <2>3 DEF Return
<1>11. ASSUME NEW p \in Proc, Crash(p)
       PROVE  TypeOK'
  BY <1>11 DEF Crash
<1>12. ASSUME HandEdit
       PROVE  TypeOK'
  BY <1>12 DEF HandEdit, Stored
<1>13. CASE UNCHANGED vars
  BY <1>13 DEF vars
<1>14. QED
  BY <1>1, <1>2, <1>3, <1>4, <1>5, <1>6, <1>7, <1>8, <1>9, <1>10, <1>11, <1>12,
     <1>13
  DEF Next, Proceed

\* Every step keeps each process's variables in step with its pc, and the lock
\* exclusive.
LEMMA PhasesStep ==
  ASSUME TypeOK, Phases, LockExcludes, [Next]_vars
  PROVE  Phases' /\ LockExcludes'
<1> USE StoreAssumption DEF TypeOK, Phases, LockExcludes, InCall
<1>1. ASSUME NEW p \in Proc, NEW call \in Call, Enter(p, call)
      PROVE  Phases' /\ LockExcludes'
  <2>1. call # None
    BY DEF Call
  <2>2. QED
    BY <1>1, <2>1 DEF Enter
<1>2. ASSUME NEW p \in Proc, Acquire(p)
      PROVE  Phases' /\ LockExcludes'
  BY <1>2 DEF Acquire, Grantable
<1>3. ASSUME NEW p \in Proc, TimeOut(p)
      PROVE  Phases' /\ LockExcludes'
  BY <1>3 DEF TimeOut, Answer, Results, Stored
<1>4. ASSUME NEW p \in Proc, ReadFile(p)
      PROVE  Phases' /\ LockExcludes'
  BY <1>4 DEF ReadFile, ReadAnswer, Answer, Results
<1>5. ASSUME NEW p \in Proc, Prepare(p)
      PROVE  Phases' /\ LockExcludes'
  <2>1. op[p] \in CasRequest
    BY <1>5, Writing DEF Prepare
  <2>2. Advanced(file, op[p]) \in ExecutionState
    BY <1>5, <2>1, AdvancedProperties DEF Prepare
  <2>3. QED
    BY <1>5, <2>2 DEF Prepare
<1>6. ASSUME NEW p \in Proc, Reject(p)
      PROVE  Phases' /\ LockExcludes'
  BY <1>6 DEF Reject, CasAnswer, CasFailure, Answer, Results, Stored
<1>7. ASSUME NEW p \in Proc, Replace(p)
      PROVE  Phases' /\ LockExcludes'
  <2>1. draft[p] \in ExecutionState
    BY <1>7 DEF Replace, Optional
  <2>2. /\ Answer("stored", draft[p]) \in Results
        /\ Answer("stored", draft[p]).state = draft[p]
    BY <2>1 DEF Answer, Results, Stored
  <2>3. Answer("stored", draft[p]) # None
    BY <2>2
  <2>4. QED
    BY <1>7, <2>1, <2>2, <2>3 DEF Replace
<1>8. ASSUME NEW p \in Proc, WriteFails(p)
      PROVE  Phases' /\ LockExcludes'
  BY <1>8 DEF WriteFails, Answer, Results, Stored
<1>9. ASSUME NEW p \in Proc, Close(p)
      PROVE  Phases' /\ LockExcludes'
  BY <1>9 DEF Close
<1>10. ASSUME NEW p \in Proc, Return(p)
      PROVE  Phases' /\ LockExcludes'
  BY <1>10 DEF Return
<1>11. ASSUME NEW p \in Proc, Crash(p)
      PROVE  Phases' /\ LockExcludes'
  BY <1>11 DEF Crash
<1>12. ASSUME HandEdit
       PROVE  Phases' /\ LockExcludes'
  BY <1>12 DEF HandEdit
<1>13. CASE UNCHANGED vars
  BY <1>13 DEF vars
<1>14. QED
  BY <1>1, <1>2, <1>3, <1>4, <1>5, <1>6, <1>7, <1>8, <1>9, <1>10, <1>11, <1>12, <1>13
  DEF Next, Proceed

\* Every step leaves the draft of a writer the successor of the file: nobody
\* else can touch the file or the lock while a writer holds it.
LEMMA DraftStep ==
  ASSUME TypeOK, Phases, LockExcludes, DraftIsCurrent, [Next]_vars
  PROVE  DraftIsCurrent'
<1> SUFFICES ASSUME NEW w \in Proc, pc'[w] = "writing"
             PROVE  /\ exclusive' = {w} /\ shared' = {}
                    /\ CasSucceeds(file', op'[w])
                    /\ draft'[w] = Advanced(file', op'[w])
  BY DEF DraftIsCurrent
<1> USE DEF TypeOK, Phases, InCall
<1>1. ASSUME NEW p \in Proc, NEW call \in Call, Enter(p, call)
      PROVE  /\ exclusive' = {w} /\ shared' = {}
             /\ CasSucceeds(file', op'[w])
             /\ draft'[w] = Advanced(file', op'[w])
  BY <1>1 DEF Enter, DraftIsCurrent
<1>2. ASSUME NEW p \in Proc, Acquire(p)
      PROVE  /\ exclusive' = {w} /\ shared' = {}
             /\ CasSucceeds(file', op'[w])
             /\ draft'[w] = Advanced(file', op'[w])
  BY <1>2 DEF Acquire, Grantable, DraftIsCurrent
<1>3. ASSUME NEW p \in Proc, TimeOut(p)
      PROVE  /\ exclusive' = {w} /\ shared' = {}
             /\ CasSucceeds(file', op'[w])
             /\ draft'[w] = Advanced(file', op'[w])
  BY <1>3 DEF TimeOut, DraftIsCurrent
<1>4. ASSUME NEW p \in Proc, ReadFile(p)
      PROVE  /\ exclusive' = {w} /\ shared' = {}
             /\ CasSucceeds(file', op'[w])
             /\ draft'[w] = Advanced(file', op'[w])
  BY <1>4 DEF ReadFile, DraftIsCurrent
<1>5. ASSUME NEW p \in Proc, Prepare(p)
      PROVE  /\ exclusive' = {w} /\ shared' = {}
             /\ CasSucceeds(file', op'[w])
             /\ draft'[w] = Advanced(file', op'[w])
  BY <1>5 DEF Prepare, LockExcludes, DraftIsCurrent
<1>6. ASSUME NEW p \in Proc, Reject(p)
      PROVE  /\ exclusive' = {w} /\ shared' = {}
             /\ CasSucceeds(file', op'[w])
             /\ draft'[w] = Advanced(file', op'[w])
  BY <1>6 DEF Reject, DraftIsCurrent
<1>7. ASSUME NEW p \in Proc, Replace(p)
      PROVE  /\ exclusive' = {w} /\ shared' = {}
             /\ CasSucceeds(file', op'[w])
             /\ draft'[w] = Advanced(file', op'[w])
  BY <1>7 DEF Replace, DraftIsCurrent
<1>8. ASSUME NEW p \in Proc, WriteFails(p)
      PROVE  /\ exclusive' = {w} /\ shared' = {}
             /\ CasSucceeds(file', op'[w])
             /\ draft'[w] = Advanced(file', op'[w])
  BY <1>8 DEF WriteFails, DraftIsCurrent
<1>9. ASSUME NEW p \in Proc, Close(p)
      PROVE  /\ exclusive' = {w} /\ shared' = {}
             /\ CasSucceeds(file', op'[w])
             /\ draft'[w] = Advanced(file', op'[w])
  BY <1>9 DEF Close, DraftIsCurrent
<1>10. ASSUME NEW p \in Proc, Return(p)
      PROVE  /\ exclusive' = {w} /\ shared' = {}
             /\ CasSucceeds(file', op'[w])
             /\ draft'[w] = Advanced(file', op'[w])
  BY <1>10 DEF Return, DraftIsCurrent
<1>11. ASSUME NEW p \in Proc, Crash(p)
      PROVE  /\ exclusive' = {w} /\ shared' = {}
             /\ CasSucceeds(file', op'[w])
             /\ draft'[w] = Advanced(file', op'[w])
  BY <1>11 DEF Crash, DraftIsCurrent
<1>12. ASSUME HandEdit
      PROVE  /\ exclusive' = {w} /\ shared' = {}
             /\ CasSucceeds(file', op'[w])
             /\ draft'[w] = Advanced(file', op'[w])
  BY <1>12 DEF HandEdit, DraftIsCurrent
<1>13. CASE UNCHANGED vars
  BY <1>13 DEF vars, DraftIsCurrent
<1>14. QED
  BY <1>1, <1>2, <1>3, <1>4, <1>5, <1>6, <1>7, <1>8, <1>9, <1>10, <1>11, <1>12, <1>13
  DEF Next, Proceed

\* A step that leaves the file alone and answers "stored" to nobody new keeps
\* the history.
LEMMA HistoryKept ==
  ASSUME History, Won' \subseteq Won, file' = file
  PROVE  History'
  BY DEF History

\* Every step keeps what was answered "stored" on disk, one winner each.
LEMMA HistoryStep ==
  ASSUME TypeOK, Phases, LockExcludes, DraftIsCurrent, History, [Next]_vars
  PROVE  History'
<1> USE DEF TypeOK
<1>1. ASSUME NEW p \in Proc, NEW call \in Call, Enter(p, call)
      PROVE  History'
  BY <1>1, HistoryKept DEF Enter, Won
<1>2. ASSUME NEW p \in Proc, Acquire(p)
      PROVE  History'
  BY <1>2, HistoryKept DEF Acquire, Won
<1>3. ASSUME NEW p \in Proc, TimeOut(p)
      PROVE  History'
  BY <1>3, HistoryKept DEF TimeOut, Won, Answer
<1>4. ASSUME NEW p \in Proc, ReadFile(p)
      PROVE  History'
  <2>1. ReadAnswer(file).kind # "stored"
    BY DEF ReadAnswer, Answer
  <2>2. Won' \subseteq Won
    BY <1>4, <2>1 DEF ReadFile, Won
  <2>3. QED
    BY <1>4, <2>2, HistoryKept DEF ReadFile
<1>5. ASSUME NEW p \in Proc, Prepare(p)
      PROVE  History'
  BY <1>5, HistoryKept DEF Prepare, Won
<1>6. ASSUME NEW p \in Proc, Reject(p)
      PROVE  History'
  <2>1. CasAnswer(file, op[p]).kind # "stored"
    BY <1>6 DEF Reject, CasAnswer, CasFailure, Answer
  <2>2. Won' \subseteq Won
    BY <1>6, <2>1 DEF Reject, Won
  <2>3. QED
    BY <1>6, <2>2, HistoryKept DEF Reject
<1>7. ASSUME NEW p \in Proc, Replace(p)
      PROVE  History'
  <2> DEFINE new == [by |-> p, state |-> draft[p]]
  <2>1. /\ CasSucceeds(file, op[p])
        /\ draft[p] = Advanced(file, op[p])
        /\ op[p] \in CasRequest
    BY <1>7, Writing DEF Replace, DraftIsCurrent, Phases
  <2>2. /\ file \in ExecutionState \cup {NoFile}
        /\ draft[p] \in ExecutionState
        /\ file # NoFile => /\ draft[p].generation = file.generation + 1
                            /\ Keeps(draft[p], file)
    BY <2>1, AdvancedProperties
  <2>3. Won' \subseteq Won \cup {new}
    BY <1>7 DEF Replace, Won, Answer
  <2>4. file # Malformed
    BY <2>1 DEF CasSucceeds
  <2>5. ASSUME NEW a \in Won
        PROVE  /\ draft[p].generation > a.state.generation
               /\ Keeps(draft[p], a.state)
    <3>1. /\ file # NoFile
          /\ \/ file = a.state
             \/ file.generation > a.state.generation /\ Keeps(file, a.state)
      BY <2>4, <2>5 DEF History
    <3>2. file.generation \in Nat /\ a.state.generation \in Nat
      BY <2>2, <2>5, <3>1 DEF Won, ExecutionState, Phases
    <3>3. Keeps(draft[p], a.state)
      BY <2>2, <3>1, KeepsTransitive
    <3>4. QED
      BY <2>2, <3>1, <3>2, <3>3
  <2>6. file' = draft[p] /\ draft[p] # NoFile
    BY <1>7, <2>2, StoreAssumption DEF Replace
  <2>7. \A a \in Won' : /\ file' # NoFile
                        /\ \/ file' = a.state
                           \/ /\ file'.generation > a.state.generation
                              /\ Keeps(file', a.state)
    BY <2>3, <2>5, <2>6
  <2>8. \A a, b \in Won' : a.state.generation = b.state.generation => a = b
    <3> SUFFICES ASSUME NEW a \in Won \cup {new}, NEW b \in Won \cup {new},
                        a.state.generation = b.state.generation
                 PROVE  a = b
      BY <2>3
    <3>1. \A c \in Won : c.state.generation # draft[p].generation
      <4>1. draft[p].generation \in Nat
        BY <2>2 DEF ExecutionState
      <4>2. \A c \in Won : c.state.generation \in Nat
        BY DEF Won, ExecutionState, Phases
      <4>3. QED
        BY <2>5, <4>1, <4>2
    <3>2. QED
      BY <3>1 DEF History
  <2>9. QED
    BY <2>7, <2>8 DEF History
<1>8. ASSUME NEW p \in Proc, WriteFails(p)
      PROVE  History'
  BY <1>8, HistoryKept DEF WriteFails, Won, Answer
<1>9. ASSUME NEW p \in Proc, Close(p)
      PROVE  History'
  BY <1>9, HistoryKept DEF Close, Won
<1>10. ASSUME NEW p \in Proc, Return(p)
       PROVE  History'
  <2>1. result[p] # None
    BY <1>10 DEF Return, Phases
  <2>2. Won' \subseteq Won
    BY <1>10, <2>1 DEF Return, Won
  <2>3. QED
    BY <1>10, <2>2, HistoryKept DEF Return
<1>11. ASSUME NEW p \in Proc, Crash(p)
       PROVE  History'
  BY <1>11, HistoryKept DEF Crash, Won
<1>12. ASSUME HandEdit
       PROVE  History'
  <2>1. Won' = Won
    BY <1>12 DEF HandEdit, Won
  <2>2. QED
    BY <1>12, <2>1 DEF HandEdit, History
<1>13. CASE UNCHANGED vars
  BY <1>13, HistoryKept DEF vars, Won
<1>14. QED
  BY <1>1, <1>2, <1>3, <1>4, <1>5, <1>6, <1>7, <1>8, <1>9, <1>10, <1>11,
     <1>12, <1>13
  DEF Next, Proceed

-----------------------------------------------------------------------------
(* The theorems.                                                           *)

\* IInv holds in every reachable state of the store.
THEOREM Invariance == Spec => []IInv
<1>1. Init => IInv
  <2> SUFFICES ASSUME Init PROVE IInv
    OBVIOUS
  <2>1. TypeOK
    BY DEF Init, TypeOK, Stored, Step, Optional
  <2>2. Phases /\ LockExcludes /\ DraftIsCurrent
    BY DEF Init, Phases, LockExcludes, DraftIsCurrent, InCall
  <2>3. Won = {}
    BY DEF Init, Won
  <2>4. QED
    BY <2>1, <2>2, <2>3 DEF IInv, History
<1>2. IInv /\ [Next]_vars => IInv'
  BY TypeStep, PhasesStep, DraftStep, HistoryStep DEF IInv
<1>3. QED
  BY <1>1, <1>2, PTL DEF Spec

\* Every variable of the store keeps its type, for any callers and calls.
THEOREM TypeCorrect == Spec => []TypeOK
<1>1. IInv => TypeOK
  BY DEF IInv
<1>2. QED
  BY <1>1, Invariance, PTL

\* What a cas_advance writes was decided on the file it replaces.
THEOREM DraftsAreCurrent == Spec => []DraftIsCurrent
<1>1. IInv => DraftIsCurrent
  BY DEF IInv
<1>2. QED
  BY <1>1, Invariance, PTL

\* An acknowledged checkpoint is never lost nor rolled back by the store.
THEOREM AckedStatesAreDurable == Spec => []AckedIsDurable
<1>1. IInv => AckedIsDurable
  BY DEF IInv, History, AckedIsDurable, Won
<1>2. QED
  BY <1>1, Invariance, PTL

\* Compare-and-swap: at most one caller advances the plan from a generation.
THEOREM OneWinner == Spec => []OneWinnerPerGeneration
<1>1. IInv => OneWinnerPerGeneration
  BY DEF IInv, History, OneWinnerPerGeneration, Won
<1>2. QED
  BY <1>1, Invariance, PTL

\* A step that changes the file to something well-formed is the rename of a
\* writer that holds the lock and whose draft succeeds the file.
LEMMA FileChange ==
  ASSUME IInv, [Next]_vars, file' # file, file' # Malformed
  PROVE  \E p \in Proc : /\ Replace(p)
                         /\ op[p] \in CasRequest
                         /\ CasSucceeds(file, op[p])
                         /\ file' = Advanced(file, op[p])
<1>1. ~HandEdit /\ ~UNCHANGED vars
  BY DEF HandEdit, vars
<1>2. PICK p \in Proc : Replace(p)
  BY <1>1 DEF Next, Proceed, Enter, Acquire, TimeOut, ReadFile, Prepare, Reject,
     WriteFails, Close, Return, Crash
<1>3. /\ CasSucceeds(file, op[p])
      /\ file' = Advanced(file, op[p])
      /\ op[p] \in CasRequest
  BY <1>2, Writing DEF Replace, DraftIsCurrent, Phases, IInv
<1>4. QED
  BY <1>2, <1>3

\* The generation grows by one with every write, nothing recorded is dropped,
\* and what somebody damaged is never overwritten.
THEOREM Monotonicity == Spec => Monotone
<1>1. ASSUME IInv, [Next]_vars, file' # file, file' # Malformed
      PROVE  /\ file' # NoFile
             /\ file = NoFile => file'.generation = 1
             /\ file # NoFile => /\ file # Malformed
                                 /\ file'.generation = file.generation + 1
                                 /\ file'.plan = file.plan
                                 /\ Keeps(file', file)
  <2>1. PICK p \in Proc : /\ op[p] \in CasRequest
                         /\ CasSucceeds(file, op[p])
                         /\ file' = Advanced(file, op[p])
    BY <1>1, FileChange
  <2>2. file \in Stored
    BY <1>1 DEF IInv, TypeOK
  <2>3. /\ Advanced(file, op[p]) \in ExecutionState
        /\ file = NoFile => Advanced(file, op[p]).generation = 1
        /\ file # NoFile => /\ Advanced(file, op[p]).generation = file.generation + 1
                            /\ Advanced(file, op[p]).plan = file.plan
                            /\ Keeps(Advanced(file, op[p]), file)
    BY <2>1, <2>2, AdvancedProperties
  <2>4. file # Malformed
    BY <2>1 DEF CasSucceeds
  <2>5. QED
    BY <2>1, <2>3, <2>4, StoreAssumption
<1>2. IInv /\ [Next]_vars =>
        [file' # Malformed =>
           /\ file' # NoFile
           /\ file = NoFile => file'.generation = 1
           /\ file # NoFile => /\ file # Malformed
                               /\ file'.generation = file.generation + 1
                               /\ file'.plan = file.plan
                               /\ Keeps(file', file)]_file
  BY <1>1
<1>3. QED
  BY <1>2, Invariance, PTL DEF Spec, Monotone

\* Only the call that is answered "stored" changes the file.
THEOREM OnlySuccessWritesTheFile == Spec => OnlySuccessWrites
<1>1. ASSUME IInv, [Next]_vars, file' # file, file' # Malformed
      PROVE  \E p \in Proc : /\ pc[p] = "writing"
                             /\ result'[p] = Answer("stored", file')
  <2>1. PICK p \in Proc : Replace(p)
    BY <1>1, FileChange
  <2>2. result'[p] = Answer("stored", file')
    BY <1>1, <2>1 DEF Replace, IInv, TypeOK
  <2>3. QED
    BY <2>1, <2>2 DEF Replace
<1>2. IInv /\ [Next]_vars =>
        [file' # Malformed =>
           \E p \in Proc : /\ pc[p] = "writing"
                           /\ result'[p] = Answer("stored", file')]_file
  BY <1>1
<1>3. QED
  BY <1>2, Invariance, PTL DEF Spec, OnlySuccessWrites

\* What cas_advance writes passed its own validation: the merged state it
\* checked has the statuses, attempts and threads of the one it writes.
LEMMA AdvancedUsable ==
  ASSUME NEW f, NEW req, CasSucceeds(f, req)
  PROVE  /\ OneActiveAtMost(Advanced(f, req).statuses)
         /\ Advanced(f, req).current = CurrentTask(Advanced(f, req).statuses)
         /\ \A t \in Task : /\ Advanced(f, req).attempts[t] # Garbage
                            /\ \A c \in Thread :
                                 Advanced(f, req).threads[t][c] # Garbage
<1> DEFINE refs    == MergedRefs(f, req)
           checked == Reconciled(Current(f, req), req, refs)
<1>1. ValidState(checked, req.plan, req.head, req.expected)
  BY DEF CasSucceeds, Advances, Reconcilable
<1>2. /\ Advanced(f, req).statuses = checked.statuses
      /\ Advanced(f, req).attempts = checked.attempts
      /\ Advanced(f, req).threads = checked.threads
      /\ Advanced(f, req).current = checked.current
  BY DEF Advanced, Advance, Reconciled, Normalized
<1> HIDE DEF checked
<1>3. QED
  BY <1>1, <1>2 DEF ValidState

\* The checkpoint on disk can always be worked from, whatever callers pass.
THEOREM UsableCheckpoints == Spec => []CheckpointUsable
<1>1. Init => CheckpointUsable
  BY StoreAssumption DEF Init, CheckpointUsable
<1>2. ASSUME IInv, CheckpointUsable, [Next]_vars
      PROVE  CheckpointUsable'
  <2>1. CASE file' = file
    BY <1>2, <2>1 DEF CheckpointUsable
  <2>2. CASE file' = Malformed
    BY <2>2, StoreAssumption DEF CheckpointUsable
  <2>3. CASE file' # file /\ file' # Malformed
    <3>1. PICK p \in Proc : /\ CasSucceeds(file, op[p])
                            /\ file' = Advanced(file, op[p])
      BY <1>2, <2>3, FileChange
    <3>2. QED
      BY <3>1, AdvancedUsable DEF CheckpointUsable
  <2>4. QED
    BY <2>1, <2>2, <2>3
<1>3. QED
  BY <1>1, <1>2, Invariance, PTL DEF Spec

\* Each step of the store is a step of the register or leaves it alone.
LEMMA RegisterStep ==
  ASSUME IInv, [Next]_vars
  PROVE  [Register!Next]_(Register!vars)
<1> USE DEF IInv, TypeOK, Phases
<1>1. ASSUME NEW p \in Proc, NEW call \in Call, Enter(p, call)
      PROVE  Register!Invoke(p, call)
  BY <1>1 DEF Enter, Register!Invoke
<1>2. ASSUME NEW p \in Proc, Acquire(p)
      PROVE  UNCHANGED Register!vars
  BY <1>2 DEF Acquire, Register!vars
<1>3. ASSUME NEW p \in Proc, TimeOut(p)
      PROVE  Register!Refuse(p)
  BY <1>3 DEF TimeOut, GaveUp, Register!Refuse, Register!Undecided
<1>4. ASSUME NEW p \in Proc, ReadFile(p)
      PROVE  Register!TakeEffect(p)
  BY <1>4 DEF ReadFile, RegisterOutcome, RegisterAfter,
     Register!TakeEffect, Register!Undecided
<1>5. ASSUME NEW p \in Proc, Prepare(p)
      PROVE  UNCHANGED Register!vars
  BY <1>5 DEF Prepare, Register!vars
<1>6. ASSUME NEW p \in Proc, Reject(p)
      PROVE  Register!TakeEffect(p)
  BY <1>6 DEF Reject, RegisterOutcome, RegisterAfter,
     Register!TakeEffect, Register!Undecided
<1>7. ASSUME NEW p \in Proc, Replace(p)
      PROVE  Register!TakeEffect(p)
  <2>1. /\ CasSucceeds(file, op[p])
        /\ draft[p] = Advanced(file, op[p])
        /\ op[p] # Read
    BY <1>7 DEF Replace, DraftIsCurrent
  <2>2. /\ RegisterOutcome(file, op[p]) = Answer("stored", draft[p])
        /\ RegisterAfter(file, op[p]) = draft[p]
    BY <2>1 DEF RegisterOutcome, RegisterAfter, CasAnswer
  <2>3. QED
    BY <1>7, <2>2 DEF Replace, Register!TakeEffect, Register!Undecided
<1>8. ASSUME NEW p \in Proc, WriteFails(p)
      PROVE  Register!Refuse(p)
  BY <1>8 DEF WriteFails, GaveUp, Register!Refuse, Register!Undecided
<1>9. ASSUME NEW p \in Proc, Close(p)
      PROVE  UNCHANGED Register!vars
  BY <1>9 DEF Close, Register!vars
<1>10. ASSUME NEW p \in Proc, Return(p)
       PROVE  Register!Return(p)
  BY <1>10 DEF Return, Register!Return
<1>11. ASSUME NEW p \in Proc, Crash(p)
       PROVE  Register!Die(p)
  BY <1>11 DEF Crash, Register!Die
<1>12. ASSUME HandEdit
       PROVE  Register!Spoil
  BY <1>12 DEF HandEdit, Register!Spoil
<1>13. CASE UNCHANGED vars
  BY <1>13 DEF vars, Register!vars
<1>14. QED
  BY <1>1, <1>2, <1>3, <1>4, <1>5, <1>6, <1>7, <1>8, <1>9, <1>10, <1>11,
     <1>12, <1>13
  DEF Next, Proceed, Register!Next

\* The store implements the register: every call takes effect at one step
\* between its invocation and its return, or not at all.
THEOREM Refinement == Spec => RefinesRegister
<1>1. Init => Register!Init
  BY DEF Init, Register!Init
<1>2. QED
  BY <1>1, RegisterStep, Invariance, PTL
  DEF Spec, RefinesRegister, Register!Spec
=============================================================================
