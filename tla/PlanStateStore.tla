--------------------------- MODULE PlanStateStore ---------------------------
(***************************************************************************)
(* scripts/plan_state_store.py: processes that call read_state and         *)
(* cas_advance on the checkpoint file of one plan.  A call opens the       *)
(* sibling lock file, polls flock until it has the lock or its timeout     *)
(* passes, works on the file, and closes the lock.  A process may die at   *)
(* any step; the kernel then drops its lock.                               *)
(*                                                                         *)
(* The temporary file of atomic_write has a fresh name and is renamed onto *)
(* the checkpoint in one step, so only that rename is visible here.        *)
(***************************************************************************)
EXTENDS PlanState

CONSTANTS
  Proc,       \* the processes that call the store
  Request,    \* the cas_advance calls they make
  Read,       \* the read_state call
  NoFile,     \* the checkpoint does not exist
  Malformed   \* the checkpoint is not a well-formed plan_execution_state

VARIABLES
  file,       \* the checkpoint on disk
  exclusive,  \* the processes that hold the lock exclusively
  shared,     \* the processes that hold it shared
  pc,         \* where each process is in its call
  op,         \* the call it is in, or None
  draft,      \* the state it is about to write, or None
  result,     \* what the call will return, or None while undecided
  acked       \* history: the states cas_advance has returned to a caller

vars == <<file, exclusive, shared, pc, op, draft, result, acked>>

Call   == Request \cup {Read}
Step   == {"idle", "acquiring", "locked", "writing", "closing", "returning"}
Stored == ExecutionState \cup {NoFile, Malformed}

Answer(kind, state) == [kind |-> kind, state |-> state]
Results == [kind  : {"stored", "read", "cas_error", "store_error",
                     "lock_timeout", "os_error"},
            state : Stored]

ASSUME StoreAssumption ==
  /\ Request \subseteq CasRequest
  /\ Read \notin CasRequest
  /\ None \notin CasRequest \cup {Read} \cup ExecutionState \cup Results
  /\ NoFile \notin ExecutionState
  /\ Malformed \notin ExecutionState \cup {NoFile}

Init ==
  /\ file = NoFile
  /\ exclusive = {}
  /\ shared = {}
  /\ pc     = [p \in Proc |-> "idle"]
  /\ op     = [p \in Proc |-> None]
  /\ draft  = [p \in Proc |-> None]
  /\ result = [p \in Proc |-> None]
  /\ acked  = {}

-----------------------------------------------------------------------------
(* What cas_advance decides about the file it finds.                       *)

\* The state advanced from: the file's, or a fresh one when there is none.
Current(f, req) ==
  IF f = NoFile THEN InitialState(req.plan, req.head, req.stamped) ELSE f

\* Mutant: the caller's references replace the durable ones.
MergedRefsReplaced(f, req) == req.refs

\* The durable references and the caller's: a union, never a replacement.
MergedRefs(f, req) == Current(f, req).refs \cup req.refs

Overflows(f, req) == Cardinality(MergedRefs(f, req)) > MaxRefs

CasSucceeds(f, req) ==
  /\ f # Malformed
  /\ ~Overflows(f, req)
  /\ Advances(Current(f, req), req, MergedRefs(f, req))

Advanced(f, req) == Advance(Current(f, req), req, MergedRefs(f, req))

\* The exception a refused cas_advance raises.
CasFailure(f, req) ==
  IF f = Malformed \/ Overflows(f, req) THEN "store_error" ELSE "cas_error"

CasAnswer(f, req) ==
  IF CasSucceeds(f, req) THEN Answer("stored", Advanced(f, req))
                         ELSE Answer(CasFailure(f, req), f)

ReadAnswer(f) ==
  IF f = Malformed THEN Answer("store_error", f) ELSE Answer("read", f)

-----------------------------------------------------------------------------
Enter(p, call) ==
  /\ pc[p] = "idle"
  /\ pc' = [pc EXCEPT ![p] = "acquiring"]
  /\ op' = [op EXCEPT ![p] = call]
  /\ UNCHANGED <<file, exclusive, shared, draft, result, acked>>

\* Mutants: a writer is let in beside readers; everybody is let in.
GrantableBesideReaders(p) == exclusive = {}
GrantableAlways(p) == TRUE

\* flock grants LOCK_EX to a process alone, LOCK_SH beside other readers.
Grantable(p) ==
  /\ exclusive = {}
  /\ op[p] # Read => shared = {}

Acquire(p) ==
  /\ pc[p] = "acquiring"
  /\ Grantable(p)
  /\ pc' = [pc EXCEPT ![p] = "locked"]
  /\ IF op[p] = Read
       THEN shared' = shared \cup {p} /\ UNCHANGED exclusive
       ELSE exclusive' = exclusive \cup {p} /\ UNCHANGED shared
  /\ UNCHANGED <<file, op, draft, result, acked>>

\* Mutant: a blocking flock.
TimeOutNever(p) == FALSE

\* The deadline is only looked at after a failed attempt.
TimeOut(p) ==
  /\ pc[p] = "acquiring"
  /\ ~Grantable(p)
  /\ pc'     = [pc EXCEPT ![p] = "returning"]
  /\ result' = [result EXCEPT ![p] = Answer("lock_timeout", NoFile)]
  /\ UNCHANGED <<file, exclusive, shared, op, draft, acked>>

\* read_state reads the text under the shared lock.
ReadFile(p) ==
  /\ pc[p] = "locked"
  /\ op[p] = Read
  /\ pc'     = [pc EXCEPT ![p] = "closing"]
  /\ result' = [result EXCEPT ![p] = ReadAnswer(file)]
  /\ UNCHANGED <<file, exclusive, shared, op, draft, acked>>

\* cas_advance parses the file, merges and advances, all in memory.
Prepare(p) ==
  /\ pc[p] = "locked"
  /\ op[p] # Read
  /\ CasSucceeds(file, op[p])
  /\ pc'    = [pc EXCEPT ![p] = "writing"]
  /\ draft' = [draft EXCEPT ![p] = Advanced(file, op[p])]
  /\ UNCHANGED <<file, exclusive, shared, op, result, acked>>

Reject(p) ==
  /\ pc[p] = "locked"
  /\ op[p] # Read
  /\ ~CasSucceeds(file, op[p])
  /\ pc'     = [pc EXCEPT ![p] = "closing"]
  /\ result' = [result EXCEPT ![p] = CasAnswer(file, op[p])]
  /\ UNCHANGED <<file, exclusive, shared, op, draft, acked>>

\* os.replace at the end of atomic_write_text.
Replace(p) ==
  /\ pc[p] = "writing"
  /\ file'   = draft[p]
  /\ pc'     = [pc EXCEPT ![p] = "closing"]
  /\ draft'  = [draft EXCEPT ![p] = None]
  /\ result' = [result EXCEPT ![p] = Answer("stored", draft[p])]
  /\ UNCHANGED <<exclusive, shared, op, acked>>

\* Mutant: the caller is told of a failure after the rename.
WriteFailsAfterRename(p) ==
  /\ pc[p] = "writing"
  /\ file'   = draft[p]
  /\ pc'     = [pc EXCEPT ![p] = "closing"]
  /\ draft'  = [draft EXCEPT ![p] = None]
  /\ result' = [result EXCEPT ![p] = Answer("os_error", NoFile)]
  /\ UNCHANGED <<exclusive, shared, op, acked>>

\* The temporary file cannot be written or renamed: it is unlinked and the
\* OSError leaves cas_advance, the checkpoint untouched.
WriteFails(p) ==
  /\ pc[p] = "writing"
  /\ pc'     = [pc EXCEPT ![p] = "closing"]
  /\ draft'  = [draft EXCEPT ![p] = None]
  /\ result' = [result EXCEPT ![p] = Answer("os_error", NoFile)]
  /\ UNCHANGED <<file, exclusive, shared, op, acked>>

Close(p) ==
  /\ pc[p] = "closing"
  /\ pc'        = [pc EXCEPT ![p] = "returning"]
  /\ exclusive' = exclusive \ {p}
  /\ shared'    = shared \ {p}
  /\ UNCHANGED <<file, op, draft, result, acked>>

Return(p) ==
  /\ pc[p] = "returning"
  /\ pc'     = [pc EXCEPT ![p] = "idle"]
  /\ op'     = [op EXCEPT ![p] = None]
  /\ result' = [result EXCEPT ![p] = None]
  /\ acked'  = IF result[p].kind = "stored"
                 THEN acked \cup {[by |-> p, state |-> result[p].state]}
                 ELSE acked
  /\ UNCHANGED <<file, exclusive, shared, draft>>

\* SIGKILL, OOM, a closed laptop: the process is gone and so is its lock.
Crash(p) ==
  /\ pc[p] # "idle"
  /\ pc'        = [pc EXCEPT ![p] = "idle"]
  /\ op'        = [op EXCEPT ![p] = None]
  /\ draft'     = [draft EXCEPT ![p] = None]
  /\ result'    = [result EXCEPT ![p] = None]
  /\ exclusive' = exclusive \ {p}
  /\ shared'    = shared \ {p}
  /\ UNCHANGED <<file, acked>>

\* Somebody edits the file by hand, while no writer is at work on it.
HandEdit ==
  /\ exclusive = {}
  /\ file # NoFile
  /\ file' = Malformed
  /\ UNCHANGED <<exclusive, shared, pc, op, draft, result, acked>>

-----------------------------------------------------------------------------
Proceed(p) ==
  \/ Acquire(p)
  \/ TimeOut(p)
  \/ ReadFile(p)
  \/ Prepare(p)
  \/ Reject(p)
  \/ Replace(p)
  \/ WriteFails(p)
  \/ Close(p)
  \/ Return(p)

Next ==
  \/ \E p \in Proc : \/ \E call \in Call : Enter(p, call)
                     \/ Proceed(p)
                     \/ Crash(p)
  \/ HandEdit

Spec == Init /\ [][Next]_vars

\* A process that is in a call runs: no other process can stop it for good,
\* because a lock that cannot be had ends in a timeout.
FairSpec == Spec /\ \A p \in Proc : WF_vars(Proceed(p))

-----------------------------------------------------------------------------
(* Properties.                                                             *)

TypeOK ==
  /\ file \in Stored
  /\ exclusive \subseteq Proc
  /\ shared \subseteq Proc
  /\ pc \in [Proc -> Step]
  /\ op \in [Proc -> Optional(Call)]
  /\ draft \in [Proc -> Optional(ExecutionState)]
  /\ result \in [Proc -> Optional(Results)]
  /\ acked \subseteq [by : Proc, state : ExecutionState]

\* What a later checkpoint keeps of an earlier one: the references, and an
\* entry wherever there was one (a newer entry may have replaced it).
Keeps(later, earlier) ==
  /\ earlier.refs \subseteq later.refs
  /\ \A t \in Task :
       /\ earlier.clarifications[t] # None => later.clarifications[t] # None
       /\ earlier.attempts[t] # None => later.attempts[t] # None
       /\ \A c \in Thread :
            earlier.threads[t][c] # None => later.threads[t][c] # None

\* A writer past its checks writes exactly what the checks decided on: the
\* checkpoint it read is still the one on disk when the new one lands, and no
\* reader or writer shares its lock (check-then-act under one lock).
DraftIsCurrent ==
  \A p \in Proc : pc[p] = "writing" =>
    /\ exclusive = {p} /\ shared = {}
    /\ CasSucceeds(file, op[p])
    /\ draft[p] = Advanced(file, op[p])

\* What cas_advance returned to a caller survives every later call, crash and
\* failed write: until somebody edits the file by hand, the checkpoint is at
\* that generation with that very state, or at a later one that keeps it.
AckedIsDurable ==
  file # Malformed => \A a \in acked :
    /\ file # NoFile
    /\ \/ file = a.state
       \/ file.generation > a.state.generation /\ Keeps(file, a.state)

\* Of all the callers that expect one generation, at most one is told that it
\* advanced the plan, even when callers crash and ask again.
OneWinnerPerGeneration ==
  \A a, b \in acked : a.state.generation = b.state.generation => a = b

\* The checkpoint on disk is one select_task and the next cas_advance can work
\* from: at most one task in progress, which is the current task, and no entry
\* of a wrong type, whatever the callers passed.
CheckpointUsable ==
  file \in ExecutionState =>
    /\ OneActiveAtMost(file.statuses)
    /\ file.current = CurrentTask(file.statuses)
    /\ \A t \in Task : /\ file.attempts[t] # Garbage
                       /\ \A c \in Thread : file.threads[t][c] # Garbage

\* Every write advances the generation by exactly one and drops nothing that
\* was recorded, and a plan's checkpoint never becomes another plan's.
Monotone ==
  [][file' # Malformed =>
       /\ file' # NoFile
       /\ file = NoFile => file'.generation = 1
       /\ file # NoFile => /\ file # Malformed
                           /\ file'.generation = file.generation + 1
                           /\ file'.plan = file.plan
                           /\ Keeps(file', file)]_file

\* A caller that is refused, cannot lock or cannot write has changed nothing,
\* and a caller that dies has changed the checkpoint only if it was past the
\* rename: only the call that will be answered "stored" changes the file.
OnlySuccessWrites ==
  [][file' # Malformed =>
       \E p \in Proc : /\ pc[p] = "writing"
                       /\ result'[p] = Answer("stored", file')]_file

\* The mapping to CasRegister: a read and a refused cas_advance take effect
\* where they look at the file, a successful one at its rename.
RegisterOutcome(f, o) == IF o = Read THEN ReadAnswer(f) ELSE CasAnswer(f, o)

RegisterAfter(f, o) ==
  IF o # Read /\ CasSucceeds(f, o) THEN Advanced(f, o) ELSE f

GaveUp == {Answer("lock_timeout", NoFile), Answer("os_error", NoFile)}

Register ==
  INSTANCE CasRegister WITH
    Op        <- Call,
    Initially <- NoFile,
    Spoilt    <- Malformed,
    Refusals  <- GaveUp,
    Nothing   <- None,
    Outcome   <- RegisterOutcome,
    After     <- RegisterAfter,
    register  <- file,
    call      <- op,
    answer    <- result

\* The store implements a register on which every call takes effect at once,
\* or, when it times out, cannot write or dies early, not at all.
RefinesRegister == Register!Spec

\* Every call returns or its process dies: the lock can make nobody wait for
\* ever, and what a dead process held is free again.
EveryCallReturns ==
  \A p \in Proc : pc[p] # "idle" ~> pc[p] = "idle"

\* What the docstrings of PlanStateCasError and cas_advance say: the error
\* means that the checkpoint is no longer at the generation the caller expects.
CasErrorMeansLostRace ==
  \A p \in Proc :
    /\ result[p] # None
    /\ result[p].kind = "cas_error"
    => LET f == result[p].state
       IN  op[p].expected # (IF f = NoFile THEN 0 ELSE f.generation)

\* What the comment on the second validation in reconcile_plan_execution_state
\* says: no checkpoint is written that its own next validation would refuse.
StoredStateIsValid ==
  file \in ExecutionState => ValidState(file, file.plan, file.head, 0)
=============================================================================
