------------------------------ MODULE PlanState ------------------------------
(***************************************************************************)
(* The plan_execution_state checkpoint of one plan and the pure functions  *)
(* of scripts/implementation_plan.py that create, validate and advance it. *)
(* Nothing here has a state of its own: PlanStateStore runs these          *)
(* operators inside the lock of scripts/plan_state_store.py.               *)
(*                                                                         *)
(* Python's None and a missing mapping key are both the value None.  A     *)
(* plan digest is injective, so a plan stands for its own digest.  The     *)
(* field "stamped" says whether updated_at is a non-empty string, which is *)
(* all the code ever asks of it.                                           *)
(***************************************************************************)
EXTENDS Naturals, FiniteSets

CONSTANTS
  Plan,       \* the versions of the plan in play: same plan_id, own digest
  ReadyPlan,  \* those whose readiness is READY
  Task,       \* the task ids of the plan
  Thread,     \* review comment threads
  Ref,        \* completed-evidence references
  Entry,      \* well-formed records kept per task or per thread
  Revision,   \* SCM head revisions
  Reason,     \* texts a caller may give for a BLOCKED task
  MaxRefs,    \* MAX_COMPLETED_EVIDENCE_REFS
  None,       \* Python's None, and an absent key
  Garbage     \* an entry that is not of the declared type

ASSUME PlanStateAssumption ==
  /\ ReadyPlan \subseteq Plan
  /\ MaxRefs \in Nat
  /\ None \notin Task \cup Entry \cup Revision \cup Reason
  /\ Garbage \notin Entry \cup {None}

-----------------------------------------------------------------------------
TaskStatus == {"PENDING", "IN_PROGRESS", "COMPLETE", "BLOCKED"}

OfficialStatus == {"NOT_STARTED", "BUILDING", "REVIEWING", "VALIDATING",
                   "READY", "COMPLETE", "ESCALATED"}

\* OFFICIAL_TASK_STATUS_MAP: four official statuses collapse to IN_PROGRESS.
TaskStatusOf(official) ==
  CASE official = "NOT_STARTED" -> "PENDING"
    [] official = "COMPLETE"    -> "COMPLETE"
    [] official = "ESCALATED"   -> "BLOCKED"
    [] OTHER                    -> "IN_PROGRESS"

Optional(S) == S \cup {None}
TaskEntry   == Optional(Entry \cup {Garbage})

ExecutionState ==
  [plan           : Plan,
   generation     : Nat,
   current        : Optional(Task),
   statuses       : [Task -> TaskStatus],
   refs           : SUBSET Ref,
   head           : Optional(Revision),
   blocked        : Optional(Reason),
   stamped        : BOOLEAN,
   clarifications : [Task -> TaskEntry],
   threads        : [Task -> [Thread -> TaskEntry]],
   attempts       : [Task -> TaskEntry]]

\* The arguments of one cas_advance call.  The host's official statuses may
\* miss a task, which is then None.
CasRequest ==
  [plan           : Plan,
   expected       : Nat,
   official       : [Task -> Optional(OfficialStatus)],
   head           : Optional(Revision),
   stamped        : BOOLEAN,
   refs           : SUBSET Ref,
   reason         : Optional(Reason),
   clarifications : [Task -> TaskEntry],
   threads        : [Task -> [Thread -> TaskEntry]],
   attempts       : [Task -> TaskEntry]]

-----------------------------------------------------------------------------
Active(statuses) == {t \in Task : statuses[t] = "IN_PROGRESS"}

\* current_task_id: the task in progress.  The code takes the first of
\* several, a state validation then refuses.
CurrentTask(statuses) ==
  IF Active(statuses) = {} THEN None ELSE CHOOSE t \in Active(statuses) : TRUE

InitialState(plan, head, stamped) ==
  [plan           |-> plan,
   generation     |-> 0,
   current        |-> None,
   statuses       |-> [t \in Task |-> "PENDING"],
   refs           |-> {},
   head           |-> head,
   blocked        |-> None,
   stamped        |-> stamped,
   clarifications |-> [t \in Task |-> None],
   threads        |-> [t \in Task |-> [c \in Thread |-> None]],
   attempts       |-> [t \in Task |-> None]]

OneActiveAtMost(statuses) == \A t, u \in Active(statuses) : t = u

\* validate_plan_execution_state, TRUE when it reports no error.  A caller
\* without a head (None) skips the head check.
ValidState(state, plan, head, minimum) ==
  /\ state.plan = plan
  /\ state.generation >= minimum
  /\ head # None => state.head = head
  /\ \A t \in Task : /\ state.attempts[t] # Garbage
                     /\ \A c \in Thread : state.threads[t][c] # Garbage
  /\ OneActiveAtMost(state.statuses)
  /\ state.current = CurrentTask(state.statuses)
  /\ state.stamped

\* {**durable, **incoming}: the incoming entry wins where there is one.
Overlay(durable, incoming) ==
  [k \in DOMAIN durable |->
     IF incoming[k] = None THEN durable[k] ELSE incoming[k]]

\* Mutant: a shallow merge lets a task's incoming threads replace its others.
MergeThreadsShallow(durable, incoming) ==
  [t \in DOMAIN durable |->
     IF \A c \in DOMAIN incoming[t] : incoming[t][c] = None
       THEN durable[t] ELSE incoming[t]]

\* _merge_comment_threads: the same, one level deeper.
MergeThreads(durable, incoming) ==
  [t \in DOMAIN durable |-> Overlay(durable[t], incoming[t])]

\* What reconcile_plan_execution_state makes of the state it was given.
Normalized(state, req, refs, generation, stamped) ==
  LET statuses == [t \in Task |-> TaskStatusOf(req.official[t])]
  IN  [plan           |-> state.plan,
       generation     |-> generation,
       current        |-> CurrentTask(statuses),
       statuses       |-> statuses,
       refs           |-> refs,
       head           |-> req.head,
       blocked        |-> IF \E t \in Task : statuses[t] = "BLOCKED"
                            THEN req.reason ELSE None,
       stamped        |-> stamped,
       clarifications |-> Overlay(state.clarifications, req.clarifications),
       threads        |-> MergeThreads(state.threads, req.threads),
       attempts       |-> Overlay(state.attempts, req.attempts)]

Reconciled(state, req, refs) ==
  Normalized(state, req, refs, state.generation, state.stamped)

\* Mutant: only the state it was given is validated, not the merged one.
ReconcilableUnchecked(state, req, refs) ==
  /\ req.plan \in ReadyPlan
  /\ ValidState(state, req.plan, req.head, req.expected)
  /\ \A t \in Task : req.official[t] \in OfficialStatus

\* reconcile_plan_execution_state succeeds: the plan is READY, the stored
\* state is valid, every task has an official status, and the merged state
\* is valid again.
Reconcilable(state, req, refs) ==
  /\ req.plan \in ReadyPlan
  /\ ValidState(state, req.plan, req.head, req.expected)
  /\ \A t \in Task : req.official[t] \in OfficialStatus
  /\ ValidState(Reconciled(state, req, refs), req.plan, req.head, req.expected)

\* Mutant: the caller's generation is not compared with the stored one.
AdvancesUnguarded(state, req, refs) ==
  Reconcilable(state, [req EXCEPT !.expected = 0], refs)

\* advance_plan_execution_state: the generation guard, then the new state.
Advances(state, req, refs) ==
  /\ state.generation = req.expected
  /\ Reconcilable(state, req, refs)

Advance(state, req, refs) ==
  Normalized(state, req, refs, req.expected + 1, req.stamped)
=============================================================================
