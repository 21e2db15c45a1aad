----------------------------- MODULE PlanSelection -----------------------------
(***************************************************************************)
(* scripts/implementation_plan.py: the structure of an implementation plan *)
(* (its tasks, their dependencies and the execution waves), what makes it  *)
(* valid, and how the next task is selected from it.  Nothing here has a   *)
(* state of its own.                                                       *)
(*                                                                         *)
(* A plan is a record: ready says whether its readiness is READY, deps     *)
(* gives the dependencies of every task (perhaps one that is no task), and *)
(* waves is a sequence of sequences of task ids.                           *)
(***************************************************************************)
EXTENDS Naturals, Sequences, FiniteSets

CONSTANTS
  PlanTask,  \* the task ids of the plan
  Ghost,     \* an id that no task has
  NoTask     \* Python's None where a task is expected

ASSUME SelectionAssumption == Ghost \notin PlanTask /\ NoTask \notin PlanTask /\ NoTask # Ghost

Status == {"PENDING", "IN_PROGRESS", "COMPLETE", "BLOCKED"}
Id     == PlanTask \cup {Ghost}
Plan   == [ready : BOOLEAN, deps : [PlanTask -> SUBSET Id], waves : Seq(Seq(Id))]

-----------------------------------------------------------------------------
(* validate_implementation_plan, as far as the structure goes.             *)

WaveIds(p)    == {x \in (1 .. Len(p.waves)) \X (1 .. Cardinality(Id) + 1) : x[2] <= Len(p.waves[x[1]])}
Places(p, t)  == {x \in WaveIds(p) : p.waves[x[1]][x[2]] = t}
WaveOf(p, t)  == (CHOOSE x \in Places(p, t) : TRUE)[1]

KnownDeps(p)  == \A t \in PlanTask : p.deps[t] \subseteq PlanTask \ {t}
EachInOneWave(p) ==
  /\ Places(p, Ghost) = {}
  /\ \A t \in PlanTask : Cardinality(Places(p, t)) = 1
EarlierWaves(p) ==
  \A t \in PlanTask : \A d \in p.deps[t] \cap PlanTask :
    Places(p, t) # {} /\ Places(p, d) # {} => WaveOf(p, d) < WaveOf(p, t)

\* A graph has a cycle if some of its nodes all have a successor among them.
Cyclic(deps) == \E S \in (SUBSET PlanTask) \ {{}} : \A t \in S : deps[t] \cap S # {}

Valid(p) ==
  /\ KnownDeps(p)
  /\ ~Cyclic([t \in PlanTask |-> p.deps[t] \cap PlanTask])
  /\ EachInOneWave(p) /\ EarlierWaves(p)

-----------------------------------------------------------------------------
(* select_next_task.                                                       *)

Eligible(p, statuses, t) ==
  /\ t \in PlanTask /\ statuses[t] = "PENDING"
  /\ \A d \in p.deps[t] : d \in PlanTask /\ statuses[d] = "COMPLETE"

FirstEligible(p, statuses, wave) ==
  LET S == {i \in DOMAIN wave : Eligible(p, statuses, wave[i])}
  IN  IF S = {} THEN NoTask ELSE wave[CHOOSE i \in S : \A j \in S : i <= j]

\* The wave in which the search ends: it has an eligible task, or a blocked
\* one (which ends it without a result).
Stops(p, statuses, w) ==
  \/ FirstEligible(p, statuses, p.waves[w]) # NoTask
  \/ \E i \in DOMAIN p.waves[w] : p.waves[w][i] \in PlanTask /\ statuses[p.waves[w][i]] = "BLOCKED"

SelectNext(p, statuses) ==
  LET S == {w \in DOMAIN p.waves : Stops(p, statuses, w)}
  IN  IF \/ \E t \in PlanTask : statuses[t] = "IN_PROGRESS"
         \/ S = {}
         \/ ~p.ready \/ ~Valid(p)
      THEN NoTask
      ELSE FirstEligible(p, statuses, p.waves[CHOOSE w \in S : \A v \in S : w <= v])

\* select_task: a candidate with an active branch or pull request, or whose
\* target paths are gone from the repository, is not handed out.
SelectTask(p, statuses, active, stale) ==
  LET t == SelectNext(p, statuses) IN IF t \in active \cup stale THEN NoTask ELSE t

-----------------------------------------------------------------------------
(* What the loop does with a remote branch or a pull request it finds.  The *)
(* execution identity digests the plan, the task with its contract, the     *)
(* repository and the base revision; branches are named after it.           *)

\* prepare_remote_write: the branch of an identity belongs to whoever made it.
MayWrite(owner, actor, nobody) == owner \in {nobody, actor}

\* reconcile_remote_claim, of a pull request of the task that exists: it is
\* adopted if it has the very same identity, and blocks the task otherwise.
Adopts(stored, identity) == stored = identity

\* handle_push_collision: only a fast-forward from the expected head.
PushAllowed(expected, actual) == expected = actual
=============================================================================
