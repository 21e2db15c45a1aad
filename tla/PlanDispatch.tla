----------------------------- MODULE PlanDispatch -----------------------------
(***************************************************************************)
(* Orchestrators that execute one plan (workflow/orchestrator.md, core     *)
(* responsibilities and sections 2, 4 and 5): they share the checkpoint    *)
(* of scripts/plan_state_store.py, the leases of scripts/task_lease.py and *)
(* the repository.  An orchestrator selects a task, claims it in the       *)
(* checkpoint, takes its lease, has a Builder push a branch and open a     *)
(* pull request, and records the task as complete when that is merged.     *)
(*                                                                         *)
(* Sessions on one machine may crash at any step; the next session of the  *)
(* same orchestrator starts from what is shared.  Peers on other machines, *)
(* with checkpoints and leases of their own, share only the repository;    *)
(* they may push under the same account.  The repository's base branch     *)
(* moves, and with it the execution identity of a task and the name of its *)
(* branch.  The checkpoint is the register that PlanStateStore implements: *)
(* a read or a compare-and-swap is one step.                               *)
(***************************************************************************)
EXTENDS PlanSelection

CONSTANTS
  Plans,       \* the plans to execute
  Session,     \* orchestrators of this machine
  Us,          \* the actor they push as
  Peers,       \* the actors of orchestrators on other machines, perhaps Us, too
  Nobody,      \* no holder, no owner
  Ambiguous,   \* tasks whose acceptance criteria need a clarify interview
  MaxPeers,    \* bound: tasks that peers push a branch for
  MaxBase,     \* bound: revisions of the base branch
  MaxCommits,  \* bound: those that others commit
  MaxCrashes,  \* bound: sessions that crash or cannot use the leases
  MaxBumps     \* bound: other writes of the checkpoint (threads, evidence)

ASSUME DispatchAssumption ==
  /\ Nobody \notin Session \cup {Us} \cup Peers
  /\ Ambiguous \subseteq PlanTask
  /\ \A p \in Plans : p \in Plan
  /\ MaxPeers \in Nat /\ MaxBase \in Nat /\ MaxCommits \in Nat /\ MaxCrashes \in Nat /\ MaxBumps \in Nat

VARIABLES
  plan,      \* the plan
  gen,       \* state_generation of the checkpoint
  statuses,  \* its task_statuses
  clarified, \* its clarifications: NONE, RESOLVED or OPEN
  lease,     \* who holds each task's lease
  asking,    \* who holds each task's clarify lease
  base,      \* the base revision
  branch,    \* the branch of each task and base revision: who made it, and its head
  pulls,     \* the pull requests, by number
  taken,     \* the tasks that a peer pushed a branch for
  session,   \* the locals of each orchestrator
  crashes,   \* how many sessions crashed or could not use the leases
  bumps,     \* how many other writes there were
  commits    \* how many other commits

store  == <<gen, statuses, clarified>>
leases == <<lease, asking>>
remote == <<base, branch, pulls, taken>>
bounds == <<crashes, bumps, commits>>
vars   == <<plan, store, leases, remote, session, bounds>>

\* An orchestrator that takes up a task, is between two tasks, or has stopped.
\* base, head and pull are what it last saw of the repository.
Begun(pc, t, g) == [pc |-> pc, task |-> t, gen |-> g, retried |-> FALSE, status |-> "COMPLETE",
                    base |-> 0, head |-> 0, pull |-> 0]
Idle            == Begun("idle", NoTask, 0)
Stopped         == Begun("escalated", NoTask, 0)

Revision == 0 .. MaxBase
NoBranch == [owner |-> Nobody, head |-> 0]

Init ==
  /\ plan \in Plans
  /\ gen = 0
  /\ statuses  = [t \in PlanTask |-> "PENDING"]
  /\ clarified = [t \in PlanTask |-> "NONE"]
  /\ lease  = [t \in PlanTask |-> Nobody]
  /\ asking = [t \in PlanTask |-> Nobody]
  /\ base = 0 /\ branch = [t \in PlanTask |-> [r \in Revision |-> NoBranch]]
  /\ pulls = <<>> /\ taken = {}
  /\ session = [o \in Session |-> Idle]
  /\ crashes = 0 /\ bumps = 0 /\ commits = 0

-----------------------------------------------------------------------------
At(o, pc)     == session[o].pc = pc
Task(o)       == session[o].task
Becomes(o, r) == session' = [session EXCEPT ![o] = r]
Goto(o, pc)   == Becomes(o, [session[o] EXCEPT !.pc = pc])
Leads(o, pc, status) ==
  Becomes(o, [session[o] EXCEPT !.pc = pc, !.status = status, !.base = 0, !.head = 0, !.pull = 0])
Keeps(o, pc)  == Becomes(o, [session[o] EXCEPT !.pc = pc, !.gen = gen, !.retried = FALSE])
Retries(o)    == Becomes(o, [session[o] EXCEPT !.gen = gen, !.retried = TRUE])
Blocked(o)    == Leads(o, "report", "BLOCKED")
Done(o)       == Leads(o, "merged", "COMPLETE")

\* LeaseHandle.release, or the end of the process: the lock is gone with it.
Without(o, leases_) == [t \in PlanTask |-> IF leases_[t] = o THEN Nobody ELSE leases_[t]]
Leave(o, r) == Becomes(o, r) /\ lease' = Without(o, lease) /\ asking' = Without(o, asking)

\* The pull requests of a task, whatever their identity, and whether one is merged.
PullsOf(t) == {i \in DOMAIN pulls : pulls[i].task = t}
Merged(t)  == \E i \in PullsOf(t) : pulls[i].merged

\* What select_task is told of the repository.
Active == {t \in PlanTask : PullsOf(t) # {} \/ \E r \in Revision : branch[t][r] # NoBranch}

\* Item 2: read the checkpoint and select a task.  A task that is not clear
\* enough goes to the clarify interview, unless its answer is recorded.  The
\* authoritative statuses that select_task asks the host for are taken to be
\* those of the checkpoint just read: no program here keeps any others.
Select(o) ==
  /\ At(o, "idle")
  /\ LET t    == SelectTask(plan, statuses, Active, {})
         next == IF t \notin Ambiguous \/ clarified[t] = "RESOLVED" THEN "claim"
                 ELSE IF clarified[t] = "OPEN" THEN "escalated" ELSE "clarify"
     IN  /\ t # NoTask
         /\ Becomes(o, IF next = "escalated" THEN Stopped ELSE Begun(next, t, gen))
  /\ UNCHANGED <<plan, store, leases, remote, bounds>>

\* Mutant: a task that is being worked on is left alone for ever.
ResumePending(o) ==
  /\ At(o, "idle")
  /\ \E t \in PlanTask : statuses[t] = "PENDING" /\ lease[t] # Nobody /\ Becomes(o, Begun("lease", t, 0))
  /\ UNCHANGED <<plan, store, leases, remote, bounds>>

\* The resume rule: a task that is being worked on may be taken over by
\* whoever gets its lease.
Resume(o) ==
  /\ At(o, "idle")
  /\ \E t \in PlanTask : statuses[t] = "IN_PROGRESS" /\ Becomes(o, Begun("lease", t, 0))
  /\ UNCHANGED <<plan, store, leases, remote, bounds>>

-----------------------------------------------------------------------------
(* The clarify sub-step of section 2.                                      *)

\* Steps 2 and 3: the clarify lease, or another task.
TakeClarifyLease(o) ==
  /\ At(o, "clarify")
  /\ IF asking[Task(o)] = Nobody
     THEN asking' = [asking EXCEPT ![Task(o)] = o] /\ Goto(o, "recheck")
     ELSE Becomes(o, Idle) /\ UNCHANGED asking
  /\ UNCHANGED <<plan, store, lease, remote, bounds>>

\* The second read, under the lease.
Recheck(o) ==
  /\ At(o, "recheck")
  /\ IF clarified[Task(o)] = "NONE" THEN Keeps(o, "ask") /\ UNCHANGED leases ELSE Leave(o, Idle)
  /\ UNCHANGED <<plan, store, remote, bounds>>

\* Steps 4 to 6: the interview ends, and its outcome is written.
Current(o) == session[o].gen = gen

Answer(o) ==
  /\ At(o, "ask") /\ Current(o)
  /\ gen' = gen + 1
  /\ \E outcome \in {"RESOLVED", "OPEN"} : clarified' = [clarified EXCEPT ![Task(o)] = outcome]
  /\ Leave(o, Idle)
  /\ UNCHANGED <<plan, statuses, remote, bounds>>

AnswerRefused(o) ==
  /\ At(o, "ask") /\ ~Current(o)
  /\ IF session[o].retried \/ statuses[Task(o)] # "PENDING" THEN Leave(o, Stopped)
     ELSE Retries(o) /\ UNCHANGED leases
  /\ UNCHANGED <<plan, store, remote, bounds>>

-----------------------------------------------------------------------------
(* cas_advance and task_lease.                                             *)

Advance(t, status) == gen' = gen + 1 /\ statuses' = [statuses EXCEPT ![t] = status] /\ UNCHANGED clarified

Claim(o) ==
  /\ At(o, "claim") /\ Current(o)
  /\ Advance(Task(o), "IN_PROGRESS")
  /\ Goto(o, "lease")
  /\ UNCHANGED <<plan, leases, remote, bounds>>

\* Mutant: the claim is repeated without looking at the task again.
ClaimRefusedBlind(o) ==
  /\ At(o, "claim") /\ ~Current(o)
  /\ IF session[o].retried THEN Becomes(o, Stopped) ELSE Retries(o)
  /\ UNCHANGED <<plan, store, leases, remote, bounds>>

\* PlanStateCasError: read again; retry the same claim once if the task is
\* still pending, leave it to the peer otherwise, and escalate the second time.
ClaimRefused(o) ==
  /\ At(o, "claim") /\ ~Current(o)
  /\ CASE statuses[Task(o)] # "PENDING" -> Becomes(o, Idle)
       [] statuses[Task(o)] = "PENDING" /\ session[o].retried -> Becomes(o, Stopped)
       [] OTHER -> Retries(o)
  /\ UNCHANGED <<plan, store, leases, remote, bounds>>

\* Mutant: a lease is taken whoever holds it.
TryAcquireAlways(o) ==
  /\ At(o, "lease")
  /\ lease' = [lease EXCEPT ![Task(o)] = o]
  /\ Goto(o, "verify")
  /\ UNCHANGED <<plan, store, asking, remote, bounds>>

\* try_acquire: a handle, or None, and then another task is looked for.
TryAcquire(o) ==
  /\ At(o, "lease")
  /\ IF lease[Task(o)] = Nobody
     THEN lease' = [lease EXCEPT ![Task(o)] = o] /\ Goto(o, "verify")
     ELSE Becomes(o, Idle) /\ UNCHANGED lease
  /\ UNCHANGED <<plan, store, asking, remote, bounds>>

\* TaskLeaseError: the lease directory cannot be used, which is no peer's
\* lease; the session escalates.
LeaseError(o) ==
  /\ At(o, "lease") /\ crashes < MaxCrashes
  /\ crashes' = crashes + 1
  /\ Becomes(o, Stopped)
  /\ UNCHANGED <<plan, store, leases, remote, bumps, commits>>

-----------------------------------------------------------------------------
(* Sections 4, 5 and 18: the Builder, the pull request and its outcome.    *)

\* The base revision and the head of its branch, immediately before dispatch.
Observes(o) ==
  Becomes(o, [session[o] EXCEPT !.pc = "push", !.base = base, !.head = branch[Task(o)][base].head])

\* Mutant: a pull request that is found open is work that is done.
VerifyOpenIsDone(o) ==
  /\ At(o, "verify")
  /\ IF PullsOf(Task(o)) # {} THEN Done(o)
     ELSE IF MayWrite(branch[Task(o)][base].owner, Us, Nobody) THEN Observes(o)
     ELSE Blocked(o)
  /\ UNCHANGED <<plan, store, leases, remote, bounds>>

\* The repository is read again under the lease: merged work is recorded, a
\* branch of somebody else blocks the task, and only then a Builder starts.
Verify(o) ==
  /\ At(o, "verify")
  /\ IF Merged(Task(o)) THEN Done(o)
     ELSE IF MayWrite(branch[Task(o)][base].owner, Us, Nobody) THEN Observes(o)
     ELSE Blocked(o)
  /\ UNCHANGED <<plan, store, leases, remote, bounds>>

Pushed(b, actor) == [owner |-> actor, head |-> b.head + 1]

\* The Builder pushes the branch of its identity: the remote takes it if the
\* branch is still where it was seen.
Push(o) ==
  /\ At(o, "push")
  /\ IF PushAllowed(session[o].head, branch[Task(o)][session[o].base].head)
     THEN branch' = [branch EXCEPT ![Task(o)][session[o].base] = Pushed(@, Us)] /\ Goto(o, "build")
     ELSE Blocked(o) /\ UNCHANGED branch
  /\ UNCHANGED <<plan, store, leases, base, pulls, taken, bounds>>

Sees(o, pc, i) == Becomes(o, [session[o] EXCEPT !.pc = pc, !.pull = i])

\* Mutant: it looks only for a pull request of its own branch.
LookAtOwnBranch(o) ==
  /\ At(o, "build")
  /\ LET own == {i \in PullsOf(Task(o)) : pulls[i].base = session[o].base}
     IN  IF own = {} THEN Sees(o, "create", Len(pulls)) ELSE \E i \in own : Sees(o, "review", i)
  /\ UNCHANGED <<plan, store, leases, remote, bounds>>

\* It looks for a pull request of the task: adopts it if it has its identity,
\* blocks if it has another, and opens one if there is none.
Look(o) ==
  /\ At(o, "build")
  /\ IF PullsOf(Task(o)) = {} THEN Sees(o, "create", Len(pulls))
     ELSE \E i \in PullsOf(Task(o)) :
            IF Adopts(pulls[i].base, session[o].base) THEN Sees(o, "review", i) ELSE Blocked(o)
  /\ UNCHANGED <<plan, store, leases, remote, bounds>>

\* The host has at most one open pull request for a branch.
OpenFor(t, r) == \E i \in PullsOf(t) : pulls[i].base = r /\ ~pulls[i].merged

\* ours and after are histories: whether a session of this machine opened it,
\* and the last pull request there was when that session had looked.
Opens(t, r, ours, after) ==
  pulls' = Append(pulls, [task |-> t, base |-> r, merged |-> FALSE, ours |-> ours, after |-> after])

\* Mutant: a refused pull request is tried again, and the others not looked at.
OpenPrAgain(o) ==
  /\ At(o, "create")
  /\ ~OpenFor(Task(o), session[o].base)
  /\ Opens(Task(o), session[o].base, TRUE, session[o].pull)
  /\ Sees(o, "review", Len(pulls) + 1)
  /\ UNCHANGED <<plan, store, leases, base, branch, taken, bounds>>

\* It opens the pull request; where the host refuses, because somebody else
\* has opened one for that branch meanwhile, it looks again.
OpenPr(o) ==
  /\ At(o, "create")
  /\ IF OpenFor(Task(o), session[o].base) THEN Sees(o, "build", 0) /\ UNCHANGED pulls
     ELSE /\ Opens(Task(o), session[o].base, TRUE, session[o].pull)
          /\ Sees(o, "review", Len(pulls) + 1)
  /\ UNCHANGED <<plan, store, leases, base, branch, taken, bounds>>

\* An authorized merge, ours or a human's.
Merge ==
  /\ base < MaxBase
  /\ \E i \in DOMAIN pulls : ~pulls[i].merged /\ pulls' = [pulls EXCEPT ![i].merged = TRUE]
  /\ base' = base + 1
  /\ UNCHANGED <<plan, store, leases, branch, taken, session, bounds>>

\* Section 18: the merged flag is read from the repository.
SeesMerged(o) ==
  /\ At(o, "review") /\ pulls[session[o].pull].merged
  /\ Done(o)
  /\ UNCHANGED <<plan, store, leases, remote, bounds>>

\* A circuit breaker fires, or a human is needed.
Escalates(o) ==
  /\ At(o, "review") /\ ~pulls[session[o].pull].merged
  /\ Blocked(o)
  /\ UNCHANGED <<plan, store, leases, remote, bounds>>

-----------------------------------------------------------------------------
(* Item 12: the outcome is written to the checkpoint.                      *)

Read(o) ==
  /\ session[o].pc \in {"merged", "report"}
  /\ Keeps(o, "advance")
  /\ UNCHANGED <<plan, store, leases, remote, bounds>>

Record(o) ==
  /\ At(o, "advance") /\ Current(o)
  /\ Advance(Task(o), session[o].status)
  /\ Leave(o, IF session[o].status = "BLOCKED" THEN Stopped ELSE Idle)
  /\ UNCHANGED <<plan, remote, bounds>>

RecordRefused(o) ==
  /\ At(o, "advance") /\ ~Current(o)
  /\ IF session[o].retried THEN Leave(o, Stopped)
     ELSE Retries(o) /\ UNCHANGED leases
  /\ UNCHANGED <<plan, store, remote, bounds>>

-----------------------------------------------------------------------------
\* The session dies, and with it its Builder; a new one takes its place.
Crash(o) ==
  /\ session[o].pc \notin {"idle", "escalated"} /\ crashes < MaxCrashes
  /\ crashes' = crashes + 1
  /\ Leave(o, Idle)
  /\ UNCHANGED <<plan, store, remote, bumps, commits>>

\* Somebody persists a comment thread or evidence.
Bump ==
  /\ bumps < MaxBumps
  /\ bumps' = bumps + 1 /\ gen' = gen + 1
  /\ UNCHANGED <<plan, statuses, clarified, leases, remote, session, crashes, commits>>

\* Other commits on the base branch.
Commit ==
  /\ base < MaxBase /\ commits < MaxCommits
  /\ base' = base + 1 /\ commits' = commits + 1
  /\ UNCHANGED <<plan, store, leases, branch, pulls, taken, session, crashes, bumps>>

\* Orchestrators on other machines work on the same plan, at whatever base
\* revision they have seen, and open a pull request however long ago they looked.
PeerPushes(t, actor) ==
  /\ t \notin taken /\ Cardinality(taken) < MaxPeers
  /\ taken' = taken \cup {t}
  /\ \E r \in 0 .. base :
       /\ MayWrite(branch[t][r].owner, actor, Nobody)
       /\ branch' = [branch EXCEPT ![t][r] = Pushed(@, actor)]
  /\ UNCHANGED <<plan, store, leases, base, pulls, session, bounds>>

PeerOpens(t, actor) ==
  /\ t \in taken /\ \A i \in PullsOf(t) : pulls[i].ours
  /\ \E r \in Revision : branch[t][r].owner = actor /\ ~OpenFor(t, r) /\ Opens(t, r, FALSE, 0)
  /\ UNCHANGED <<plan, store, leases, base, branch, taken, session, bounds>>

Step(o) ==
  \/ Select(o) \/ Resume(o)
  \/ TakeClarifyLease(o) \/ Recheck(o) \/ Answer(o) \/ AnswerRefused(o)
  \/ Claim(o) \/ ClaimRefused(o) \/ TryAcquire(o)
  \/ Verify(o) \/ Push(o) \/ Look(o) \/ OpenPr(o) \/ SeesMerged(o) \/ Escalates(o)
  \/ Read(o) \/ Record(o) \/ RecordRefused(o)

Next ==
  \/ \E o \in Session : Step(o) \/ Crash(o) \/ LeaseError(o)
  \/ \E t \in PlanTask, actor \in Peers : PeerPushes(t, actor) \/ PeerOpens(t, actor)
  \/ Merge \/ Commit \/ Bump

\* An orchestrator that has something to do does it; every review ends, at
\* the latest with an escalation, because its rounds are bounded.
Spec == Init /\ [][Next]_vars /\ \A o \in Session : WF_vars(Step(o))

-----------------------------------------------------------------------------
Pc == {"idle", "clarify", "recheck", "ask", "claim", "lease", "verify", "push", "build", "create",
       "review", "merged", "report", "advance", "escalated"}

SessionState == [pc : Pc, task : PlanTask \cup {NoTask}, gen : Nat, retried : BOOLEAN,
                 status : {"COMPLETE", "BLOCKED"}, base : Revision, head : Nat, pull : Nat]
Branch       == [owner : {Us, Nobody} \cup Peers, head : Nat]
PullRequest  == [task : PlanTask, base : Revision, merged : BOOLEAN, ours : BOOLEAN, after : Nat]

\* The state has its declared shape.
TypeOK ==
  /\ plan \in Plans /\ gen \in Nat
  /\ statuses \in [PlanTask -> Status]
  /\ clarified \in [PlanTask -> {"NONE", "RESOLVED", "OPEN"}]
  /\ lease \in [PlanTask -> Session \cup {Nobody}] /\ asking \in [PlanTask -> Session \cup {Nobody}]
  /\ base \in Revision /\ branch \in [PlanTask -> [Revision -> Branch]]
  /\ pulls \in Seq(PullRequest) /\ taken \subseteq PlanTask
  /\ session \in [Session -> SessionState]
  /\ crashes \in 0 .. MaxCrashes /\ bumps \in 0 .. MaxBumps /\ commits \in 0 .. MaxCommits

Building(o) == session[o].pc \in {"push", "build", "create", "review"}

\* Whatever the orchestrators of a machine read of the checkpoint and whenever
\* they read it, two of them never have a Builder on one task (task_lease.py),
\* nor an interview about one task, and nobody asks what has been answered (the
\* clarify lease and the read under it).
OneBuilder == \A o, p \in Session : Building(o) /\ Building(p) /\ Task(o) = Task(p) => o = p

OneInterview ==
  \A o \in Session : At(o, "ask") =>
    /\ clarified[Task(o)] = "NONE"
    /\ \A p \in Session : At(p, "ask") /\ Task(p) = Task(o) => p = o

OneWorker == OneBuilder /\ OneInterview

\* A Builder works only on a task all of whose dependencies are merged: the
\* checkpoint that select_next_task goes by is never ahead of the repository.
DependenciesMerged ==
  \A o \in Session : Building(o) => \A d \in plan.deps[Task(o)] : d \in PlanTask /\ Merged(d)

\* Whoever works on a task, after whatever crash and at whatever base revision,
\* the sessions of a machine open one pull request for it; and they open one
\* beside a peer's only in a race, when the peer has opened that since the
\* session looked (reconcile_remote_claim; prepare_remote_write claims no more).
NoSecondPr ==
  \A j \in DOMAIN pulls : pulls[j].ours =>
    \A i \in PullsOf(pulls[j].task) : i < j => ~pulls[i].ours /\ i > pulls[j].after

\* The checkpoint never takes a completed task back: a claim that was read
\* before somebody else finished the task does not reopen it.
CompleteStays == [][\A t \in PlanTask : statuses[t] = "COMPLETE" => statuses'[t] = "COMPLETE"]_vars

ToExecute == {p \in Plans : p.ready /\ Valid(p)}
Finished  == \A t \in PlanTask : statuses[t] = "COMPLETE"

\* The execution of a valid plan comes to an end, crashes, moving base and peers
\* or not: all of its tasks are complete, one is blocked, another machine has one
\* that nobody here had taken up, or every session has escalated.
PlanEnds ==
  plan \in ToExecute ~>
    \/ Finished
    \/ \E t \in PlanTask : statuses[t] = "BLOCKED" \/ (statuses[t] = "PENDING" /\ t \in taken)
    \/ \A o \in Session : At(o, "escalated")
=============================================================================
