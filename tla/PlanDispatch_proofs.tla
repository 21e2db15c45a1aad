-------------------------- MODULE PlanDispatch_proofs --------------------------
(***************************************************************************)
(* Theorems about the dispatch of a plan's tasks for any plans, any number *)
(* of orchestrators, crashes, base revisions and peers.  The inductive     *)
(* invariant IInv adds to TypeOK: who works holds the lease (Held), what a *)
(* session knows of the checkpoint (KnowsStore) and of the repository      *)
(* (KnowsRemote, KnowsPulls), and that the checkpoint is never ahead of    *)
(* the repository (Recorded, DepsDone).                                    *)
(***************************************************************************)
EXTENDS PlanDispatch, WellFoundedInduction, TLAPS

Working == {"verify", "push", "build", "create", "review", "merged", "report", "advance"}

\* Who works on a task holds its lease, and who asks about it the clarify lease.
Held ==
  \A o \in Session :
    /\ session[o].pc \in Working => lease[Task(o)] = o
    /\ session[o].pc \in {"recheck", "ask"} => asking[Task(o)] = o

Ready(t) == \A d \in plan.deps[t] : d \in PlanTask /\ statuses[d] = "COMPLETE"

\* What a session read is true as long as nobody else wrote it; nobody but the
\* holder of the lease completes a task.
KnowsStore ==
  \A o \in Session :
    /\ session[o].gen <= gen
    /\ At(o, "claim") => Ready(Task(o)) /\ (Current(o) => statuses[Task(o)] = "PENDING")
    /\ session[o].pc \in Working \cup {"lease"} => statuses[Task(o)] # "PENDING"
    /\ session[o].pc \in {"push", "build", "create", "review"} => statuses[Task(o)] # "COMPLETE"
    /\ session[o].pc \in {"report", "advance"} /\ session[o].status = "BLOCKED" =>
         statuses[Task(o)] # "COMPLETE"
    /\ At(o, "ask") => clarified[Task(o)] = "NONE"

\* The tasks whose work is merged.
MergedWork == {t \in PlanTask : Merged(t)}

\* What it will record is true of the repository.
KnowsRemote ==
  \A o \in Session :
    /\ session[o].pc \notin {"report", "advance"} => session[o].status = "COMPLETE"
    /\ At(o, "report") => session[o].status = "BLOCKED"
    /\ At(o, "merged") \/ (At(o, "advance") /\ session[o].status = "COMPLETE") =>
         Task(o) \in MergedWork

\* A session that reviews has a pull request of its task, and one that will
\* open a pull request has missed none but what peers opened since it looked.
Reviews(o) == session[o].pull \in DOMAIN pulls /\ pulls[session[o].pull].task = Task(o)
Looked(o)  ==
  /\ session[o].pull <= Len(pulls)
  /\ \A i \in DOMAIN pulls : pulls[i].task = Task(o) => i > session[o].pull /\ ~pulls[i].ours
KnowsPulls ==
  \A o \in Session :
    /\ At(o, "review") => Reviews(o)
    /\ At(o, "create") => Looked(o)

\* What the steps below need of TypeOK.
LocalType ==
  /\ statuses \in [PlanTask -> Status] /\ gen \in Nat
  /\ lease \in [PlanTask -> Session \cup {Nobody}] /\ asking \in [PlanTask -> Session \cup {Nobody}]
  /\ session \in [Session -> SessionState]

HasTask == \A o \in Session : session[o].pc \notin {"idle", "escalated"} => Task(o) \in PlanTask

\* The checkpoint is not ahead of the repository.
Recorded == \A t \in PlanTask : statuses[t] = "COMPLETE" => t \in MergedWork

DepsDone == \A t \in PlanTask : statuses[t] # "PENDING" => Ready(t)

IInv == /\ TypeOK /\ HasTask /\ Held /\ KnowsStore /\ KnowsRemote
        /\ KnowsPulls /\ Recorded /\ DepsDone /\ NoSecondPr

-----------------------------------------------------------------------------
(* What the selection answers.                                             *)

LEMMA Least == ASSUME NEW T \in SUBSET Nat, T # {} PROVE \E x \in T : \A y \in T : x <= y
<1>1. PICK x \in T : \A y \in T : ~ (<<y, x>> \in OpToRel(<, Nat))
  BY WFMin, NatLessThanWellFounded, Zenon
<1>2. \A y \in T : ~(y < x)
  BY <1>1, Zenon DEF OpToRel
<1>3. QED
  BY <1>2

\* select_next_task returns a task that is pending and whose dependencies are complete.
LEMMA SelectedIsEligible ==
  ASSUME NEW p \in Plan, NEW st, NEW active, SelectTask(p, st, active, {}) # NoTask
  PROVE  Eligible(p, st, SelectTask(p, st, active, {}))
<1>1. SelectNext(p, st) # NoTask /\ SelectTask(p, st, active, {}) = SelectNext(p, st)
  BY DEF SelectTask
<1>2. ASSUME NEW w, w \in DOMAIN p.waves, FirstEligible(p, st, p.waves[w]) # NoTask
      PROVE  Eligible(p, st, FirstEligible(p, st, p.waves[w]))
  <2> DEFINE wave == p.waves[w]
             S    == {i \in DOMAIN wave : Eligible(p, st, wave[i])}
  <2>1. S # {} /\ FirstEligible(p, st, wave) = wave[CHOOSE i \in S : \A j \in S : i <= j]
    BY <1>2 DEF FirstEligible
  <2>2. wave \in Seq(Id)
    BY <1>2 DEF Plan
  <2>3. S \in SUBSET Nat
    BY <2>2
  <2>4. \E i \in S : \A j \in S : i <= j
    BY <2>1, <2>3, Least
  <2>5. (CHOOSE i \in S : \A j \in S : i <= j) \in S
    BY <2>4
  <2>6. QED
    BY <2>1, <2>5
<1>3. QED
  <2> DEFINE W == {w \in DOMAIN p.waves : Stops(p, st, w)}
             m == CHOOSE w \in W : \A v \in W : w <= v
  <2>1. W # {} /\ SelectNext(p, st) = FirstEligible(p, st, p.waves[m])
    BY <1>1 DEF SelectNext
  <2>2. W \in SUBSET Nat
    BY DEF Plan
  <2>3. \E w \in W : \A v \in W : w <= v
    BY <2>1, <2>2, Least
  <2>4. m \in W
    BY <2>3
  <2>5. QED
    BY <1>1, <1>2, <2>1, <2>4

-----------------------------------------------------------------------------
(* The moves of a session.                                                 *)

Others(o) == \A q \in Session \ {o} : session'[q] = session[q]

LEMMA BecomesIs ==
  ASSUME TypeOK, NEW o \in Session, NEW r \in SessionState, Becomes(o, r)
  PROVE  session' \in [Session -> SessionState] /\ session'[o] = r /\ Others(o)
  BY DEF TypeOK, Becomes, Others

LEMMA BegunIs ==
  ASSUME NEW pc \in Pc, NEW t \in PlanTask \cup {NoTask}, NEW g \in Nat
  PROVE  /\ Begun(pc, t, g) \in SessionState
         /\ Begun(pc, t, g).pc = pc /\ Begun(pc, t, g).task = t /\ Begun(pc, t, g).gen = g
         /\ Begun(pc, t, g).status = "COMPLETE"
  BY DispatchAssumption DEF Begun, SessionState, Revision

LEMMA IdleIs ==
  /\ Idle \in SessionState /\ Idle.pc = "idle" /\ Idle.status = "COMPLETE" /\ Idle.gen = 0
  /\ Stopped \in SessionState /\ Stopped.pc = "escalated" /\ Stopped.status = "COMPLETE" /\ Stopped.gen = 0
  BY DispatchAssumption DEF Idle, Stopped, Begun, SessionState, Pc, Revision

LEMMA GotoIs ==
  ASSUME TypeOK, NEW o \in Session, NEW pc \in Pc, Goto(o, pc)
  PROVE  /\ session' \in [Session -> SessionState] /\ Others(o)
         /\ session'[o].pc = pc /\ session'[o].task = session[o].task /\ session'[o].gen = session[o].gen /\ session'[o].status = session[o].status
<1> DEFINE r == [session[o] EXCEPT !.pc = pc]
<1>1. r \in SessionState /\ r.pc = pc /\ r.task = session[o].task /\ r.gen = session[o].gen /\ r.status = session[o].status
  BY DEF TypeOK, SessionState, Pc
<1>2. Becomes(o, r)
  BY DEF Goto
<1> HIDE DEF r
<1>3. QED
  BY <1>1, <1>2, BecomesIs

LEMMA KeepsIs ==
  ASSUME TypeOK, NEW o \in Session, NEW pc \in Pc, Keeps(o, pc)
  PROVE  /\ session' \in [Session -> SessionState] /\ Others(o)
         /\ session'[o].pc = pc /\ session'[o].task = session[o].task /\ session'[o].gen = gen /\ session'[o].status = session[o].status
<1> DEFINE r == [session[o] EXCEPT !.pc = pc, !.gen = gen, !.retried = FALSE]
<1>1. r \in SessionState /\ r.pc = pc /\ r.task = session[o].task /\ r.gen = gen /\ r.status = session[o].status
  BY DEF TypeOK, SessionState, Pc
<1>2. Becomes(o, r)
  BY DEF Keeps
<1> HIDE DEF r
<1>3. QED
  BY <1>1, <1>2, BecomesIs

LEMMA RetriesIs ==
  ASSUME TypeOK, NEW o \in Session, Retries(o)
  PROVE  /\ session' \in [Session -> SessionState] /\ Others(o)
         /\ session'[o].pc = session[o].pc /\ session'[o].task = session[o].task /\ session'[o].gen = gen /\ session'[o].status = session[o].status
<1> DEFINE r == [session[o] EXCEPT !.gen = gen, !.retried = TRUE]
<1>1. r \in SessionState /\ r.pc = session[o].pc /\ r.task = session[o].task /\ r.gen = gen /\ r.status = session[o].status
  BY DEF TypeOK, SessionState, Pc
<1>2. Becomes(o, r)
  BY DEF Retries
<1> HIDE DEF r
<1>3. QED
  BY <1>1, <1>2, BecomesIs

LEMMA LeadsIs ==
  ASSUME TypeOK, NEW o \in Session, NEW pc \in Pc, NEW status \in {"COMPLETE", "BLOCKED"}, Leads(o, pc, status)
  PROVE  /\ session' \in [Session -> SessionState] /\ Others(o)
         /\ session'[o].pc = pc /\ session'[o].task = session[o].task /\ session'[o].gen = session[o].gen /\ session'[o].status = status
<1> DEFINE r == [session[o] EXCEPT !.pc = pc, !.status = status, !.base = 0, !.head = 0, !.pull = 0]
<1>1. r \in SessionState /\ r.pc = pc /\ r.task = session[o].task /\ r.gen = session[o].gen /\ r.status = status
  <2>1. session[o] \in SessionState /\ 0 \in Revision
    BY DispatchAssumption DEF TypeOK, Revision
  <2>2. QED
    BY <2>1 DEF SessionState
<1>2. Becomes(o, r)
  BY DEF Leads
<1> HIDE DEF r
<1>3. QED
  BY <1>1, <1>2, BecomesIs

LEMMA BlockedIs ==
  ASSUME TypeOK, NEW o \in Session, Blocked(o)
  PROVE  /\ session' \in [Session -> SessionState] /\ Others(o)
         /\ session'[o].pc = "report" /\ session'[o].task = session[o].task /\ session'[o].gen = session[o].gen /\ session'[o].status = "BLOCKED"
  BY LeadsIs DEF Blocked, Pc

LEMMA DoneIs ==
  ASSUME TypeOK, NEW o \in Session, Done(o)
  PROVE  /\ session' \in [Session -> SessionState] /\ Others(o)
         /\ session'[o].pc = "merged" /\ session'[o].task = session[o].task /\ session'[o].gen = session[o].gen /\ session'[o].status = "COMPLETE"
  BY LeadsIs DEF Done, Pc

LEMMA ObservesIs ==
  ASSUME TypeOK, NEW o \in Session, session[o].task \in PlanTask, Observes(o)
  PROVE  /\ session' \in [Session -> SessionState] /\ Others(o)
         /\ session'[o].pc = "push" /\ session'[o].task = session[o].task /\ session'[o].gen = session[o].gen /\ session'[o].status = session[o].status
<1> DEFINE h == branch[session[o].task][base].head
           r == [session[o] EXCEPT !.pc = "push", !.base = base, !.head = h]
<1>1. base \in Revision /\ h \in Nat
  <2>1. branch[session[o].task][base] \in Branch
    BY DEF TypeOK
  <2>2. QED
    BY <2>1 DEF TypeOK, Branch
<1>2. Becomes(o, r)
  BY DEF Observes, Task
<1> HIDE DEF h
<1>3. r \in SessionState /\ r.pc = "push" /\ r.task = session[o].task /\ r.gen = session[o].gen /\ r.status = session[o].status
  BY <1>1 DEF TypeOK, SessionState, Pc
<1> HIDE DEF r
<1>4. QED
  BY <1>2, <1>3, BecomesIs

LEMMA SeesIs ==
  ASSUME TypeOK, NEW o \in Session, NEW pc \in Pc, NEW i \in Nat, Sees(o, pc, i)
  PROVE  /\ session' \in [Session -> SessionState] /\ Others(o) /\ session'[o].pull = i
         /\ session'[o].pc = pc /\ session'[o].task = session[o].task /\ session'[o].gen = session[o].gen /\ session'[o].status = session[o].status
<1> DEFINE r == [session[o] EXCEPT !.pc = pc, !.pull = i]
<1>1. r \in SessionState /\ r.pull = i /\ r.pc = pc /\ r.task = session[o].task /\ r.gen = session[o].gen /\ r.status = session[o].status
  BY DEF TypeOK, SessionState
<1>2. Becomes(o, r)
  BY DEF Sees
<1> HIDE DEF r
<1>3. QED
  BY <1>1, <1>2, BecomesIs

LEMMA LeaveIs ==
  ASSUME TypeOK, NEW o \in Session, NEW r \in {Idle, Stopped}, Leave(o, r)
  PROVE  /\ session' \in [Session -> SessionState] /\ Others(o) /\ session'[o] = r
         /\ session'[o].pc \in {"idle", "escalated"} /\ session'[o].status = "COMPLETE" /\ session'[o].gen = 0
         /\ lease'  = [t \in PlanTask |-> IF lease[t] = o THEN Nobody ELSE lease[t]]
         /\ asking' = [t \in PlanTask |-> IF asking[t] = o THEN Nobody ELSE asking[t]]
  BY BecomesIs, IdleIs DEF Leave, Without

LEMMA SelectIs ==
  ASSUME TypeOK, NEW o \in Session, Select(o)
  PROVE  /\ session' \in [Session -> SessionState] /\ Others(o)
         /\ \/ session'[o].pc = "escalated" /\ session'[o].gen = 0
            \/ /\ session'[o].pc \in {"claim", "clarify"} /\ session'[o].gen = gen
               /\ session'[o].task \in PlanTask /\ statuses[session'[o].task] = "PENDING" /\ Ready(session'[o].task)
         /\ session'[o].status = "COMPLETE"
<1> DEFINE t    == SelectTask(plan, statuses, Active, {})
           next == IF t \notin Ambiguous \/ clarified[t] = "RESOLVED" THEN "claim"
                   ELSE IF clarified[t] = "OPEN" THEN "escalated" ELSE "clarify"
           r    == IF next = "escalated" THEN Stopped ELSE Begun(next, t, gen)
<1>1. t # NoTask /\ Becomes(o, r)
  BY DEF Select
<1>2. Eligible(plan, statuses, t)
  <2>1. plan \in Plan
    BY DispatchAssumption DEF TypeOK
  <2>2. QED
    BY <1>1, <2>1, SelectedIsEligible
<1>3. t \in PlanTask /\ statuses[t] = "PENDING" /\ Ready(t)
  BY <1>2 DEF Eligible, Ready
<1>4. next \in {"claim", "clarify", "escalated"}
  OBVIOUS
<1> HIDE DEF t, next
<1>5. r \in SessionState
  BY <1>3, <1>4, BegunIs, IdleIs DEF TypeOK, Pc
<1>6. r = Stopped \/ (next \in {"claim", "clarify"} /\ r = Begun(next, t, gen))
  BY <1>4
<1> HIDE DEF r
<1>7. session' \in [Session -> SessionState] /\ session'[o] = r /\ Others(o)
  BY <1>1, <1>5, BecomesIs
<1>8. QED
  BY <1>3, <1>6, <1>7, BegunIs, IdleIs DEF TypeOK, Pc

LEMMA ResumeIs ==
  ASSUME TypeOK, NEW o \in Session, Resume(o)
  PROVE  /\ session' \in [Session -> SessionState] /\ Others(o)
         /\ session'[o].pc = "lease" /\ session'[o].gen = 0 /\ session'[o].status = "COMPLETE"
         /\ session'[o].task \in PlanTask /\ statuses[session'[o].task] = "IN_PROGRESS"
<1>1. PICK t \in PlanTask : statuses[t] = "IN_PROGRESS" /\ Becomes(o, Begun("lease", t, 0))
  BY DEF Resume
<1>2. Begun("lease", t, 0) \in SessionState
  BY BegunIs DEF Pc
<1>3. QED
  BY <1>1, <1>2, BecomesIs, BegunIs DEF Pc

LEMMA RecordIs ==
  ASSUME TypeOK, NEW o \in Session, Record(o)
  PROVE  /\ session' \in [Session -> SessionState] /\ Others(o) /\ session[o].status \in Status
         /\ session'[o].pc \in {"idle", "escalated"} /\ session'[o].status = "COMPLETE" /\ session'[o].gen = 0
         /\ lease'  = [t \in PlanTask |-> IF lease[t] = o THEN Nobody ELSE lease[t]]
         /\ asking' = [t \in PlanTask |-> IF asking[t] = o THEN Nobody ELSE asking[t]]
<1> DEFINE r == IF session[o].status = "BLOCKED" THEN Stopped ELSE Idle
<1>1. r \in {Idle, Stopped} /\ Leave(o, r)
  BY DEF Record
<1>2. session[o].status \in Status
  BY DEF TypeOK, SessionState, Status
<1> HIDE DEF r
<1>3. QED
  BY <1>1, <1>2, LeaveIs

LEMMA GenType == TypeOK => gen \in Nat /\ \A q \in Session : session[q].gen \in Nat
  BY DEF TypeOK, SessionState

-----------------------------------------------------------------------------
(* The repository.                                                         *)

\* Opening a pull request leaves the others as they are.
LEMMA OpensIs ==
  ASSUME TypeOK, NEW t \in PlanTask, NEW r \in Revision, NEW ours \in BOOLEAN, NEW after \in Nat,
         Opens(t, r, ours, after)
  PROVE  /\ pulls' \in Seq(PullRequest) /\ Len(pulls') = Len(pulls) + 1
         /\ \A i \in DOMAIN pulls : pulls'[i] = pulls[i]
         /\ pulls'[Len(pulls) + 1] = [task |-> t, base |-> r, merged |-> FALSE, ours |-> ours, after |-> after]
  BY DEF TypeOK, Opens, PullRequest

\* A merge changes nothing but the flag of one pull request.
LEMMA MergeIs ==
  ASSUME TypeOK, Merge
  PROVE  /\ pulls' \in Seq(PullRequest) /\ Len(pulls') = Len(pulls)
         /\ \A i \in DOMAIN pulls :
              /\ pulls'[i].task = pulls[i].task /\ pulls'[i].ours = pulls[i].ours /\ pulls'[i].after = pulls[i].after
              /\ pulls[i].merged => pulls'[i].merged
<1>1. PICK i \in DOMAIN pulls : ~pulls[i].merged /\ pulls' = [pulls EXCEPT ![i].merged = TRUE]
  BY DEF Merge
<1> DEFINE m == [pulls[i] EXCEPT !.merged = TRUE]
<1>2. pulls[i] \in PullRequest
  BY DEF TypeOK
<1>3. m \in PullRequest /\ m.task = pulls[i].task /\ m.ours = pulls[i].ours /\ m.after = pulls[i].after /\ m.merged
  BY <1>2 DEF PullRequest
<1>4. pulls' = [pulls EXCEPT ![i] = m]
  BY <1>1
<1> HIDE DEF m
<1>5. QED
  BY <1>3, <1>4 DEF TypeOK

\* A push adds one commit to one branch.
LEMMA PushedIs ==
  ASSUME TypeOK, NEW t \in PlanTask, NEW r \in Revision, NEW actor \in {Us} \cup Peers
  PROVE  [branch EXCEPT ![t][r] = Pushed(@, actor)] \in [PlanTask -> [Revision -> Branch]]
<1>1. branch[t] \in [Revision -> Branch] /\ branch[t][r] \in Branch
  BY DEF TypeOK
<1>2. Pushed(branch[t][r], actor) \in Branch
  BY <1>1 DEF Pushed, Branch
<1>3. [branch[t] EXCEPT ![r] = Pushed(branch[t][r], actor)] \in [Revision -> Branch]
  BY <1>1, <1>2
<1>4. QED
  BY <1>3 DEF TypeOK

\* Looking for a pull request of the task leads to one, to opening one, or to a block.
LEMMA LookIs ==
  ASSUME TypeOK, NEW o \in Session, Look(o)
  PROVE  /\ session' \in [Session -> SessionState] /\ Others(o)
         /\ session'[o].task = session[o].task /\ session'[o].gen = session[o].gen
         /\ \/ /\ session'[o].pc = "create" /\ session'[o].pull = Len(pulls) /\ PullsOf(Task(o)) = {}
               /\ session'[o].status = session[o].status
            \/ /\ session'[o].pc = "review" /\ session'[o].pull \in PullsOf(Task(o))
               /\ session'[o].status = session[o].status
            \/ session'[o].pc = "report" /\ session'[o].status = "BLOCKED"
<1>1. "create" \in Pc /\ "review" \in Pc /\ Len(pulls) \in Nat /\ \A i \in PullsOf(Task(o)) : i \in Nat
  BY DEF TypeOK, PullsOf, Pc
<1>2. CASE PullsOf(Task(o)) = {} /\ Sees(o, "create", Len(pulls))
  BY <1>1, <1>2, SeesIs
<1>3. ASSUME NEW i \in PullsOf(Task(o)), Sees(o, "review", i)
      PROVE  /\ session' \in [Session -> SessionState] /\ Others(o)
             /\ session'[o].task = session[o].task /\ session'[o].gen = session[o].gen
             /\ session'[o].pc = "review" /\ session'[o].pull \in PullsOf(Task(o))
             /\ session'[o].status = session[o].status
  BY <1>1, <1>3, SeesIs
<1>4. CASE Blocked(o)
  BY <1>4, BlockedIs
<1>5. QED
  BY <1>2, <1>3, <1>4 DEF Look

\* Opening it leads to its review, unless the host refuses it.
LEMMA OpenPrIs ==
  ASSUME TypeOK, HasTask, NEW o \in Session, OpenPr(o)
  PROVE  /\ session' \in [Session -> SessionState] /\ Others(o)
         /\ session'[o].task = session[o].task /\ session'[o].gen = session[o].gen
         /\ session'[o].status = session[o].status
         /\ session[o].task \in PlanTask
         /\ \/ session'[o].pc = "build" /\ pulls' = pulls
            \/ /\ session'[o].pc = "review" /\ session'[o].pull = Len(pulls) + 1
               /\ pulls' \in Seq(PullRequest) /\ Len(pulls') = Len(pulls) + 1
               /\ \A i \in DOMAIN pulls : pulls'[i] = pulls[i]
               /\ pulls'[Len(pulls) + 1] = [task |-> session[o].task, base |-> session[o].base,
                                            merged |-> FALSE, ours |-> TRUE, after |-> session[o].pull]
<1>1. session[o].task \in PlanTask /\ session[o].base \in Revision /\ session[o].pull \in Nat
  BY DEF OpenPr, At, HasTask, Task, TypeOK, SessionState
<1>2. "build" \in Pc /\ "review" \in Pc /\ Len(pulls) + 1 \in Nat
  BY DEF TypeOK, Pc
<1>3. CASE Sees(o, "build", 0) /\ UNCHANGED pulls
  BY <1>1, <1>2, <1>3, SeesIs
<1>4. CASE Opens(Task(o), session[o].base, TRUE, session[o].pull) /\ Sees(o, "review", Len(pulls) + 1)
  <2>1. /\ session' \in [Session -> SessionState] /\ Others(o) /\ session'[o].pull = Len(pulls) + 1
        /\ session'[o].pc = "review" /\ session'[o].task = session[o].task
        /\ session'[o].gen = session[o].gen /\ session'[o].status = session[o].status
    BY ONLY <1>2, <1>4, TypeOK, o \in Session, SeesIs
  <2>2. /\ pulls' \in Seq(PullRequest) /\ Len(pulls') = Len(pulls) + 1
        /\ \A i \in DOMAIN pulls : pulls'[i] = pulls[i]
        /\ pulls'[Len(pulls) + 1] = [task |-> session[o].task, base |-> session[o].base,
                                     merged |-> FALSE, ours |-> TRUE, after |-> session[o].pull]
    BY <1>1, <1>4, OpensIs DEF Task
  <2>3. QED
    BY <1>1, <2>1, <2>2
<1>5. QED
  BY <1>3, <1>4 DEF OpenPr

\* Merged work stays merged.
LEMMA MergedStays == TypeOK /\ HasTask /\ [Next]_vars => MergedWork \subseteq MergedWork'
<1> SUFFICES ASSUME TypeOK, HasTask, [Next]_vars, NEW t \in PlanTask, Merged(t) PROVE Merged(t)'
  BY DEF MergedWork
<1>1. PICK i \in DOMAIN pulls : pulls[i].task = t /\ pulls[i].merged
  BY DEF Merged, PullsOf
<1>2. SUFFICES i \in DOMAIN pulls' /\ pulls'[i].task = t /\ pulls'[i].merged
  BY DEF Merged, PullsOf
<1>3. i \in 1 .. Len(pulls) /\ Len(pulls) \in Nat
  BY DEF TypeOK
<1>4. ASSUME NEW o \in Session, OpenPr(o) PROVE pulls' = pulls \/ \E u \in PlanTask, r \in Revision, n \in Nat : Opens(u, r, TRUE, n)
  <2>1. session[o].task \in PlanTask /\ session[o].base \in Revision /\ session[o].pull \in Nat
    BY <1>4 DEF OpenPr, At, HasTask, Task, TypeOK, SessionState
  <2>2. QED
    BY <1>4, <2>1 DEF OpenPr, Task
<1>5. ASSUME NEW u \in PlanTask, NEW actor, PeerOpens(u, actor) PROVE \E r \in Revision : Opens(u, r, FALSE, 0)
  BY <1>5 DEF PeerOpens
<1>6. CASE \E u \in PlanTask, r \in Revision, ours \in BOOLEAN, n \in Nat : Opens(u, r, ours, n)
  <2>1. PICK u \in PlanTask, r \in Revision, ours \in BOOLEAN, n \in Nat : Opens(u, r, ours, n)
    BY <1>6
  <2>2. pulls' \in Seq(PullRequest) /\ Len(pulls') = Len(pulls) + 1 /\ pulls'[i] = pulls[i]
    BY <2>1, OpensIs
  <2>3. QED
    BY <1>1, <1>3, <2>2
<1>7. CASE Merge
  BY <1>1, <1>3, <1>7, MergeIs
<1>8. CASE pulls' = pulls
  BY <1>1, <1>8
<1>9. CASE ~Merge /\ (\A o \in Session : ~OpenPr(o)) /\ (\A u \in PlanTask, actor \in Peers : ~PeerOpens(u, actor))
  <2>1. pulls' = pulls
    BY <1>9 DEF Next, Step, Select, Resume, TakeClarifyLease, Recheck, Answer, AnswerRefused, Claim, ClaimRefused,
       TryAcquire, LeaseError, Verify, Push, Look, SeesMerged, Escalates, Read, Record, RecordRefused, Crash,
       Bump, Commit, PeerPushes, remote, vars
  <2>2. QED
    BY <1>8, <2>1
<1>10. QED
  BY <1>4, <1>5, <1>6, <1>7, <1>8, <1>9

-----------------------------------------------------------------------------
(* Every step keeps the invariant.                                         *)

\* The variables keep their types.
LEMMA TypeStep == TypeOK /\ HasTask /\ [Next]_vars => TypeOK'
<1> SUFFICES ASSUME TypeOK, HasTask, [Next]_vars PROVE TypeOK'
  OBVIOUS
<1> USE DispatchAssumption DEF TypeOK, HasTask, Status, At, Task, Current, store, leases, remote, bounds
<1>1. ASSUME NEW o \in Session, Select(o) PROVE TypeOK'
  BY <1>1, SelectIs DEF Select, Others, Pc
<1>2. ASSUME NEW o \in Session, Resume(o) PROVE TypeOK'
  BY <1>2, ResumeIs DEF Resume, Others, Pc
<1>3. ASSUME NEW o \in Session, TakeClarifyLease(o) PROVE TypeOK'
  BY <1>3, GotoIs, BecomesIs, IdleIs DEF TakeClarifyLease, Others, Pc
<1>4. ASSUME NEW o \in Session, Recheck(o) PROVE TypeOK'
  BY <1>4, KeepsIs, LeaveIs, IdleIs DEF Recheck, Others, Pc
<1>5. ASSUME NEW o \in Session, Answer(o) PROVE TypeOK'
  BY <1>5, LeaveIs DEF Answer, Others, Pc
<1>6. ASSUME NEW o \in Session, AnswerRefused(o) PROVE TypeOK'
  BY <1>6, LeaveIs, RetriesIs DEF AnswerRefused, Others, Pc
<1>7. ASSUME NEW o \in Session, Claim(o) PROVE TypeOK'
  BY <1>7, GotoIs DEF Claim, Others, Pc, Advance
<1>8. ASSUME NEW o \in Session, ClaimRefused(o) PROVE TypeOK'
  BY <1>8, BecomesIs, IdleIs, RetriesIs DEF ClaimRefused, Others, Pc
<1>9. ASSUME NEW o \in Session, TryAcquire(o) PROVE TypeOK'
  BY <1>9, GotoIs, BecomesIs, IdleIs DEF TryAcquire, Others, Pc
<1>10. ASSUME NEW o \in Session, LeaseError(o) PROVE TypeOK'
  BY <1>10, BecomesIs, IdleIs DEF LeaseError, Others, Pc
<1>11. ASSUME NEW o \in Session, Verify(o) PROVE TypeOK'
  BY <1>11, ObservesIs, DoneIs, BlockedIs DEF Verify, Others, Pc
<1>12. ASSUME NEW o \in Session, Push(o) PROVE TypeOK'
  <2>1. session[o].task \in PlanTask /\ session[o].base \in Revision
    BY <1>12 DEF Push, SessionState
  <2>2. session' \in [Session -> SessionState]
    BY <1>12, GotoIs, BlockedIs DEF Push, Pc
  <2>3. branch' \in [PlanTask -> [Revision -> Branch]]
    <3>1. [branch EXCEPT ![session[o].task][session[o].base] = Pushed(@, Us)] \in [PlanTask -> [Revision -> Branch]]
      BY <2>1, PushedIs
    <3>2. QED
      BY <1>12, <3>1 DEF Push
  <2>4. QED
    BY <1>12, <2>2, <2>3 DEF Push
<1>13. ASSUME NEW o \in Session, Look(o) PROVE TypeOK'
  <2>1. session' \in [Session -> SessionState] /\ Others(o) /\ session[o].pc = "build"
    BY ONLY <1>13, LookIs, TypeOK DEF Look, At
  <2>2. session'[o].task = session[o].task /\ session'[o].gen = session[o].gen
    BY ONLY <1>13, LookIs, TypeOK
  <2>3. \/ session'[o].pc \in {"create", "review"} /\ session'[o].status = session[o].status
        \/ session'[o].pc = "report" /\ session'[o].status = "BLOCKED"
    BY ONLY <1>13, LookIs, TypeOK
  <2>4. QED
    BY <1>13, <2>1, <2>2, <2>3 DEF Look, Others
<1>14. ASSUME NEW o \in Session, OpenPr(o) PROVE TypeOK'
  <2>1. session' \in [Session -> SessionState] /\ pulls' \in Seq(PullRequest)
    BY ONLY <1>14, OpenPrIs, TypeOK, HasTask DEF TypeOK
  <2>2. QED
    BY <1>14, <2>1 DEF OpenPr
<1>15. ASSUME NEW o \in Session, SeesMerged(o) PROVE TypeOK'
  BY <1>15, DoneIs DEF SeesMerged, Others, Pc
<1>16. ASSUME NEW o \in Session, Escalates(o) PROVE TypeOK'
  BY <1>16, BlockedIs DEF Escalates, Others, Pc
<1>17. ASSUME NEW o \in Session, Read(o) PROVE TypeOK'
  BY <1>17, KeepsIs DEF Read, Others, Pc
<1>18. ASSUME NEW o \in Session, Record(o) PROVE TypeOK'
  <2>1. /\ session' \in [Session -> SessionState] /\ Others(o) /\ session[o].status \in Status
        /\ session'[o].pc \in {"idle", "escalated"} /\ session'[o].status = "COMPLETE" /\ session'[o].gen = 0
        /\ lease'  = [t \in PlanTask |-> IF lease[t] = o THEN Nobody ELSE lease[t]]
        /\ asking' = [t \in PlanTask |-> IF asking[t] = o THEN Nobody ELSE asking[t]]
    BY ONLY <1>18, RecordIs, TypeOK
  <2>2. /\ session[o].pc = "advance" /\ session[o].gen = gen
        /\ gen' = gen + 1 /\ statuses' = [statuses EXCEPT ![session[o].task] = session[o].status]
        /\ UNCHANGED <<plan, clarified, base, branch, pulls, taken, crashes, bumps, commits>>
    BY <1>18 DEF Record, Advance
  <2>3. QED
    BY <2>1, <2>2 DEF Others
<1>19. ASSUME NEW o \in Session, RecordRefused(o) PROVE TypeOK'
  BY <1>19, LeaveIs, RetriesIs DEF RecordRefused, Others, Pc
<1>20. ASSUME NEW o \in Session, Crash(o) PROVE TypeOK'
  BY <1>20, LeaveIs DEF Crash, Others, Pc
<1>21. ASSUME Merge PROVE TypeOK'
  <2>1. pulls' \in Seq(PullRequest)
    BY ONLY <1>21, MergeIs, TypeOK
  <2>2. QED
    BY <1>21, <2>1 DEF Merge, Revision
<1>22. ASSUME Commit PROVE TypeOK'
  BY <1>22 DEF Commit, Revision
<1>23. ASSUME NEW t \in PlanTask, NEW actor \in Peers, PeerPushes(t, actor) PROVE TypeOK'
  <2>1. PICK r \in 0 .. base : branch' = [branch EXCEPT ![t][r] = Pushed(@, actor)]
    BY <1>23 DEF PeerPushes
  <2>2. r \in Revision
    BY DEF Revision
  <2>3. branch' \in [PlanTask -> [Revision -> Branch]]
    BY <2>1, <2>2, PushedIs
  <2>4. QED
    BY <1>23, <2>3 DEF PeerPushes
<1>24. ASSUME NEW t \in PlanTask, NEW actor \in Peers, PeerOpens(t, actor) PROVE TypeOK'
  <2>1. PICK r \in Revision : Opens(t, r, FALSE, 0)
    BY <1>24 DEF PeerOpens
  <2>2. pulls' \in Seq(PullRequest)
    BY ONLY <2>1, OpensIs, TypeOK
  <2>3. QED
    BY <1>24, <2>2 DEF PeerOpens
<1>25. ASSUME Bump PROVE TypeOK'
  BY <1>25 DEF Bump
<1>26. ASSUME UNCHANGED vars PROVE TypeOK'
  BY <1>26 DEF vars
<1>27. QED
  BY <1>1, <1>2, <1>3, <1>4, <1>5, <1>6, <1>7, <1>8, <1>9, <1>10, <1>11, <1>12, <1>13, <1>14, <1>15, <1>16, <1>17, <1>18, <1>19, <1>20, <1>21, <1>22, <1>23, <1>24, <1>25, <1>26 DEF Next, Step

\* A session past its selection has a task.
LEMMA TaskStep == TypeOK /\ HasTask /\ [Next]_vars => HasTask'
<1> SUFFICES ASSUME TypeOK, HasTask, [Next]_vars PROVE HasTask'
  OBVIOUS
<1> USE DispatchAssumption DEF HasTask, At, Task, Current, store, leases, remote, bounds
<1>1. ASSUME NEW o \in Session, Select(o) PROVE HasTask'
  BY <1>1, SelectIs DEF Select, Others, Pc
<1>2. ASSUME NEW o \in Session, Resume(o) PROVE HasTask'
  BY <1>2, ResumeIs DEF Resume, Others, Pc
<1>3. ASSUME NEW o \in Session, TakeClarifyLease(o) PROVE HasTask'
  BY <1>3, GotoIs, BecomesIs, IdleIs DEF TakeClarifyLease, Others, Pc
<1>4. ASSUME NEW o \in Session, Recheck(o) PROVE HasTask'
  BY <1>4, KeepsIs, LeaveIs, IdleIs DEF Recheck, Others, Pc
<1>5. ASSUME NEW o \in Session, Answer(o) PROVE HasTask'
  BY <1>5, LeaveIs DEF Answer, Others, Pc
<1>6. ASSUME NEW o \in Session, AnswerRefused(o) PROVE HasTask'
  BY <1>6, LeaveIs, RetriesIs DEF AnswerRefused, Others, Pc
<1>7. ASSUME NEW o \in Session, Claim(o) PROVE HasTask'
  BY <1>7, GotoIs DEF Claim, Others, Pc, Advance
<1>8. ASSUME NEW o \in Session, ClaimRefused(o) PROVE HasTask'
  BY <1>8, BecomesIs, IdleIs, RetriesIs DEF ClaimRefused, Others, Pc
<1>9. ASSUME NEW o \in Session, TryAcquire(o) PROVE HasTask'
  BY <1>9, GotoIs, BecomesIs, IdleIs DEF TryAcquire, Others, Pc
<1>10. ASSUME NEW o \in Session, LeaseError(o) PROVE HasTask'
  BY <1>10, BecomesIs, IdleIs DEF LeaseError, Others, Pc
<1>11. ASSUME NEW o \in Session, Verify(o) PROVE HasTask'
  BY <1>11, ObservesIs, DoneIs, BlockedIs DEF Verify, Others, Pc
<1>12. ASSUME NEW o \in Session, Push(o) PROVE HasTask'
  BY <1>12, GotoIs, BlockedIs DEF Push, Others, Pc
<1>13. ASSUME NEW o \in Session, Look(o) PROVE HasTask'
  <2>1. session' \in [Session -> SessionState] /\ Others(o) /\ session[o].pc = "build"
    BY ONLY <1>13, LookIs, TypeOK DEF Look, At
  <2>2. session'[o].task = session[o].task /\ session'[o].gen = session[o].gen
    BY ONLY <1>13, LookIs, TypeOK
  <2>3. \/ session'[o].pc \in {"create", "review"} /\ session'[o].status = session[o].status
        \/ session'[o].pc = "report" /\ session'[o].status = "BLOCKED"
    BY ONLY <1>13, LookIs, TypeOK
  <2>4. QED
    BY <1>13, <2>1, <2>2, <2>3 DEF Look, Others
<1>14. ASSUME NEW o \in Session, OpenPr(o) PROVE HasTask'
  <2>1. session' \in [Session -> SessionState] /\ Others(o) /\ session[o].pc = "create"
    BY ONLY <1>14, OpenPrIs, TypeOK, HasTask DEF OpenPr, At
  <2>2. session'[o].task = session[o].task /\ session'[o].gen = session[o].gen /\ session'[o].status = session[o].status
    BY ONLY <1>14, OpenPrIs, TypeOK, HasTask
  <2>3. session'[o].pc \in {"build", "review"}
    BY ONLY <1>14, OpenPrIs, TypeOK, HasTask
  <2>4. QED
    BY <1>14, <2>1, <2>2, <2>3 DEF OpenPr, Others
<1>15. ASSUME NEW o \in Session, SeesMerged(o) PROVE HasTask'
  BY <1>15, DoneIs DEF SeesMerged, Others, Pc
<1>16. ASSUME NEW o \in Session, Escalates(o) PROVE HasTask'
  BY <1>16, BlockedIs DEF Escalates, Others, Pc
<1>17. ASSUME NEW o \in Session, Read(o) PROVE HasTask'
  BY <1>17, KeepsIs DEF Read, Others, Pc
<1>18. ASSUME NEW o \in Session, Record(o) PROVE HasTask'
  <2>1. /\ session' \in [Session -> SessionState] /\ Others(o) /\ session[o].status \in Status
        /\ session'[o].pc \in {"idle", "escalated"} /\ session'[o].status = "COMPLETE" /\ session'[o].gen = 0
        /\ lease'  = [t \in PlanTask |-> IF lease[t] = o THEN Nobody ELSE lease[t]]
        /\ asking' = [t \in PlanTask |-> IF asking[t] = o THEN Nobody ELSE asking[t]]
    BY ONLY <1>18, RecordIs, TypeOK
  <2>2. /\ session[o].pc = "advance" /\ session[o].gen = gen
        /\ gen' = gen + 1 /\ statuses' = [statuses EXCEPT ![session[o].task] = session[o].status]
        /\ UNCHANGED <<plan, clarified, base, branch, pulls, taken, crashes, bumps, commits>>
    BY <1>18 DEF Record, Advance
  <2>3. QED
    BY <2>1, <2>2 DEF Others
<1>19. ASSUME NEW o \in Session, RecordRefused(o) PROVE HasTask'
  BY <1>19, LeaveIs, RetriesIs DEF RecordRefused, Others, Pc
<1>20. ASSUME NEW o \in Session, Crash(o) PROVE HasTask'
  BY <1>20, LeaveIs DEF Crash, Others, Pc
<1>21. ASSUME Merge PROVE HasTask'
  BY <1>21 DEF Merge
<1>22. ASSUME Commit PROVE HasTask'
  BY <1>22 DEF Commit
<1>23. ASSUME NEW t \in PlanTask, NEW actor \in Peers, PeerPushes(t, actor) PROVE HasTask'
  BY <1>23 DEF PeerPushes
<1>24. ASSUME NEW t \in PlanTask, NEW actor \in Peers, PeerOpens(t, actor) PROVE HasTask'
  BY <1>24 DEF PeerOpens
<1>25. ASSUME Bump PROVE HasTask'
  BY <1>25 DEF Bump
<1>26. ASSUME UNCHANGED vars PROVE HasTask'
  BY <1>26 DEF vars
<1>27. QED
  BY <1>1, <1>2, <1>3, <1>4, <1>5, <1>6, <1>7, <1>8, <1>9, <1>10, <1>11, <1>12, <1>13, <1>14, <1>15, <1>16, <1>17, <1>18, <1>19, <1>20, <1>21, <1>22, <1>23, <1>24, <1>25, <1>26 DEF Next, Step

\* Nobody takes a lease that is held, and who gives it up has stopped working.
LEMMA HeldStep == TypeOK /\ HasTask /\ Held /\ [Next]_vars => Held'
<1> SUFFICES ASSUME TypeOK, HasTask, Held, [Next]_vars PROVE Held'
  OBVIOUS
<1>a. LocalType
  BY DEF LocalType, TypeOK
<1> USE <1>a, DispatchAssumption DEF LocalType, HasTask, Held, Working, At, Task, Current, store, leases, remote, bounds
<1>1. ASSUME NEW o \in Session, Select(o) PROVE Held'
  BY <1>1, SelectIs DEF Select, Others, Pc
<1>2. ASSUME NEW o \in Session, Resume(o) PROVE Held'
  BY <1>2, ResumeIs DEF Resume, Others, Pc
<1>3. ASSUME NEW o \in Session, TakeClarifyLease(o) PROVE Held'
  BY <1>3, GotoIs, BecomesIs, IdleIs DEF TakeClarifyLease, Others, Pc
<1>4. ASSUME NEW o \in Session, Recheck(o) PROVE Held'
  BY <1>4, KeepsIs, LeaveIs, IdleIs DEF Recheck, Others, Pc
<1>5. ASSUME NEW o \in Session, Answer(o) PROVE Held'
  BY <1>5, LeaveIs DEF Answer, Others, Pc
<1>6. ASSUME NEW o \in Session, AnswerRefused(o) PROVE Held'
  BY <1>6, LeaveIs, RetriesIs DEF AnswerRefused, Others, Pc
<1>7. ASSUME NEW o \in Session, Claim(o) PROVE Held'
  BY <1>7, GotoIs DEF Claim, Others, Pc, Advance
<1>8. ASSUME NEW o \in Session, ClaimRefused(o) PROVE Held'
  BY <1>8, BecomesIs, IdleIs, RetriesIs DEF ClaimRefused, Others, Pc
<1>9. ASSUME NEW o \in Session, TryAcquire(o) PROVE Held'
  BY <1>9, GotoIs, BecomesIs, IdleIs DEF TryAcquire, Others, Pc
<1>10. ASSUME NEW o \in Session, LeaseError(o) PROVE Held'
  BY <1>10, BecomesIs, IdleIs DEF LeaseError, Others, Pc
<1>11. ASSUME NEW o \in Session, Verify(o) PROVE Held'
  BY <1>11, ObservesIs, DoneIs, BlockedIs DEF Verify, Others, Pc
<1>12. ASSUME NEW o \in Session, Push(o) PROVE Held'
  BY <1>12, GotoIs, BlockedIs DEF Push, Others, Pc
<1>13. ASSUME NEW o \in Session, Look(o) PROVE Held'
  <2>1. session' \in [Session -> SessionState] /\ Others(o) /\ session[o].pc = "build"
    BY ONLY <1>13, LookIs, TypeOK DEF Look, At
  <2>2. session'[o].task = session[o].task /\ session'[o].gen = session[o].gen
    BY ONLY <1>13, LookIs, TypeOK
  <2>3. \/ session'[o].pc \in {"create", "review"} /\ session'[o].status = session[o].status
        \/ session'[o].pc = "report" /\ session'[o].status = "BLOCKED"
    BY ONLY <1>13, LookIs, TypeOK
  <2>4. QED
    BY <1>13, <2>1, <2>2, <2>3 DEF Look, Others
<1>14. ASSUME NEW o \in Session, OpenPr(o) PROVE Held'
  <2>1. session' \in [Session -> SessionState] /\ Others(o) /\ session[o].pc = "create"
    BY ONLY <1>14, OpenPrIs, TypeOK, HasTask DEF OpenPr, At
  <2>2. session'[o].task = session[o].task /\ session'[o].gen = session[o].gen /\ session'[o].status = session[o].status
    BY ONLY <1>14, OpenPrIs, TypeOK, HasTask
  <2>3. session'[o].pc \in {"build", "review"}
    BY ONLY <1>14, OpenPrIs, TypeOK, HasTask
  <2>4. QED
    BY <1>14, <2>1, <2>2, <2>3 DEF OpenPr, Others
<1>15. ASSUME NEW o \in Session, SeesMerged(o) PROVE Held'
  BY <1>15, DoneIs DEF SeesMerged, Others, Pc
<1>16. ASSUME NEW o \in Session, Escalates(o) PROVE Held'
  BY <1>16, BlockedIs DEF Escalates, Others, Pc
<1>17. ASSUME NEW o \in Session, Read(o) PROVE Held'
  BY <1>17, KeepsIs DEF Read, Others, Pc
<1>18. ASSUME NEW o \in Session, Record(o) PROVE Held'
  <2>1. /\ session' \in [Session -> SessionState] /\ Others(o) /\ session[o].status \in Status
        /\ session'[o].pc \in {"idle", "escalated"} /\ session'[o].status = "COMPLETE" /\ session'[o].gen = 0
        /\ lease'  = [t \in PlanTask |-> IF lease[t] = o THEN Nobody ELSE lease[t]]
        /\ asking' = [t \in PlanTask |-> IF asking[t] = o THEN Nobody ELSE asking[t]]
    BY ONLY <1>18, RecordIs, TypeOK
  <2>2. /\ session[o].pc = "advance" /\ session[o].gen = gen
        /\ gen' = gen + 1 /\ statuses' = [statuses EXCEPT ![session[o].task] = session[o].status]
        /\ UNCHANGED <<plan, clarified, base, branch, pulls, taken, crashes, bumps, commits>>
    BY <1>18 DEF Record, Advance
  <2>3. QED
    BY <2>1, <2>2 DEF Others
<1>19. ASSUME NEW o \in Session, RecordRefused(o) PROVE Held'
  BY <1>19, LeaveIs, RetriesIs DEF RecordRefused, Others, Pc
<1>20. ASSUME NEW o \in Session, Crash(o) PROVE Held'
  BY <1>20, LeaveIs DEF Crash, Others, Pc
<1>21. ASSUME Merge PROVE Held'
  BY <1>21 DEF Merge
<1>22. ASSUME Commit PROVE Held'
  BY <1>22 DEF Commit
<1>23. ASSUME NEW t \in PlanTask, NEW actor \in Peers, PeerPushes(t, actor) PROVE Held'
  BY <1>23 DEF PeerPushes
<1>24. ASSUME NEW t \in PlanTask, NEW actor \in Peers, PeerOpens(t, actor) PROVE Held'
  BY <1>24 DEF PeerOpens
<1>25. ASSUME Bump PROVE Held'
  BY <1>25 DEF Bump
<1>26. ASSUME UNCHANGED vars PROVE Held'
  BY <1>26 DEF vars
<1>27. QED
  BY <1>1, <1>2, <1>3, <1>4, <1>5, <1>6, <1>7, <1>8, <1>9, <1>10, <1>11, <1>12, <1>13, <1>14, <1>15, <1>16, <1>17, <1>18, <1>19, <1>20, <1>21, <1>22, <1>23, <1>24, <1>25, <1>26 DEF Next, Step

\* Every write of the checkpoint raises its generation, and a task is completed
\* only by the holder of its lease.
LEMMA StoreStep == TypeOK /\ HasTask /\ Held /\ KnowsStore /\ KnowsRemote /\ Recorded /\ [Next]_vars => KnowsStore'
<1> SUFFICES ASSUME TypeOK, HasTask, Held, KnowsStore, KnowsRemote, Recorded, [Next]_vars PROVE KnowsStore'
  OBVIOUS
<1>a. LocalType
  BY DEF LocalType, TypeOK
<1> USE <1>a, DispatchAssumption DEF LocalType, HasTask, Held, KnowsStore, KnowsRemote, Recorded, Working, Ready, At, Task, Current, store, leases, remote, bounds
<1>1. ASSUME NEW o \in Session, Select(o) PROVE KnowsStore'
  BY <1>1, SelectIs DEF Select, Others, Pc
<1>2. ASSUME NEW o \in Session, Resume(o) PROVE KnowsStore'
  BY <1>2, ResumeIs DEF Resume, Others, Pc
<1>3. ASSUME NEW o \in Session, TakeClarifyLease(o) PROVE KnowsStore'
  BY <1>3, GotoIs, BecomesIs, IdleIs DEF TakeClarifyLease, Others, Pc
<1>4. ASSUME NEW o \in Session, Recheck(o) PROVE KnowsStore'
  BY <1>4, KeepsIs, LeaveIs, IdleIs DEF Recheck, Others, Pc
<1>5. ASSUME NEW o \in Session, Answer(o) PROVE KnowsStore'
  BY <1>5, LeaveIs, GenType DEF Answer, Others, Pc
<1>6. ASSUME NEW o \in Session, AnswerRefused(o) PROVE KnowsStore'
  BY <1>6, LeaveIs, RetriesIs DEF AnswerRefused, Others, Pc
<1>7. ASSUME NEW o \in Session, Claim(o) PROVE KnowsStore'
  BY <1>7, GotoIs, GenType DEF Claim, Others, Pc, Advance
<1>8. ASSUME NEW o \in Session, ClaimRefused(o) PROVE KnowsStore'
  BY <1>8, BecomesIs, IdleIs, RetriesIs DEF ClaimRefused, Others, Pc
<1>9. ASSUME NEW o \in Session, TryAcquire(o) PROVE KnowsStore'
  BY <1>9, GotoIs, BecomesIs, IdleIs DEF TryAcquire, Others, Pc
<1>10. ASSUME NEW o \in Session, LeaseError(o) PROVE KnowsStore'
  BY <1>10, BecomesIs, IdleIs DEF LeaseError, Others, Pc
<1>11. ASSUME NEW o \in Session, Verify(o) PROVE KnowsStore'
  <2>1. Task(o) \notin MergedWork => statuses[Task(o)] # "COMPLETE"
    BY <1>11 DEF Verify
  <2>2. Task(o) \in PlanTask /\ (Merged(Task(o)) <=> Task(o) \in MergedWork)
    BY <1>11 DEF Verify, MergedWork
  <2>3. CASE Done(o)
    BY <1>11, <2>3, DoneIs DEF Verify, Others
  <2>4. CASE ~Merged(Task(o)) /\ Observes(o)
    BY <1>11, <2>1, <2>2, <2>4, ObservesIs DEF Verify, Others
  <2>5. CASE ~Merged(Task(o)) /\ Blocked(o)
    BY <1>11, <2>1, <2>2, <2>5, BlockedIs DEF Verify, Others
  <2>6. QED
    BY <1>11, <2>3, <2>4, <2>5 DEF Verify
<1>12. ASSUME NEW o \in Session, Push(o) PROVE KnowsStore'
  BY <1>12, GotoIs, BlockedIs DEF Push, Others, Pc
<1>13. ASSUME NEW o \in Session, Look(o) PROVE KnowsStore'
  <2>1. session' \in [Session -> SessionState] /\ Others(o) /\ session[o].pc = "build"
    BY ONLY <1>13, LookIs, TypeOK DEF Look, At
  <2>2. session'[o].task = session[o].task /\ session'[o].gen = session[o].gen
    BY ONLY <1>13, LookIs, TypeOK
  <2>3. \/ session'[o].pc \in {"create", "review"} /\ session'[o].status = session[o].status
        \/ session'[o].pc = "report" /\ session'[o].status = "BLOCKED"
    BY ONLY <1>13, LookIs, TypeOK
  <2>4. QED
    BY <1>13, <2>1, <2>2, <2>3 DEF Look, Others
<1>14. ASSUME NEW o \in Session, OpenPr(o) PROVE KnowsStore'
  <2>1. session' \in [Session -> SessionState] /\ Others(o) /\ session[o].pc = "create"
    BY ONLY <1>14, OpenPrIs, TypeOK, HasTask DEF OpenPr, At
  <2>2. session'[o].task = session[o].task /\ session'[o].gen = session[o].gen /\ session'[o].status = session[o].status
    BY ONLY <1>14, OpenPrIs, TypeOK, HasTask
  <2>3. session'[o].pc \in {"build", "review"}
    BY ONLY <1>14, OpenPrIs, TypeOK, HasTask
  <2>4. QED
    BY <1>14, <2>1, <2>2, <2>3 DEF OpenPr, Others
<1>15. ASSUME NEW o \in Session, SeesMerged(o) PROVE KnowsStore'
  BY <1>15, DoneIs DEF SeesMerged, Others, Pc
<1>16. ASSUME NEW o \in Session, Escalates(o) PROVE KnowsStore'
  BY <1>16, BlockedIs DEF Escalates, Others, Pc
<1>17. ASSUME NEW o \in Session, Read(o) PROVE KnowsStore'
  BY <1>17, KeepsIs DEF Read, Others, Pc
<1>18. ASSUME NEW o \in Session, Record(o) PROVE KnowsStore'
  <2>1. /\ session' \in [Session -> SessionState] /\ Others(o) /\ session[o].status \in Status
        /\ session'[o].pc \in {"idle", "escalated"} /\ session'[o].status = "COMPLETE" /\ session'[o].gen = 0
        /\ lease'  = [t \in PlanTask |-> IF lease[t] = o THEN Nobody ELSE lease[t]]
        /\ asking' = [t \in PlanTask |-> IF asking[t] = o THEN Nobody ELSE asking[t]]
    BY ONLY <1>18, RecordIs, TypeOK
  <2>2. /\ session[o].pc = "advance" /\ session[o].gen = gen
        /\ gen' = gen + 1 /\ statuses' = [statuses EXCEPT ![session[o].task] = session[o].status]
        /\ UNCHANGED <<plan, clarified, base, branch, pulls, taken, crashes, bumps, commits>>
    BY <1>18 DEF Record, Advance
  <2>3. /\ session[o].task \in PlanTask /\ statuses[session[o].task] # "PENDING"
        /\ session[o].status = "BLOCKED" => statuses[session[o].task] # "COMPLETE"
        /\ session[o].status \in {"COMPLETE", "BLOCKED"}
    BY <2>2 DEF SessionState
  <2>4. \A t \in PlanTask : /\ statuses[t] = "COMPLETE" => statuses'[t] = "COMPLETE"
                            /\ statuses[t] = "PENDING" <=> statuses'[t] = "PENDING"
    BY <2>2, <2>3
  <2>5. QED
    BY <2>1, <2>2, <2>3, <2>4, GenType DEF Others
<1>19. ASSUME NEW o \in Session, RecordRefused(o) PROVE KnowsStore'
  BY <1>19, LeaveIs, RetriesIs DEF RecordRefused, Others, Pc
<1>20. ASSUME NEW o \in Session, Crash(o) PROVE KnowsStore'
  BY <1>20, LeaveIs DEF Crash, Others, Pc
<1>21. ASSUME Merge PROVE KnowsStore'
  BY <1>21 DEF Merge
<1>22. ASSUME Commit PROVE KnowsStore'
  BY <1>22 DEF Commit
<1>23. ASSUME NEW t \in PlanTask, NEW actor \in Peers, PeerPushes(t, actor) PROVE KnowsStore'
  BY <1>23 DEF PeerPushes
<1>24. ASSUME NEW t \in PlanTask, NEW actor \in Peers, PeerOpens(t, actor) PROVE KnowsStore'
  BY <1>24 DEF PeerOpens
<1>25. ASSUME Bump PROVE KnowsStore'
  BY <1>25, GenType DEF Bump
<1>26. ASSUME UNCHANGED vars PROVE KnowsStore'
  BY <1>26 DEF vars
<1>27. QED
  BY <1>1, <1>2, <1>3, <1>4, <1>5, <1>6, <1>7, <1>8, <1>9, <1>10, <1>11, <1>12, <1>13, <1>14, <1>15, <1>16, <1>17, <1>18, <1>19, <1>20, <1>21, <1>22, <1>23, <1>24, <1>25, <1>26 DEF Next, Step

\* A session sees merged work before it records it, and merged work stays merged.
LEMMA RemoteStep == TypeOK /\ HasTask /\ KnowsRemote /\ KnowsPulls /\ [Next]_vars => KnowsRemote'
<1> SUFFICES ASSUME TypeOK, HasTask, KnowsRemote, KnowsPulls, [Next]_vars PROVE KnowsRemote'
  OBVIOUS
<1>0. MergedWork \subseteq MergedWork'
  BY MergedStays
<1>a. LocalType
  BY DEF LocalType, TypeOK
<1> USE <1>a, DispatchAssumption DEF LocalType, HasTask, KnowsRemote, Working, At, Task, Current, store, leases, remote, bounds
<1>1. ASSUME NEW o \in Session, Select(o) PROVE KnowsRemote'
  BY <1>1, SelectIs, <1>0 DEF Select, Others, Pc
<1>2. ASSUME NEW o \in Session, Resume(o) PROVE KnowsRemote'
  BY <1>2, ResumeIs, <1>0 DEF Resume, Others, Pc
<1>3. ASSUME NEW o \in Session, TakeClarifyLease(o) PROVE KnowsRemote'
  BY <1>3, GotoIs, BecomesIs, IdleIs, <1>0 DEF TakeClarifyLease, Others, Pc
<1>4. ASSUME NEW o \in Session, Recheck(o) PROVE KnowsRemote'
  BY <1>4, KeepsIs, LeaveIs, IdleIs, <1>0 DEF Recheck, Others, Pc
<1>5. ASSUME NEW o \in Session, Answer(o) PROVE KnowsRemote'
  BY <1>5, LeaveIs, <1>0 DEF Answer, Others, Pc
<1>6. ASSUME NEW o \in Session, AnswerRefused(o) PROVE KnowsRemote'
  BY <1>6, LeaveIs, RetriesIs, <1>0 DEF AnswerRefused, Others, Pc
<1>7. ASSUME NEW o \in Session, Claim(o) PROVE KnowsRemote'
  BY <1>7, GotoIs, <1>0 DEF Claim, Others, Pc, Advance
<1>8. ASSUME NEW o \in Session, ClaimRefused(o) PROVE KnowsRemote'
  BY <1>8, BecomesIs, IdleIs, RetriesIs, <1>0 DEF ClaimRefused, Others, Pc
<1>9. ASSUME NEW o \in Session, TryAcquire(o) PROVE KnowsRemote'
  BY <1>9, GotoIs, BecomesIs, IdleIs, <1>0 DEF TryAcquire, Others, Pc
<1>10. ASSUME NEW o \in Session, LeaseError(o) PROVE KnowsRemote'
  BY <1>10, BecomesIs, IdleIs, <1>0 DEF LeaseError, Others, Pc
<1>11. ASSUME NEW o \in Session, Verify(o) PROVE KnowsRemote'
  <2>1. Task(o) \in PlanTask /\ (Merged(Task(o)) <=> Task(o) \in MergedWork)
    BY <1>11 DEF Verify, MergedWork
  <2>2. CASE Merged(Task(o)) /\ Done(o)
    BY <1>11, <2>1, <2>2, <1>0, DoneIs DEF Verify, Others
  <2>3. CASE Observes(o)
    BY <1>11, <2>3, <1>0, ObservesIs DEF Verify, Others
  <2>4. CASE Blocked(o)
    BY <1>11, <2>4, <1>0, BlockedIs DEF Verify, Others
  <2>5. QED
    BY <1>11, <2>2, <2>3, <2>4 DEF Verify
<1>12. ASSUME NEW o \in Session, Push(o) PROVE KnowsRemote'
  BY <1>12, GotoIs, BlockedIs, <1>0 DEF Push, Others, Pc
<1>13. ASSUME NEW o \in Session, Look(o) PROVE KnowsRemote'
  <2>1. session' \in [Session -> SessionState] /\ Others(o) /\ session[o].pc = "build"
    BY ONLY <1>13, LookIs, TypeOK DEF Look, At
  <2>2. session'[o].task = session[o].task /\ session'[o].gen = session[o].gen
    BY ONLY <1>13, LookIs, TypeOK
  <2>3. \/ session'[o].pc \in {"create", "review"} /\ session'[o].status = session[o].status
        \/ session'[o].pc = "report" /\ session'[o].status = "BLOCKED"
    BY ONLY <1>13, LookIs, TypeOK
  <2>4. QED
    BY <1>0, <1>13, <2>1, <2>2, <2>3 DEF Look, Others
<1>14. ASSUME NEW o \in Session, OpenPr(o) PROVE KnowsRemote'
  <2>1. session' \in [Session -> SessionState] /\ Others(o) /\ session[o].pc = "create"
    BY ONLY <1>14, OpenPrIs, TypeOK, HasTask DEF OpenPr, At
  <2>2. session'[o].task = session[o].task /\ session'[o].gen = session[o].gen /\ session'[o].status = session[o].status
    BY ONLY <1>14, OpenPrIs, TypeOK, HasTask
  <2>3. session'[o].pc \in {"build", "review"}
    BY ONLY <1>14, OpenPrIs, TypeOK, HasTask
  <2>4. QED
    BY <1>14, <2>1, <2>2, <2>3, <1>0 DEF OpenPr, Others
<1>15. ASSUME NEW o \in Session, SeesMerged(o) PROVE KnowsRemote'
  <2>1. Task(o) \in MergedWork
    <3>1. Task(o) \in PlanTask /\ session[o].pull \in PullsOf(Task(o)) /\ pulls[session[o].pull].merged
      BY <1>15 DEF SeesMerged, KnowsPulls, Reviews, PullsOf
    <3>2. QED
      BY <3>1 DEF MergedWork, Merged
  <2>2. QED
    BY <1>15, <2>1, <1>0, DoneIs DEF SeesMerged, Others
<1>16. ASSUME NEW o \in Session, Escalates(o) PROVE KnowsRemote'
  BY <1>16, BlockedIs, <1>0 DEF Escalates, Others, Pc
<1>17. ASSUME NEW o \in Session, Read(o) PROVE KnowsRemote'
  BY <1>17, KeepsIs, <1>0 DEF Read, Others, Pc
<1>18. ASSUME NEW o \in Session, Record(o) PROVE KnowsRemote'
  <2>1. /\ session' \in [Session -> SessionState] /\ Others(o) /\ session[o].status \in Status
        /\ session'[o].pc \in {"idle", "escalated"} /\ session'[o].status = "COMPLETE" /\ session'[o].gen = 0
        /\ lease'  = [t \in PlanTask |-> IF lease[t] = o THEN Nobody ELSE lease[t]]
        /\ asking' = [t \in PlanTask |-> IF asking[t] = o THEN Nobody ELSE asking[t]]
    BY ONLY <1>18, RecordIs, TypeOK
  <2>2. /\ session[o].pc = "advance" /\ session[o].gen = gen
        /\ gen' = gen + 1 /\ statuses' = [statuses EXCEPT ![session[o].task] = session[o].status]
        /\ UNCHANGED <<plan, clarified, base, branch, pulls, taken, crashes, bumps, commits>>
    BY <1>18 DEF Record, Advance
  <2>3. QED
    BY <1>0, <2>1, <2>2 DEF Others
<1>19. ASSUME NEW o \in Session, RecordRefused(o) PROVE KnowsRemote'
  BY <1>19, LeaveIs, RetriesIs, <1>0 DEF RecordRefused, Others, Pc
<1>20. ASSUME NEW o \in Session, Crash(o) PROVE KnowsRemote'
  BY <1>20, LeaveIs, <1>0 DEF Crash, Others, Pc
<1>21. ASSUME Merge PROVE KnowsRemote'
  BY <1>21, <1>0 DEF Merge
<1>22. ASSUME Commit PROVE KnowsRemote'
  BY <1>22, <1>0 DEF Commit
<1>23. ASSUME NEW t \in PlanTask, NEW actor \in Peers, PeerPushes(t, actor) PROVE KnowsRemote'
  BY <1>23, <1>0 DEF PeerPushes
<1>24. ASSUME NEW t \in PlanTask, NEW actor \in Peers, PeerOpens(t, actor) PROVE KnowsRemote'
  BY <1>24, <1>0 DEF PeerOpens
<1>25. ASSUME Bump PROVE KnowsRemote'
  BY <1>25, <1>0 DEF Bump
<1>26. ASSUME UNCHANGED vars PROVE KnowsRemote'
  BY <1>26, <1>0 DEF vars
<1>27. QED
  BY <1>1, <1>2, <1>3, <1>4, <1>5, <1>6, <1>7, <1>8, <1>9, <1>10, <1>11, <1>12, <1>13, <1>14, <1>15, <1>16, <1>17, <1>18, <1>19, <1>20, <1>21, <1>22, <1>23, <1>24, <1>25, <1>26 DEF Next, Step

\* Only merged work is recorded as complete.
LEMMA RecordedStep == TypeOK /\ HasTask /\ KnowsRemote /\ Recorded /\ [Next]_vars => Recorded'
<1> SUFFICES ASSUME TypeOK, HasTask, KnowsRemote, Recorded, [Next]_vars PROVE Recorded'
  OBVIOUS
<1>0. MergedWork \subseteq MergedWork'
  BY MergedStays
<1>a. LocalType
  BY DEF LocalType, TypeOK
<1> USE <1>a, DispatchAssumption DEF LocalType, HasTask, KnowsRemote, Recorded, At, Task, Current, store, leases, remote, bounds
<1>1. ASSUME NEW o \in Session, Select(o) PROVE Recorded'
  BY <1>1, SelectIs, <1>0 DEF Select, Others, Pc
<1>2. ASSUME NEW o \in Session, Resume(o) PROVE Recorded'
  BY <1>2, ResumeIs, <1>0 DEF Resume, Others, Pc
<1>3. ASSUME NEW o \in Session, TakeClarifyLease(o) PROVE Recorded'
  BY <1>3, GotoIs, BecomesIs, IdleIs, <1>0 DEF TakeClarifyLease, Others, Pc
<1>4. ASSUME NEW o \in Session, Recheck(o) PROVE Recorded'
  BY <1>4, KeepsIs, LeaveIs, IdleIs, <1>0 DEF Recheck, Others, Pc
<1>5. ASSUME NEW o \in Session, Answer(o) PROVE Recorded'
  BY <1>5, LeaveIs, <1>0 DEF Answer, Others, Pc
<1>6. ASSUME NEW o \in Session, AnswerRefused(o) PROVE Recorded'
  BY <1>6, LeaveIs, RetriesIs, <1>0 DEF AnswerRefused, Others, Pc
<1>7. ASSUME NEW o \in Session, Claim(o) PROVE Recorded'
  BY <1>7, GotoIs, <1>0 DEF Claim, Others, Pc, Advance
<1>8. ASSUME NEW o \in Session, ClaimRefused(o) PROVE Recorded'
  BY <1>8, BecomesIs, IdleIs, RetriesIs, <1>0 DEF ClaimRefused, Others, Pc
<1>9. ASSUME NEW o \in Session, TryAcquire(o) PROVE Recorded'
  BY <1>9, GotoIs, BecomesIs, IdleIs, <1>0 DEF TryAcquire, Others, Pc
<1>10. ASSUME NEW o \in Session, LeaseError(o) PROVE Recorded'
  BY <1>10, BecomesIs, IdleIs, <1>0 DEF LeaseError, Others, Pc
<1>11. ASSUME NEW o \in Session, Verify(o) PROVE Recorded'
  BY <1>11, ObservesIs, DoneIs, BlockedIs, <1>0 DEF Verify, Others, Pc
<1>12. ASSUME NEW o \in Session, Push(o) PROVE Recorded'
  BY <1>12, GotoIs, BlockedIs, <1>0 DEF Push, Others, Pc
<1>13. ASSUME NEW o \in Session, Look(o) PROVE Recorded'
  <2>1. session' \in [Session -> SessionState] /\ Others(o) /\ session[o].pc = "build"
    BY ONLY <1>13, LookIs, TypeOK DEF Look, At
  <2>2. session'[o].task = session[o].task /\ session'[o].gen = session[o].gen
    BY ONLY <1>13, LookIs, TypeOK
  <2>3. \/ session'[o].pc \in {"create", "review"} /\ session'[o].status = session[o].status
        \/ session'[o].pc = "report" /\ session'[o].status = "BLOCKED"
    BY ONLY <1>13, LookIs, TypeOK
  <2>4. QED
    BY <1>0, <1>13, <2>1, <2>2, <2>3 DEF Look, Others
<1>14. ASSUME NEW o \in Session, OpenPr(o) PROVE Recorded'
  <2>1. session' \in [Session -> SessionState] /\ Others(o) /\ session[o].pc = "create"
    BY ONLY <1>14, OpenPrIs, TypeOK, HasTask DEF OpenPr, At
  <2>2. session'[o].task = session[o].task /\ session'[o].gen = session[o].gen /\ session'[o].status = session[o].status
    BY ONLY <1>14, OpenPrIs, TypeOK, HasTask
  <2>3. session'[o].pc \in {"build", "review"}
    BY ONLY <1>14, OpenPrIs, TypeOK, HasTask
  <2>4. QED
    BY <1>14, <2>1, <2>2, <2>3, <1>0 DEF OpenPr, Others
<1>15. ASSUME NEW o \in Session, SeesMerged(o) PROVE Recorded'
  BY <1>15, DoneIs, <1>0 DEF SeesMerged, Others, Pc
<1>16. ASSUME NEW o \in Session, Escalates(o) PROVE Recorded'
  BY <1>16, BlockedIs, <1>0 DEF Escalates, Others, Pc
<1>17. ASSUME NEW o \in Session, Read(o) PROVE Recorded'
  BY <1>17, KeepsIs, <1>0 DEF Read, Others, Pc
<1>18. ASSUME NEW o \in Session, Record(o) PROVE Recorded'
  <2>1. /\ session' \in [Session -> SessionState] /\ Others(o) /\ session[o].status \in Status
        /\ session'[o].pc \in {"idle", "escalated"} /\ session'[o].status = "COMPLETE" /\ session'[o].gen = 0
        /\ lease'  = [t \in PlanTask |-> IF lease[t] = o THEN Nobody ELSE lease[t]]
        /\ asking' = [t \in PlanTask |-> IF asking[t] = o THEN Nobody ELSE asking[t]]
    BY ONLY <1>18, RecordIs, TypeOK
  <2>2. /\ session[o].pc = "advance" /\ session[o].gen = gen
        /\ gen' = gen + 1 /\ statuses' = [statuses EXCEPT ![session[o].task] = session[o].status]
        /\ UNCHANGED <<plan, clarified, base, branch, pulls, taken, crashes, bumps, commits>>
    BY <1>18 DEF Record, Advance
  <2>3. QED
    BY <1>0, <2>1, <2>2 DEF Others
<1>19. ASSUME NEW o \in Session, RecordRefused(o) PROVE Recorded'
  BY <1>19, LeaveIs, RetriesIs, <1>0 DEF RecordRefused, Others, Pc
<1>20. ASSUME NEW o \in Session, Crash(o) PROVE Recorded'
  BY <1>20, LeaveIs, <1>0 DEF Crash, Others, Pc
<1>21. ASSUME Merge PROVE Recorded'
  BY <1>21, <1>0 DEF Merge
<1>22. ASSUME Commit PROVE Recorded'
  BY <1>22, <1>0 DEF Commit
<1>23. ASSUME NEW t \in PlanTask, NEW actor \in Peers, PeerPushes(t, actor) PROVE Recorded'
  BY <1>23, <1>0 DEF PeerPushes
<1>24. ASSUME NEW t \in PlanTask, NEW actor \in Peers, PeerOpens(t, actor) PROVE Recorded'
  BY <1>24, <1>0 DEF PeerOpens
<1>25. ASSUME Bump PROVE Recorded'
  BY <1>25, <1>0 DEF Bump
<1>26. ASSUME UNCHANGED vars PROVE Recorded'
  BY <1>26, <1>0 DEF vars
<1>27. QED
  BY <1>1, <1>2, <1>3, <1>4, <1>5, <1>6, <1>7, <1>8, <1>9, <1>10, <1>11, <1>12, <1>13, <1>14, <1>15, <1>16, <1>17, <1>18, <1>19, <1>20, <1>21, <1>22, <1>23, <1>24, <1>25, <1>26 DEF Next, Step

\* A task leaves the state PENDING only after its dependencies are complete.
LEMMA DepsStep == TypeOK /\ HasTask /\ KnowsStore /\ DepsDone /\ [Next]_vars => DepsDone'
<1> SUFFICES ASSUME TypeOK, HasTask, KnowsStore, DepsDone, [Next]_vars PROVE DepsDone'
  OBVIOUS
<1>a. LocalType
  BY DEF LocalType, TypeOK
<1> USE <1>a, DispatchAssumption DEF LocalType, HasTask, KnowsStore, DepsDone, Ready, Working, At, Task, Current, store, leases, remote, bounds
<1>1. ASSUME NEW o \in Session, Select(o) PROVE DepsDone'
  BY <1>1, SelectIs DEF Select, Others, Pc
<1>2. ASSUME NEW o \in Session, Resume(o) PROVE DepsDone'
  BY <1>2, ResumeIs DEF Resume, Others, Pc
<1>3. ASSUME NEW o \in Session, TakeClarifyLease(o) PROVE DepsDone'
  BY <1>3, GotoIs, BecomesIs, IdleIs DEF TakeClarifyLease, Others, Pc
<1>4. ASSUME NEW o \in Session, Recheck(o) PROVE DepsDone'
  BY <1>4, KeepsIs, LeaveIs, IdleIs DEF Recheck, Others, Pc
<1>5. ASSUME NEW o \in Session, Answer(o) PROVE DepsDone'
  BY <1>5, LeaveIs DEF Answer, Others, Pc
<1>6. ASSUME NEW o \in Session, AnswerRefused(o) PROVE DepsDone'
  BY <1>6, LeaveIs, RetriesIs DEF AnswerRefused, Others, Pc
<1>7. ASSUME NEW o \in Session, Claim(o) PROVE DepsDone'
  BY <1>7, GotoIs DEF Claim, Others, Pc, Advance
<1>8. ASSUME NEW o \in Session, ClaimRefused(o) PROVE DepsDone'
  BY <1>8, BecomesIs, IdleIs, RetriesIs DEF ClaimRefused, Others, Pc
<1>9. ASSUME NEW o \in Session, TryAcquire(o) PROVE DepsDone'
  BY <1>9, GotoIs, BecomesIs, IdleIs DEF TryAcquire, Others, Pc
<1>10. ASSUME NEW o \in Session, LeaseError(o) PROVE DepsDone'
  BY <1>10, BecomesIs, IdleIs DEF LeaseError, Others, Pc
<1>11. ASSUME NEW o \in Session, Verify(o) PROVE DepsDone'
  BY <1>11, ObservesIs, DoneIs, BlockedIs DEF Verify, Others, Pc
<1>12. ASSUME NEW o \in Session, Push(o) PROVE DepsDone'
  BY <1>12, GotoIs, BlockedIs DEF Push, Others, Pc
<1>13. ASSUME NEW o \in Session, Look(o) PROVE DepsDone'
  <2>1. session' \in [Session -> SessionState] /\ Others(o) /\ session[o].pc = "build"
    BY ONLY <1>13, LookIs, TypeOK DEF Look, At
  <2>2. session'[o].task = session[o].task /\ session'[o].gen = session[o].gen
    BY ONLY <1>13, LookIs, TypeOK
  <2>3. \/ session'[o].pc \in {"create", "review"} /\ session'[o].status = session[o].status
        \/ session'[o].pc = "report" /\ session'[o].status = "BLOCKED"
    BY ONLY <1>13, LookIs, TypeOK
  <2>4. QED
    BY <1>13, <2>1, <2>2, <2>3 DEF Look, Others
<1>14. ASSUME NEW o \in Session, OpenPr(o) PROVE DepsDone'
  <2>1. session' \in [Session -> SessionState] /\ Others(o) /\ session[o].pc = "create"
    BY ONLY <1>14, OpenPrIs, TypeOK, HasTask DEF OpenPr, At
  <2>2. session'[o].task = session[o].task /\ session'[o].gen = session[o].gen /\ session'[o].status = session[o].status
    BY ONLY <1>14, OpenPrIs, TypeOK, HasTask
  <2>3. session'[o].pc \in {"build", "review"}
    BY ONLY <1>14, OpenPrIs, TypeOK, HasTask
  <2>4. QED
    BY <1>14, <2>1, <2>2, <2>3 DEF OpenPr, Others
<1>15. ASSUME NEW o \in Session, SeesMerged(o) PROVE DepsDone'
  BY <1>15, DoneIs DEF SeesMerged, Others, Pc
<1>16. ASSUME NEW o \in Session, Escalates(o) PROVE DepsDone'
  BY <1>16, BlockedIs DEF Escalates, Others, Pc
<1>17. ASSUME NEW o \in Session, Read(o) PROVE DepsDone'
  BY <1>17, KeepsIs DEF Read, Others, Pc
<1>18. ASSUME NEW o \in Session, Record(o) PROVE DepsDone'
  <2>1. /\ session' \in [Session -> SessionState] /\ Others(o) /\ session[o].status \in Status
        /\ session'[o].pc \in {"idle", "escalated"} /\ session'[o].status = "COMPLETE" /\ session'[o].gen = 0
        /\ lease'  = [t \in PlanTask |-> IF lease[t] = o THEN Nobody ELSE lease[t]]
        /\ asking' = [t \in PlanTask |-> IF asking[t] = o THEN Nobody ELSE asking[t]]
    BY ONLY <1>18, RecordIs, TypeOK
  <2>2. /\ session[o].pc = "advance" /\ session[o].gen = gen
        /\ gen' = gen + 1 /\ statuses' = [statuses EXCEPT ![session[o].task] = session[o].status]
        /\ UNCHANGED <<plan, clarified, base, branch, pulls, taken, crashes, bumps, commits>>
    BY <1>18 DEF Record, Advance
  <2>3. /\ session[o].task \in PlanTask /\ statuses[session[o].task] # "PENDING"
        /\ session[o].status = "BLOCKED" => statuses[session[o].task] # "COMPLETE"
        /\ session[o].status \in {"COMPLETE", "BLOCKED"}
    BY <2>2 DEF SessionState
  <2>4. \A t \in PlanTask : /\ statuses[t] = "COMPLETE" => statuses'[t] = "COMPLETE"
                            /\ statuses[t] = "PENDING" <=> statuses'[t] = "PENDING"
    BY <2>2, <2>3
  <2>5. QED
    BY <2>1, <2>2, <2>3, <2>4 DEF Others
<1>19. ASSUME NEW o \in Session, RecordRefused(o) PROVE DepsDone'
  BY <1>19, LeaveIs, RetriesIs DEF RecordRefused, Others, Pc
<1>20. ASSUME NEW o \in Session, Crash(o) PROVE DepsDone'
  BY <1>20, LeaveIs DEF Crash, Others, Pc
<1>21. ASSUME Merge PROVE DepsDone'
  BY <1>21 DEF Merge
<1>22. ASSUME Commit PROVE DepsDone'
  BY <1>22 DEF Commit
<1>23. ASSUME NEW t \in PlanTask, NEW actor \in Peers, PeerPushes(t, actor) PROVE DepsDone'
  BY <1>23 DEF PeerPushes
<1>24. ASSUME NEW t \in PlanTask, NEW actor \in Peers, PeerOpens(t, actor) PROVE DepsDone'
  BY <1>24 DEF PeerOpens
<1>25. ASSUME Bump PROVE DepsDone'
  BY <1>25 DEF Bump
<1>26. ASSUME UNCHANGED vars PROVE DepsDone'
  BY <1>26 DEF vars
<1>27. QED
  BY <1>1, <1>2, <1>3, <1>4, <1>5, <1>6, <1>7, <1>8, <1>9, <1>10, <1>11, <1>12, <1>13, <1>14, <1>15, <1>16, <1>17, <1>18, <1>19, <1>20, <1>21, <1>22, <1>23, <1>24, <1>25, <1>26 DEF Next, Step

\* The other steps touch neither the pull requests nor what a session that
\* looks at them has seen.
Elsewhere ==
  /\ pulls' = pulls
  /\ \A q \in Session : session'[q] = session[q] \/ session'[q].pc \notin {"create", "review"}

LEMMA QuietSteps ==
  ASSUME TypeOK, HasTask, [Next]_vars, ~Merge,
         \A o \in Session : ~Look(o) /\ ~OpenPr(o),
         \A t \in PlanTask, actor \in Peers : ~PeerOpens(t, actor)
  PROVE  Elsewhere
<1> USE DEF HasTask, At, Task, Current, store, leases, remote, bounds, Elsewhere
<1>1. ASSUME NEW o \in Session, Select(o) PROVE Elsewhere
  BY <1>1, SelectIs DEF Select, Others, Pc
<1>2. ASSUME NEW o \in Session, Resume(o) PROVE Elsewhere
  BY <1>2, ResumeIs DEF Resume, Others, Pc
<1>3. ASSUME NEW o \in Session, TakeClarifyLease(o) PROVE Elsewhere
  BY <1>3, GotoIs, BecomesIs, IdleIs DEF TakeClarifyLease, Others, Pc
<1>4. ASSUME NEW o \in Session, Recheck(o) PROVE Elsewhere
  BY <1>4, KeepsIs, LeaveIs, IdleIs DEF Recheck, Others, Pc
<1>5. ASSUME NEW o \in Session, Answer(o) PROVE Elsewhere
  BY <1>5, LeaveIs DEF Answer, Others, Pc
<1>6. ASSUME NEW o \in Session, AnswerRefused(o) PROVE Elsewhere
  BY <1>6, LeaveIs, RetriesIs DEF AnswerRefused, Others, Pc
<1>7. ASSUME NEW o \in Session, Claim(o) PROVE Elsewhere
  BY <1>7, GotoIs DEF Claim, Others, Pc
<1>8. ASSUME NEW o \in Session, ClaimRefused(o) PROVE Elsewhere
  BY <1>8, BecomesIs, IdleIs, RetriesIs DEF ClaimRefused, Others, Pc
<1>9. ASSUME NEW o \in Session, TryAcquire(o) PROVE Elsewhere
  BY <1>9, GotoIs, BecomesIs, IdleIs DEF TryAcquire, Others, Pc
<1>10. ASSUME NEW o \in Session, LeaseError(o) PROVE Elsewhere
  BY <1>10, BecomesIs, IdleIs DEF LeaseError, Others, Pc
<1>11. ASSUME NEW o \in Session, Verify(o) PROVE Elsewhere
  BY <1>11, ObservesIs, DoneIs, BlockedIs DEF Verify, Others, Pc
<1>12. ASSUME NEW o \in Session, Push(o) PROVE Elsewhere
  BY <1>12, GotoIs, BlockedIs DEF Push, Others, Pc
<1>13. ASSUME NEW o \in Session, SeesMerged(o) PROVE Elsewhere
  BY <1>13, DoneIs DEF SeesMerged, Others, Pc
<1>14. ASSUME NEW o \in Session, Escalates(o) PROVE Elsewhere
  BY <1>14, BlockedIs DEF Escalates, Others, Pc
<1>15. ASSUME NEW o \in Session, Read(o) PROVE Elsewhere
  BY <1>15, KeepsIs DEF Read, Others, Pc
<1>16. ASSUME NEW o \in Session, Record(o) PROVE Elsewhere
  BY <1>16, RecordIs DEF Record, Others, Pc
<1>17. ASSUME NEW o \in Session, RecordRefused(o) PROVE Elsewhere
  BY <1>17, LeaveIs, RetriesIs DEF RecordRefused, Others, Pc
<1>18. ASSUME NEW o \in Session, Crash(o) PROVE Elsewhere
  BY <1>18, LeaveIs DEF Crash, Others, Pc
<1>19. ASSUME Commit PROVE Elsewhere
  BY <1>19 DEF Commit
<1>20. ASSUME NEW t \in PlanTask, NEW actor \in Peers, PeerPushes(t, actor) PROVE Elsewhere
  BY <1>20 DEF PeerPushes
<1>21. ASSUME Bump PROVE Elsewhere
  BY <1>21 DEF Bump
<1>22. ASSUME UNCHANGED vars PROVE Elsewhere
  BY <1>22 DEF vars
<1>23. QED
  BY <1>1, <1>2, <1>3, <1>4, <1>5, <1>6, <1>7, <1>8, <1>9, <1>10, <1>11, <1>12, <1>13, <1>14, <1>15, <1>16, <1>17, <1>18, <1>19, <1>20, <1>21, <1>22 DEF Next, Step

\* A session opens a pull request under the lease of its task, and only if it
\* saw none; so the others that hold one of the same task are none of this machine.
LEMMA PullsStep ==
  TypeOK /\ HasTask /\ Held /\ KnowsPulls /\ NoSecondPr /\ [Next]_vars => KnowsPulls' /\ NoSecondPr'
<1> SUFFICES ASSUME TypeOK, HasTask, Held, KnowsPulls, NoSecondPr, [Next]_vars PROVE KnowsPulls' /\ NoSecondPr'
  OBVIOUS
<1> USE DEF At, Task
<1>1. /\ pulls \in Seq(PullRequest) /\ Len(pulls) \in Nat /\ DOMAIN pulls = 1 .. Len(pulls)
      /\ session \in [Session -> SessionState] /\ \A q \in Session : session[q].pull \in Nat
  BY DEF TypeOK, SessionState
<1>2. CASE Elsewhere
  <2>1. NoSecondPr'
    BY <1>2 DEF Elsewhere, NoSecondPr, PullsOf
  <2>2. ASSUME NEW q \in Session PROVE /\ session'[q].pc = "review" => Reviews(q)'
                                       /\ session'[q].pc = "create" => Looked(q)'
    BY <1>2, <2>2 DEF Elsewhere, KnowsPulls, Reviews, Looked
  <2>3. QED
    BY <2>1, <2>2 DEF KnowsPulls
<1>3. ASSUME NEW o \in Session, Look(o) PROVE KnowsPulls' /\ NoSecondPr'
  <2>1. pulls' = pulls /\ Others(o) /\ session'[o].task = session[o].task
    BY <1>3, LookIs DEF Look, remote
  <2>2. NoSecondPr'
    BY <2>1 DEF NoSecondPr, PullsOf
  <2>3. session'[o].pc = "review" => session'[o].pull \in PullsOf(session[o].task)
    BY <1>3, LookIs
  <2>4. session'[o].pc = "create" => session'[o].pull = Len(pulls) /\ PullsOf(session[o].task) = {}
    BY <1>3, LookIs
  <2>5. session'[o].pc = "review" => Reviews(o)'
    BY <2>1, <2>3 DEF Reviews, PullsOf
  <2>6. session'[o].pc = "create" => Looked(o)'
    BY <1>1, <2>1, <2>4 DEF Looked, PullsOf
  <2>7. ASSUME NEW q \in Session \ {o} PROVE /\ session'[q].pc = "review" => Reviews(q)'
                                             /\ session'[q].pc = "create" => Looked(q)'
    BY <2>1, <2>7 DEF Others, KnowsPulls, Reviews, Looked
  <2>8. QED
    BY <2>2, <2>5, <2>6, <2>7 DEF KnowsPulls
<1>4. ASSUME NEW o \in Session, OpenPr(o) PROVE KnowsPulls' /\ NoSecondPr'
  <2>1. /\ Others(o) /\ session'[o].task = session[o].task /\ session[o].task \in PlanTask
        /\ session'[o].pc # "create" /\ session[o].pc = "create"
    BY <1>4, OpenPrIs DEF OpenPr
  <2>2. CASE session'[o].pc = "build" /\ pulls' = pulls
    <3>1. NoSecondPr'
      BY <2>2 DEF NoSecondPr, PullsOf
    <3>2. ASSUME NEW q \in Session PROVE /\ session'[q].pc = "review" => Reviews(q)'
                                         /\ session'[q].pc = "create" => Looked(q)'
      BY <2>1, <2>2, <3>2 DEF Others, KnowsPulls, Reviews, Looked
    <3>3. QED
      BY <3>1, <3>2 DEF KnowsPulls
  <2>3. CASE /\ session'[o].pc = "review" /\ session'[o].pull = Len(pulls) + 1
             /\ pulls' \in Seq(PullRequest) /\ Len(pulls') = Len(pulls) + 1
             /\ \A i \in DOMAIN pulls : pulls'[i] = pulls[i]
             /\ pulls'[Len(pulls) + 1] = [task |-> session[o].task, base |-> session[o].base,
                                          merged |-> FALSE, ours |-> TRUE, after |-> session[o].pull]
    <3>1. DOMAIN pulls' = DOMAIN pulls \cup {Len(pulls) + 1}
      BY <1>1, <2>3
    <3>2. /\ pulls'[Len(pulls) + 1].task = session[o].task /\ pulls'[Len(pulls) + 1].ours
          /\ pulls'[Len(pulls) + 1].after = session[o].pull
      BY <2>3
    <3>3. Looked(o)
      BY <2>1 DEF KnowsPulls
    <3>4. NoSecondPr'
      <4> SUFFICES ASSUME NEW j \in DOMAIN pulls', pulls'[j].ours, NEW i \in DOMAIN pulls',
                          pulls'[i].task = pulls'[j].task, i < j
                   PROVE  ~pulls'[i].ours /\ i > pulls'[j].after
        BY DEF NoSecondPr, PullsOf
      <4>1. i \in DOMAIN pulls /\ pulls'[i] = pulls[i]
        BY <1>1, <2>3, <3>1
      <4>2. CASE j \in DOMAIN pulls
        BY <2>3, <4>1, <4>2 DEF NoSecondPr, PullsOf
      <4>3. CASE j = Len(pulls) + 1
        BY <3>2, <3>3, <4>1, <4>3 DEF Looked
      <4>4. QED
        BY <3>1, <4>2, <4>3
    <3>5. Reviews(o)'
      BY <2>1, <2>3, <3>1, <3>2 DEF Reviews
    <3>6. ASSUME NEW q \in Session \ {o}, session'[q].pc = "review" PROVE Reviews(q)'
      BY <2>1, <2>3, <3>1, <3>6 DEF Others, KnowsPulls, Reviews
    <3>7. ASSUME NEW q \in Session \ {o}, session'[q].pc = "create" PROVE Looked(q)'
      <4>1. session'[q] = session[q] /\ Looked(q)
        BY <2>1, <3>7 DEF Others, KnowsPulls
      <4>2. session[q].task # session[o].task
        BY <2>1, <3>7, <4>1 DEF Held, Working
      <4>3. session[q].pull <= Len(pulls')
        BY <1>1, <2>3, <4>1 DEF Looked
      <4>4. \A i \in DOMAIN pulls' : pulls'[i].task = session[q].task => i > session[q].pull /\ ~pulls'[i].ours
        BY <2>3, <3>1, <3>2, <4>1, <4>2 DEF Looked
      <4>5. QED
        BY <4>1, <4>3, <4>4 DEF Looked
    <3>8. QED
      BY <2>1, <2>3, <3>4, <3>5, <3>6, <3>7 DEF KnowsPulls
  <2>4. QED
    BY <1>4, <2>2, <2>3, OpenPrIs
<1>5. ASSUME Merge PROVE KnowsPulls' /\ NoSecondPr'
  <2>1. /\ session' = session /\ pulls' \in Seq(PullRequest) /\ Len(pulls') = Len(pulls)
        /\ \A i \in DOMAIN pulls : /\ pulls'[i].task = pulls[i].task /\ pulls'[i].ours = pulls[i].ours
                                   /\ pulls'[i].after = pulls[i].after
    BY <1>5, MergeIs DEF Merge
  <2>2. DOMAIN pulls' = DOMAIN pulls
    BY <1>1, <2>1
  <2>3. NoSecondPr'
    BY <2>1, <2>2 DEF NoSecondPr, PullsOf
  <2>4. ASSUME NEW q \in Session PROVE /\ session'[q].pc = "review" => Reviews(q)'
                                       /\ session'[q].pc = "create" => Looked(q)'
    BY <2>1, <2>2, <2>4 DEF KnowsPulls, Reviews, Looked
  <2>5. QED
    BY <2>3, <2>4 DEF KnowsPulls
<1>6. ASSUME NEW t \in PlanTask, NEW actor \in Peers, PeerOpens(t, actor) PROVE KnowsPulls' /\ NoSecondPr'
  <2>1. PICK r \in Revision : Opens(t, r, FALSE, 0)
    BY <1>6 DEF PeerOpens
  <2>2. /\ session' = session /\ pulls' \in Seq(PullRequest) /\ Len(pulls') = Len(pulls) + 1
        /\ \A i \in DOMAIN pulls : pulls'[i] = pulls[i]
        /\ ~pulls'[Len(pulls) + 1].ours
    <3>1. session' = session
      BY <1>6 DEF PeerOpens
    <3>2. /\ pulls' \in Seq(PullRequest) /\ Len(pulls') = Len(pulls) + 1
          /\ \A i \in DOMAIN pulls : pulls'[i] = pulls[i]
          /\ pulls'[Len(pulls) + 1] = [task |-> t, base |-> r, merged |-> FALSE, ours |-> FALSE, after |-> 0]
      BY ONLY <2>1, TypeOK, t \in PlanTask, r \in Revision, OpensIs
    <3>3. QED
      BY <3>1, <3>2
  <2>3. DOMAIN pulls' = DOMAIN pulls \cup {Len(pulls) + 1}
    BY <1>1, <2>2
  <2>4. NoSecondPr'
    <3> SUFFICES ASSUME NEW j \in DOMAIN pulls', pulls'[j].ours, NEW i \in DOMAIN pulls',
                        pulls'[i].task = pulls'[j].task, i < j
                 PROVE  ~pulls'[i].ours /\ i > pulls'[j].after
      BY DEF NoSecondPr, PullsOf
    <3>1. j \in DOMAIN pulls
      BY <2>2, <2>3
    <3>2. i \in DOMAIN pulls
      BY <1>1, <2>3, <3>1
    <3>3. QED
      BY <2>2, <3>1, <3>2 DEF NoSecondPr, PullsOf
  <2>5. ASSUME NEW q \in Session, session[q].pc = "review" PROVE Reviews(q)'
    BY <2>2, <2>3, <2>5 DEF KnowsPulls, Reviews
  <2>6. ASSUME NEW q \in Session, session[q].pc = "create" PROVE Looked(q)'
    <3>1. Looked(q) /\ session[q].pull < Len(pulls) + 1
      BY <1>1, <2>6 DEF KnowsPulls, Looked
    <3>2. QED
      BY <1>1, <2>2, <2>3, <3>1 DEF Looked
  <2>7. QED
    BY <2>2, <2>4, <2>5, <2>6 DEF KnowsPulls
<1>7. QED
  BY <1>2, <1>3, <1>4, <1>5, <1>6, QuietSteps

-----------------------------------------------------------------------------
(* The theorems.                                                           *)

LEMMA InitInv == Init => IInv
<1> SUFFICES ASSUME Init PROVE IInv
  OBVIOUS
<1>1. TypeOK
  BY DispatchAssumption, IdleIs DEF Init, TypeOK, Status, Revision, Branch, NoBranch
<1>2. HasTask /\ Held /\ KnowsStore /\ KnowsRemote /\ KnowsPulls
  BY IdleIs DEF Init, HasTask, Held, KnowsStore, KnowsRemote, KnowsPulls, Working, At, Current
<1>3. Recorded /\ DepsDone /\ NoSecondPr
  BY DEF Init, Recorded, DepsDone, NoSecondPr
<1>4. QED
  BY <1>1, <1>2, <1>3 DEF IInv

\* IInv is inductive.
LEMMA Invariance == Spec => []IInv
<1>1. IInv /\ [Next]_vars => IInv'
  BY TypeStep, TaskStep, HeldStep, StoreStep, RemoteStep, PullsStep, RecordedStep, DepsStep DEF IInv
<1>2. QED
  BY InitInv, <1>1, PTL DEF Spec

\* The variables keep their types.
THEOREM TypeCorrect == Spec => []TypeOK
<1>1. IInv => TypeOK
  BY DEF IInv
<1>2. QED
  BY <1>1, Invariance, PTL

\* The lease excludes a second Builder and a second interview, however many
\* orchestrators there are and however stale what they read.
THEOREM OneWorkerEver == Spec => []OneWorker
<1>1. IInv => OneBuilder
  BY DEF IInv, Held, OneBuilder, Building, Working, Task
<1>2. IInv => OneInterview
  BY DEF IInv, Held, KnowsStore, OneInterview, At, Task
<1>3. QED
  BY <1>1, <1>2, Invariance, PTL DEF OneWorker

\* A Builder's task left PENDING after its dependencies were recorded as
\* complete, which only merged work is.
THEOREM BuildsOnMergedWork == Spec => []DependenciesMerged
<1>1. IInv => DependenciesMerged
  <2> SUFFICES ASSUME IInv, NEW o \in Session, Building(o), NEW d \in plan.deps[Task(o)]
               PROVE  d \in PlanTask /\ Merged(d)
    BY DEF DependenciesMerged
  <2>1. Task(o) \in PlanTask /\ statuses[Task(o)] # "PENDING"
    BY DEF IInv, HasTask, KnowsStore, Building, Working, Task
  <2>2. Ready(Task(o))
    BY <2>1 DEF IInv, DepsDone
  <2>3. QED
    BY <2>2 DEF IInv, Recorded, Ready, MergedWork
<1>2. QED
  BY <1>1, Invariance, PTL

\* The lease lets one session of the machine look and open, and it opens none
\* beside a pull request that was there when it looked.
THEOREM OnePullRequest == Spec => []NoSecondPr
<1>1. IInv => NoSecondPr
  BY DEF IInv
<1>2. QED
  BY <1>1, Invariance, PTL

\* Nobody writes a status over COMPLETE: a claim is written only while its
\* task is pending, and a block only under the lease of an incomplete task.
THEOREM CompletedTasksStay == Spec => CompleteStays
<1>1. ASSUME IInv, NEW o \in Session, Step(o) \/ Crash(o) \/ LeaseError(o),
             NEW t \in PlanTask, statuses[t] = "COMPLETE"
      PROVE  statuses'[t] = "COMPLETE"
  <2>1. CASE Claim(o)
    BY <1>1, <2>1 DEF IInv, KnowsStore, TypeOK, HasTask, Claim, Advance, At, Current, Task
  <2>2. CASE Record(o)
    <3>1. Task(o) \in PlanTask /\ session[o].status \in {"COMPLETE", "BLOCKED"}
      BY <1>1, <2>2 DEF IInv, HasTask, TypeOK, SessionState, Record, At, Task
    <3>2. session[o].status = "BLOCKED" => statuses[Task(o)] # "COMPLETE"
      BY <1>1, <2>2 DEF IInv, KnowsStore, Record, At, Task
    <3>3. statuses' = [statuses EXCEPT ![Task(o)] = session[o].status]
      BY <2>2 DEF Record, Advance
    <3>4. QED
      BY <1>1, <3>1, <3>2, <3>3 DEF IInv, TypeOK
  <2>3. CASE ~Claim(o) /\ ~Record(o)
    <3>1. UNCHANGED statuses
      BY <1>1, <2>3 DEF Step, Select, Resume, TakeClarifyLease, Recheck, Answer, AnswerRefused, ClaimRefused,
         TryAcquire, LeaseError, Verify, Push, Look, OpenPr, SeesMerged, Escalates, Read, RecordRefused, Crash, store
    <3>2. QED
      BY <1>1, <3>1
  <2>4. QED
    BY <2>1, <2>2, <2>3
<1>2. ASSUME IInv, [Next]_vars, NEW t \in PlanTask, statuses[t] = "COMPLETE"
      PROVE  statuses'[t] = "COMPLETE"
  <2>1. CASE Merge \/ Commit \/ \E u \in PlanTask, actor \in Peers : PeerPushes(u, actor) \/ PeerOpens(u, actor)
    BY <1>2, <2>1 DEF Merge, Commit, PeerPushes, PeerOpens, store
  <2>2. CASE Bump \/ UNCHANGED vars
    BY <1>2, <2>2 DEF Bump, vars, store
  <2>3. QED
    BY <1>1, <1>2, <2>1, <2>2 DEF Next
<1>3. IInv /\ [Next]_vars => [\A t \in PlanTask : statuses[t] = "COMPLETE" => statuses'[t] = "COMPLETE"]_vars
  BY <1>2
<1>4. QED
  BY <1>3, Invariance, PTL DEF Spec, CompleteStays

=============================================================================
