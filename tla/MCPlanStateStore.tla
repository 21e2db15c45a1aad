-------------------------- MODULE MCPlanStateStore --------------------------
(***************************************************************************)
(* Finite instances of PlanStateStore.  The calls are a few templates, one *)
(* per way a cas_advance can differ, made at the generations that a caller *)
(* may expect: those that are stale, or guessed, are among them.           *)
(***************************************************************************)
EXTENDS PlanStateStore, TLC

CONSTANTS plan, replan, sketch, t1, t2, c1, c2, r1, r2, r3, e1, e2, h1, h2, why,
          MaxGeneration  \* callers expect generations below this one

\* A call that records nothing, with the given statuses of t1 and t2.
Plain(n, s1, s2) ==
  [plan           |-> plan,
   expected       |-> n,
   official       |-> (t1 :> s1) @@ (t2 :> s2),
   head           |-> h1,
   stamped        |-> TRUE,
   refs           |-> {},
   reason         |-> None,
   clarifications |-> (t1 :> None) @@ (t2 :> None),
   threads        |-> [t \in {t1, t2} |-> (c1 :> None) @@ (c2 :> None)],
   attempts       |-> (t1 :> None) @@ (t2 :> None)]

Building(n)   == [Plain(n, "BUILDING", "NOT_STARTED") EXCEPT
                    !.refs = {r1}, !.clarifications[t1] = e1]
FirstThread(n)  == [Plain(n, "REVIEWING", "NOT_STARTED") EXCEPT
                      !.threads[t1][c1] = e1, !.refs = {r2}]
SecondThread(n) == [Plain(n, "REVIEWING", "NOT_STARTED") EXCEPT
                      !.threads[t1][c2] = e2, !.refs = {r1}, !.attempts[t1] = e1]
Escalated(n)  == [Plain(n, "ESCALATED", "NOT_STARTED") EXCEPT
                    !.reason = why, !.refs = {r1, r3}]
TwoActive(n)  == Plain(n, "BUILDING", "VALIDATING")
BadEntry(n)   == [Plain(n, "READY", "NOT_STARTED") EXCEPT !.attempts[t1] = Garbage]
Uncovered(n)  == Plain(n, "COMPLETE", None)
OtherPlan(n)  == [Plain(n, "COMPLETE", "NOT_STARTED") EXCEPT !.plan = replan]
Unready(n)    == [Building(n) EXCEPT !.plan = sketch]
NewHead(n)    == [Building(n) EXCEPT !.head = h2]
NoHead(n)     == [Building(n) EXCEPT !.head = None]
Unstamped(n)  == [Building(n) EXCEPT !.stamped = FALSE]

Generations == 0 .. MaxGeneration - 1

\* Every kind of call: those that are refused, whatever the checkpoint holds or
\* for its content, and those that race from one generation, of which the last
\* two write two threads of one task, as the first may have before them.
EveryField ==
  LET last == MaxGeneration - 1
  IN  {OtherPlan(last), Unready(0), Uncovered(0), NewHead(last), NoHead(last), TwoActive(last), BadEntry(last)} \cup
      {Building(0), FirstThread(0), Escalated(last), FirstThread(last), SecondThread(last)}

\* Two well-formed callers that saw different heads of the branch.
TwoHeads == UNION {{Building(n), NewHead(n)} : n \in Generations}

\* Well-formed callers, one of which passes an empty updated_at.
EmptyStamp == UNION {{Building(n), Unstamped(n)} : n \in Generations}
=============================================================================
