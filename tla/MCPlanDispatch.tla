--------------------------- MODULE MCPlanDispatch ---------------------------
(***************************************************************************)
(* Finite instances of PlanDispatch.  Three tasks: a plan that fans out,   *)
(* one that joins, and one that validate_implementation_plan refuses.  Two *)
(* tasks: one after the other.                                             *)
(***************************************************************************)
EXTENDS PlanDispatch, TLC

CONSTANTS T1, T2, T3

ThreeTasks == {T1, T2, T3}
TwoTasks   == {T1, T2}

Shape(ready, deps, waves) == [ready |-> ready, deps |-> deps, waves |-> waves]
Deps(a, b, c) == (T1 :> a) @@ (T2 :> b) @@ (T3 :> c)

ThreeTaskPlans ==
  {Shape(TRUE, Deps({}, {T1}, {T1}), <<<<T1>>, <<T2, T3>>>>),
   Shape(TRUE, Deps({}, {}, {T1, T2}), <<<<T2, T1>>, <<T3>>>>),
   Shape(TRUE, Deps({}, {Ghost}, {T2}), <<<<T1>>, <<T2>>, <<T3>>>>)}

TwoTaskPlans == {Shape(TRUE, (T1 :> {}) @@ (T2 :> {T1}), <<<<T1>>, <<T2>>>>)}
=============================================================================
