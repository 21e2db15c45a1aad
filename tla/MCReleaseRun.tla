------------------------------ MODULE MCReleaseRun ------------------------------
(* Small instances of ReleaseRun for TLC.                                  *)
EXTENDS ReleaseRun, TLC

CONSTANTS r1, r2, d1, prod, staging, u1, u2

BuiltFrom == (d1 :> r1)

\* At most one thing is wrong, with r1 of u1 in prod: for a specialist that an
\* impact report may let go, for a code review that coverage may stand in for,
\* or for the recovery of the service.
Flaw(d)    == [dim |-> d, unit |-> u1, rev |-> r1, env |-> prod]
SmallFlaws == {{}} \cup {{Flaw(d)} : d \in {"specialist", "review", "recovery"}}

\* A merge request, and candidates with every kind of reference; a release can
\* reuse a report about the second and the last.
Target(mr, env, rev, head, tier) == [mr |-> mr, unit |-> u1, env |-> env, rev |-> rev, head |-> head, tier |-> tier]
SmallTargets == {
  Target(TRUE, prod, None, None, "tier0"),
  Target(FALSE, prod, None, r1, "unknown"),
  Target(FALSE, prod, r2, d1, "tier3"),
  Target(FALSE, prod, r1, Tag, "tier1"),
  Target(FALSE, prod, r1, d1, "tier3")}

E(unit, env, ref, rev, pin) == [unit |-> unit, env |-> env, ref |-> ref, rev |-> rev, required |-> TRUE, pin |-> pin]
SmallManifests == {
  << >>,
  <<E(u1, prod, r1, None, 3)>>,
  <<E(u1, prod, Tag, r1, None)>>,
  <<E(u1, staging, r1, None, None)>>,
  <<E(None, prod, Tag, Text, None)>>,
  <<E(u2, prod, d1, r1, None), E(u1, prod, d1, r1, None)>>,
  <<[E(u1, prod, Tag, None, None) EXCEPT !.required = FALSE], E(u1, prod, r1, r1, None)>>}

Bundle(unit, complete) == [unit |-> unit, says |-> "PASS", rev |-> r1, head |-> None, env |-> None,
                           by |-> {"host"}, complete |-> complete, trusted |-> TRUE]
SmallBundles == {Bundle(u1, TRUE), Bundle(u2, TRUE), Bundle(u1, FALSE)}

SmallOutcomes == {{"READY"}, {"READY", "CONDITIONAL"}, {"UNKNOWN"}, {"UNKNOWN", "NOT_READY"}}

R(verdict, acquired) == [unit |-> u1, env |-> prod, head |-> r1, rev |-> r1, verdict |-> verdict, acquired |-> acquired,
                         about |-> None, fresh |-> FALSE, gaps |-> {}, partial |-> FALSE]
SmallEarlier == <<R("READY", "caller"), R("CONDITIONAL", "runtime")>>
=============================================================================
