----------------------------- MODULE ReadinessGates -----------------------------
(***************************************************************************)
(* scripts/production_readiness.py: the gates of a production-readiness    *)
(* review.  Each takes a piece of evidence about one dimension and the     *)
(* candidate it should be about, and answers a status; the statuses of all *)
(* dimensions make the verdict.  Nothing here has a state.                 *)
(*                                                                         *)
(* A candidate declares an environment, a source revision and a deployable *)
(* (head), any of which may be missing; mr says that it is a merge         *)
(* request.  Evidence is a record of what it says, of which unit, revision,*)
(* head and environment, by whose authority, whether it has every field    *)
(* that its gate asks for, and whether its producer is trusted.  No gate   *)
(* looks at the unit.                                                      *)
(***************************************************************************)
CONSTANT None  \* a field that is not declared

Status    == {"PASS", "CONDITIONAL", "FAIL", "UNKNOWN", "NOT_APPLICABLE"}
Verdict   == {"READY", "CONDITIONAL", "UNKNOWN", "NOT_READY"}
Authority == {"caller", "repository", "host"}
Tier      == {"tier0", "tier1", "tier2", "tier3", "unknown"}

-----------------------------------------------------------------------------
(* Authority, identity and environment.                                    *)

\* _minimum_authority_met, _is_strong_authority: every source is strong.
Backed(by) == by # {} /\ by \subseteq {"repository", "host"}
Strong(e)  == Backed(e.by)

\* is_host_or_runtime_acquisition: a repository file does not do.
HostRead(e) == e.by = {"host"}

\* An unknown tier is as strict as the highest.
Strict(tier) == tier \notin {"tier2", "tier3"}

\* What evidence that has everything is worth, and what a bad finding is.
Worth(e, tier) == IF Strong(e) THEN "PASS" ELSE IF Strict(tier) THEN "UNKNOWN" ELSE "CONDITIONAL"
BadNews(e)     == IF Strong(e) THEN "FAIL" ELSE "UNKNOWN"

RevOf(x)  == IF x.rev = None THEN x.head ELSE x.rev
HeadOf(x) == IF x.head = None THEN RevOf(x) ELSE x.head

Mismatch(e, c)    == RevOf(c) = None \/ RevOf(e) # RevOf(c) \/ HeadOf(e) # HeadOf(c)
EnvConflict(e, c) == e.env # None /\ c.env # None /\ e.env # c.env

-----------------------------------------------------------------------------
(* Results of child reviews.                                               *)

\* Mutant: the authorities behind a child's result are not looked at.
ChildAtItsWord(e, c) ==
  IF Mismatch(e, c) \/ EnvConflict(e, c) \/ ~e.trusted THEN "UNKNOWN" ELSE e.says

\* accept_child_result.
Child(e, c) ==
  IF Mismatch(e, c) \/ EnvConflict(e, c) \/ ~e.trusted THEN "UNKNOWN"
  ELSE IF e.says \in {"PASS", "CONDITIONAL", "NOT_APPLICABLE"} /\ ~Strong(e) THEN "UNKNOWN"
  ELSE e.says

\* match_dimension_evidence, for the dimensions that depend on the environment.
Sensitive(e, c) == IF None \in {e.env, c.env} \/ e.env # c.env THEN "UNKNOWN" ELSE Child(e, c)

\* resolve_prerequisite: a supplied report that is not stale and settles the
\* matter is used; otherwise a fresh one is asked for, if it can be, and used
\* whatever it covers.
Prerequisite(supplied, fresh, c) ==
  IF supplied # None /\ supplied.complete /\ Child(supplied, c) # "UNKNOWN" THEN Child(supplied, c)
  ELSE IF fresh # None THEN Child(fresh, c) ELSE "UNKNOWN"

-----------------------------------------------------------------------------
(* The foundations: CI, review coverage, provenance and SCM policy.        *)

Ci(e, c) == IF RevOf(c) = None \/ e.rev # RevOf(c) \/ ~HostRead(e) THEN "UNKNOWN" ELSE e.says

Coverage(e, c) ==
  IF RevOf(c) # None /\ e.rev = RevOf(c) /\ e.complete /\ e.says = "PASS" /\ HostRead(e)
  THEN "PASS" ELSE "UNKNOWN"

\* The deployable that provenance has to lead to.
Deployable(e, c) ==
  IF c.head # None THEN c.head
  ELSE IF e.head # None THEN e.head
  ELSE IF c.mr THEN RevOf(c) ELSE None

\* validate_build_provenance: a revision that is deployed as it is needs none.
Provenance(e, c) ==
  IF RevOf(c) = None \/ Deployable(e, c) = None THEN "UNKNOWN"
  ELSE IF Deployable(e, c) = RevOf(c) THEN "NOT_APPLICABLE"
  ELSE IF e.rev # RevOf(c) \/ e.head # Deployable(e, c) \/ ~HostRead(e) THEN "UNKNOWN"
  ELSE IF e.says = "PASS" /\ ~e.complete THEN "UNKNOWN"
  ELSE e.says

\* evaluate_build_provenance, with the attestation the policy may ask for.
BuildProvenance(e, c, attestation) ==
  CASE attestation \in {"policy unread", "missing"} -> "UNKNOWN"
    [] attestation = "FAILED" -> "FAIL"
    [] attestation \in {"not required", "SUCCESS"} -> Provenance(e, c)

\* evaluate_scm_policy: complete says that every rule was read, bypass that
\* the policy was passed by, with or without somebody's approval.
ScmPolicy(e, c, bypass) ==
  IF ~e.complete \/ RevOf(c) = None \/ e.rev # RevOf(c) THEN "UNKNOWN"
  ELSE IF bypass = "unapproved" \/ (bypass = "approved" /\ ~Strong(e)) THEN "FAIL"
  ELSE e.says

-----------------------------------------------------------------------------
(* The operational dimensions, capacity and dependencies.                  *)

Ownership(e, c, tier) ==
  IF EnvConflict(e, c) THEN "UNKNOWN"
  ELSE IF e.says = "FAIL" THEN BadNews(e)
  ELSE IF e.says = "UNKNOWN" \/ ~e.complete THEN "UNKNOWN"
  ELSE Worth(e, tier)

Rollback(e, c, tier) ==
  IF EnvConflict(e, c) THEN "UNKNOWN"
  ELSE IF e.says = "FAIL" THEN BadNews(e)
  ELSE IF ~e.complete THEN "UNKNOWN"
  ELSE Worth(e, tier)

PostDeploy(e, c, tier) == IF EnvConflict(e, c) \/ ~e.complete THEN "UNKNOWN" ELSE Worth(e, tier)

\* That nothing stateful changed counts only on good authority; claiming it
\* without is never worse than not claiming it.
Recovery(e, c, tier) ==
  IF EnvConflict(e, c) THEN "UNKNOWN"
  ELSE IF e.says = "FAIL" THEN BadNews(e)
  ELSE IF e.says = "NOT_APPLICABLE" /\ Strong(e) THEN "NOT_APPLICABLE"
  ELSE IF ~e.complete THEN "UNKNOWN"
  ELSE Worth(e, tier)

\* evaluate_capacity_gate: complete says that demand and baseline are backed.
Capacity(e, c, tier) ==
  IF EnvConflict(e, c) \/ ~e.trusted THEN "UNKNOWN"
  ELSE IF e.says \in {"FAIL", "UNKNOWN"} THEN e.says
  ELSE IF e.says = "NOT_APPLICABLE" THEN IF Strong(e) THEN "NOT_APPLICABLE" ELSE "UNKNOWN"
  ELSE IF e.complete /\ Strong(e) THEN e.says
  ELSE IF Strict(tier) THEN "UNKNOWN" ELSE "CONDITIONAL"

\* evaluate_dependency_gate: cve is the authority behind the vulnerability
\* data, {} if the report has none.  Without good data, current advisory
\* evidence or the dependency's CI about this revision stands in, provided
\* that nothing else in the report is weak.
Dependency(e, c, cve, current) ==
  IF ~e.trusted THEN "UNKNOWN"
  ELSE IF e.says \in {"FAIL", "UNKNOWN"} THEN e.says
  ELSE IF e.says = "NOT_APPLICABLE" THEN IF Backed(e.by \cup cve) THEN "NOT_APPLICABLE" ELSE "UNKNOWN"
  ELSE IF cve # {} /\ Backed(e.by \cup cve) THEN e.says
  ELSE IF /\ e.by \cup cve # {} /\ "caller" \notin e.by
          /\ current # None /\ current.rev = RevOf(c) /\ Strong(current)
       THEN e.says
  ELSE "UNKNOWN"

-----------------------------------------------------------------------------
(* The verdict.                                                            *)

\* aggregate_verdict and production_readiness: the worst status of a required
\* dimension; without a required dimension there is nothing to say.
Aggregate(statuses) ==
  LET required == statuses \ {"NOT_APPLICABLE"}
  IN  IF required = {} THEN "UNKNOWN"
      ELSE IF "FAIL" \in required THEN "NOT_READY"
      ELSE IF "UNKNOWN" \in required THEN "UNKNOWN"
      ELSE IF "CONDITIONAL" \in required THEN "CONDITIONAL"
      ELSE "READY"

\* check_final_freshness: a snapshot is a head, what a release reference is
\* resolved to, and whether CI is green and the approvals stand, each None if
\* it could not be read.
Freshness(initial, final) ==
  IF initial.head = None \/ final.head # initial.head \/ final.resolution # initial.resolution THEN "UNKNOWN"
  ELSE IF final.ci = FALSE /\ initial.ci # FALSE THEN "FAIL"
  ELSE IF final.ci = None /\ initial.ci # None THEN "UNKNOWN"
  ELSE IF final.approved = FALSE /\ initial.approved # FALSE THEN "FAIL"
  ELSE IF final.approved = None /\ initial.approved # None THEN "UNKNOWN"
  ELSE "PASS"

=============================================================================
