---------------------------- MODULE ReadinessReview ----------------------------
(***************************************************************************)
(* production-readiness-review: a review takes the evidence about one      *)
(* candidate dimension by dimension (workflow/collect-evidence.md,         *)
(* dispatch.md and aggregate.md, with the gates of ReadinessGates), reads  *)
(* head, CI and approvals once more (report.md) and emits a report.        *)
(*                                                                         *)
(* Meanwhile the world changes: CI turns red or green, approvals come and  *)
(* go, and the branch or tag that the candidate was found under moves.     *)
(* What a strong source says of the unit that it looked at is true when it *)
(* says so; what anybody else says may be anything, and so may a report on *)
(* the impact of a change that does not cover all of it.                   *)
(***************************************************************************)
EXTENDS ReadinessGates, Naturals, Sequences

CONSTANTS
  Unit,         \* deployable units
  Revision,     \* source revisions (git shas)
  Digest,       \* digests of built deployables
  Built,        \* the revision that each digest was built from
  Tag,          \* a mutable name: a branch, a tag
  Text,         \* any other reference
  Env,          \* environments
  Targets,      \* candidates that an operator has reviewed
  Flaws,        \* what may be wrong: sets of flaws
  MaxOdd,       \* bound: pieces of evidence in a review that are not as they should be
  MaxMoves,     \* bound: changes of CI, of approvals and of Tag
  MaxReviews    \* bound: reviews by an operator

Static  == {"impact", "risk", "review", "specialist", "capacity", "dependency", "ownership",
            "rollback", "postdeploy", "recovery"}
Service == {"ownership", "rollback", "postdeploy", "recovery"}  \* not tied to a revision
Dims    == << "ci", "scm", "provenance", "impact", "risk", "review", "specialist", "capacity", "dependency",
              "ownership", "rollback", "postdeploy", "recovery" >>

\* What is reviewed: a merge request, or a deployable with its revision.
Candidate == [mr : BOOLEAN, unit : Unit, env : Env \cup {None}, rev : Revision \cup {None},
              head : Revision \cup Digest \cup {Tag, None}, tier : Tier]

Reference == Revision \cup Digest \cup {Tag, Text, None}

\* Not part of a report: the revision that was reviewed (about), whether the
\* last reads found it in order (fresh), the dimensions in which something is
\* wrong and nobody stood for the evidence (gaps), and whether the impact was covered only in part (partial).
Report == [unit : Unit \cup {None}, env : Env \cup {None}, head : Reference, rev : Reference, verdict : Verdict,
           acquired : {"runtime", "caller"}, about : Revision \cup {None}, fresh : BOOLEAN,
           gaps : SUBSET Static, partial : BOOLEAN]

ASSUME ReviewAssumption ==
  /\ \A t \in Targets :
       /\ t \in Candidate
       /\ IF t.mr THEN t.rev = None /\ t.head = None ELSE t.head # None /\ RevOf(t) \in Revision
  /\ Revision \cap Digest = {}
  /\ Built \in [Digest -> Revision]
  /\ None \notin Revision \cup Digest \cup Env \cup {Tag} /\ Tag \notin Revision \cup Digest
  /\ Text \notin Revision \cup Digest \cup {Tag, None} /\ None \notin BOOLEAN
  /\ \A fs \in Flaws : \A f \in fs : f.dim \in Static /\ f.rev \in Revision /\ f.env \in Env
  /\ MaxOdd \in Nat /\ MaxMoves \in Nat /\ MaxReviews \in Nat

VARIABLES
  flaws,     \* what is wrong with which revision in which environment
  tip,       \* the revision that Tag stands for
  ci,        \* whether the required checks of a revision are green
  approved,  \* whether its approvals stand
  moves,     \* how often tip, ci or approved changed
  review,    \* the review that is going on
  reports,   \* the reports that reviews have emitted, and others
  reviews    \* how many reviews an operator has started

world      == <<flaws, tip, ci, approved, moves>>
reviewVars == <<review, reports, reviews>>

NoReview == [pc |-> "idle"]

\* The revision whose code a reference stands for.
Content(ref) == IF ref = Tag THEN tip ELSE IF ref \in Digest THEN Built[ref] ELSE ref

ReviewInit ==
  /\ flaws \in Flaws
  /\ tip \in Revision
  /\ ci = [r \in Revision |-> TRUE] /\ approved = [r \in Revision |-> TRUE]
  /\ moves = 0
  /\ review = NoReview /\ reviews = 0

-----------------------------------------------------------------------------
(* Evidence.                                                               *)

\* Evidence as a gate hopes for.
Plain(c) == [says |-> "PASS", unit |-> c.unit, rev |-> RevOf(c), head |-> c.head, env |-> c.env, by |-> {"host"},
             complete |-> TRUE, trusted |-> TRUE]

\* What the evidence about a dimension can say.
Words(d) ==
  CASE d \in {"ci", "scm", "provenance", "ownership"} -> {"PASS", "FAIL", "UNKNOWN"}
    [] d = "rollback"   -> {"PASS", "FAIL"}
    [] d = "postdeploy" -> {"PASS"}
    [] d = "recovery"   -> {"PASS", "FAIL", "NOT_APPLICABLE"}
    [] OTHER            -> Status

\* Evidence with at most one shortcoming, whatever it says.
Evidence(d, c) ==
  {[e EXCEPT !.says = s] : s \in Words(d),
    e \in {Plain(c), [Plain(c) EXCEPT !.complete = FALSE], [Plain(c) EXCEPT !.trusted = FALSE]}
          \cup {[Plain(c) EXCEPT !.unit = u] : u \in Unit} \cup {[Plain(c) EXCEPT !.rev = r] : r \in Revision}
          \cup {[Plain(c) EXCEPT !.head = h] : h \in Digest \cup {None}}
          \cup {[Plain(c) EXCEPT !.env = v] : v \in Env \cup {None}}
          \cup {[Plain(c) EXCEPT !.by = b] : b \in {{}, {"caller"}, {"repository"}, {"caller", "repository"}}}}

\* Whether a strong source stands behind a result; for dependencies that is
\* one that knows the vulnerability data, for the impact of a change one that
\* covers all of it (dispatch.md: anything less is a gap).
Vouched(d, e, x) ==
  IF d \in Service THEN Strong(e) /\ (e.complete \/ e.says = "NOT_APPLICABLE")
  ELSE IF d # "dependency" THEN e.trusted /\ Strong(e) /\ (d = "impact" => e.complete)
  ELSE IF e.says = "NOT_APPLICABLE" THEN e.trusted /\ Backed(e.by \cup x[1])
  ELSE e.trusted /\ "caller" \notin e.by /\ (Backed(x[1]) \/ x[2] # None)

\* What a source that can be held to its word says is true of its unit.
Truthful(d, e, x) ==
  CASE d = "ci"  -> HostRead(e) => (e.says = "PASS" => ci[e.rev]) /\ (e.says = "FAIL" => ~ci[e.rev])
    [] d = "scm" -> HostRead(e) /\ (e.says = "PASS" => approved[e.rev])
    [] d = "provenance" -> HostRead(e) /\ e.says = "PASS" =>
         e.head # Tag /\ (e.head # None => Content(e.head) = e.rev)
    [] d = "review" -> HostRead(e) /\ e.complete /\ e.says = "PASS" =>
         ~\E f \in flaws : f.dim = d /\ f.unit = e.unit /\ f.rev = e.rev
    [] OTHER -> Vouched(d, e, x) /\ e.says \in {"PASS", "CONDITIONAL", "NOT_APPLICABLE"} =>
         ~\E f \in flaws : /\ f.dim = d /\ f.unit = e.unit
                           /\ f.rev = e.rev \/ d \in Service
                           /\ f.env = e.env \/ e.env = None

\* A specialist that does not apply because no sign of its surface was found
\* by a report that may have missed it.
Inferred(d, e, partial) == d = "specialist" /\ e.says = "NOT_APPLICABLE" /\ partial

\* Nobody stands for a dimension on which the evidence is about another unit,
\* or rests on a report that does not cover all of the change.  It matters
\* where something is wrong.
Gap(d, e, c, partial) ==
  /\ \E f \in flaws : f.dim = d
  /\ e.unit # c.unit \/ (d = "impact" /\ ~e.complete) \/ Inferred(d, e, partial)

\* What else a gate is told: of approvals, of the attestation, of where a
\* baseline comes from; for dependencies, who says which vulnerabilities there
\* are and whether a current scan is at hand.
Remark(d) ==
  CASE d = "scm"        -> {"none", "approved", "unapproved"}
    [] d = "provenance" -> {"policy unread", "missing", "FAILED", "not required", "SUCCESS"}
    [] d = "impact"     -> {"supplied", "fresh"}
    [] OTHER            -> {None}

Extra(d, c) ==
  IF d = "dependency" THEN {<<cve, cur>> : cve \in {{}, {"caller"}, {"host"}}, cur \in {None, Plain(c)}} ELSE Remark(d)

\* dispatch_child: a specialist's result must be about the candidate.
Bound(e, c, status) == IF Mismatch(e, c) \/ EnvConflict(e, c) \/ ~e.trusted THEN "UNKNOWN" ELSE status

Gate(d, e, c, x) ==
  CASE d = "ci"         -> Ci(e, c)
    [] d = "scm"        -> ScmPolicy(e, c, x)
    [] d = "provenance" -> BuildProvenance(e, c, x)
    [] d = "impact"     -> IF x = "supplied" THEN Prerequisite(e, None, c) ELSE Prerequisite(None, e, c)
    [] d = "risk"       -> Sensitive(e, c)
    [] d = "review"     -> Coverage(e, c)
    [] d = "specialist" -> Child(e, c)
    [] d = "capacity"   -> Bound(e, c, Capacity(e, c, c.tier))
    [] d = "dependency" -> Bound(e, c, Dependency(e, c, x[1], x[2]))
    [] d = "ownership"  -> Ownership(e, c, c.tier)
    [] d = "rollback"   -> Rollback(e, c, c.tier)
    [] d = "postdeploy" -> PostDeploy(e, c, c.tier)
    [] d = "recovery"   -> Recovery(e, c, c.tier)

-----------------------------------------------------------------------------
(* A review.                                                               *)

\* inputs.md: the candidate is resolved; a merge request to its head.
StartReview ==
  /\ review.pc = "idle" /\ reviews < MaxReviews
  /\ \E t \in Targets :
       LET c     == IF t.mr THEN [t EXCEPT !.rev = tip] ELSE t
           about == IF c.mr THEN c.rev ELSE Content(c.head)
       IN  review' = [pc |-> "collect", cand |-> c, about |-> about, next |-> 1, odd |-> 0, statuses |-> {},
                      ci |-> None, approved |-> None, gaps |-> {}, partial |-> FALSE]
  /\ reviews' = reviews + 1
  /\ UNCHANGED <<world, reports>>

Reading(status) == CASE status = "PASS" -> TRUE [] status = "FAIL" -> FALSE [] OTHER -> None

\* What a review knows after one more dimension; what CI and the approvals were
\* goes into the snapshot.
Assessed(d, e, c, x, odd) ==
  LET status == Gate(d, e, c, x)
  IN  [pc |-> "collect", cand |-> c, about |-> review.about, next |-> review.next + 1,
       odd |-> odd, statuses |-> review.statuses \cup {status},
       ci       |-> IF d = "ci" THEN Reading(status) ELSE review.ci,
       approved |-> IF d = "scm" THEN Reading(status) ELSE review.approved,
       gaps     |-> IF Gap(d, e, c, review.partial) THEN review.gaps \cup {d} ELSE review.gaps,
       partial  |-> review.partial \/ (d = "impact" /\ ~e.complete)]

Assess ==
  /\ review.pc = "collect" /\ review.next <= Len(Dims)
  /\ LET d == Dims[review.next]
         c == review.cand
     IN  \E e \in Evidence(d, c), x \in Extra(d, c) :
           LET odd == IF e = Plain(c) THEN review.odd ELSE review.odd + 1
           IN  /\ Truthful(d, e, x) \/ Inferred(d, e, review.partial)
               /\ odd <= MaxOdd
               /\ review' = Assessed(d, e, c, x, odd)
  /\ UNCHANGED <<world, reports, reviews>>

\* The freshness_snapshot of a merge request, and of a reference that stands for
\* a revision.
Snapshot(c, rev, green, stand) ==
  [head |-> IF c.mr THEN rev ELSE c.head, resolution |-> IF c.mr THEN None ELSE rev, ci |-> green, approved |-> stand]

\* report.md: head, CI and approvals are read again.  A read may fail.
Recheck ==
  /\ review.pc = "collect" /\ review.next > Len(Dims)
  /\ LET c   == review.cand
         now == IF c.mr THEN tip ELSE Content(c.head)
         is  == Snapshot(c, now, ci[now], approved[now])
         was == Snapshot(c, review.about, review.ci, review.approved)
     IN  \E f \in [head : {is.head, None}, resolution : {is.resolution, None},
                   ci : {is.ci, None}, approved : {is.approved, None}] :
           review' = [pc |-> "emit", cand |-> c, about |-> review.about,
                      fresh |-> (f = Snapshot(c, review.about, TRUE, TRUE)),
                      statuses |-> review.statuses \cup {Freshness(was, f)},
                      gaps |-> review.gaps, partial |-> review.partial]
  /\ UNCHANGED <<world, reports, reviews>>

\* The production_readiness_report.
Emit ==
  /\ review.pc = "emit"
  /\ LET c       == review.cand
         verdict == Aggregate(review.statuses)
     IN  reports' = Append(reports,
           [unit |-> c.unit, env |-> c.env, head |-> IF c.mr THEN None ELSE c.head, rev |-> RevOf(c),
            verdict |-> verdict, acquired |-> "runtime",
            about |-> IF verdict = "READY" THEN review.about ELSE None,
            fresh |-> verdict = "READY" /\ review.fresh,
            gaps |-> IF verdict = "READY" THEN review.gaps ELSE {},
            partial |-> verdict = "READY" /\ review.partial])
  /\ review' = NoReview
  /\ UNCHANGED <<world, reviews>>

-----------------------------------------------------------------------------
(* The world.                                                              *)

Moves == moves < MaxMoves /\ moves' = moves + 1 /\ UNCHANGED <<flaws, reviewVars>>

TipMoves       == Moves /\ tip' \in Revision \ {tip} /\ UNCHANGED <<ci, approved>>
CiChanges      == Moves /\ (\E r \in Revision : ci' = [ci EXCEPT ![r] = ~@]) /\ UNCHANGED <<tip, approved>>
ApprovalMoves  == Moves /\ (\E r \in Revision : approved' = [approved EXCEPT ![r] = ~@]) /\ UNCHANGED <<tip, ci>>

ReviewStep == StartReview \/ Assess \/ Recheck \/ Emit
WorldStep  == TipMoves \/ CiChanges \/ ApprovalMoves

-----------------------------------------------------------------------------

\* Nothing is wrong, except perhaps in some dimensions.
Flawless(unit, rev, env, but) ==
  ~\E f \in flaws : f.unit = unit /\ f.rev = rev /\ f.env = env /\ f.dim \notin but

Ready(r) == r.acquired = "runtime" /\ r.verdict = "READY"

\* A review that says READY is right: nothing is wrong with the revision that
\* was reviewed in the environment it was reviewed for, whoever claimed what,
\* except where the evidence was about another unit or covered the change only
\* in part; and when it was read for the last time its head stood where it did,
\* its CI was green and its approvals stood (report.md: "must reflect the
\* candidate as it stands right now").
ReadyIsTrue ==
  \A i \in DOMAIN reports : LET r == reports[i] IN
    Ready(r) =>
      /\ r.rev = r.about /\ r.env \in Env /\ Flawless(r.unit, r.about, r.env, r.gaps)
      /\ r.fresh

\* No review says READY on an impact report that covers the change only in
\* part (dispatch.md: such a report is a gap of the dimension, and the
\* specialists it names no sign of are UNKNOWN).
NoPartialImpact == \A i \in DOMAIN reports : Ready(reports[i]) => ~reports[i].partial

=============================================================================
