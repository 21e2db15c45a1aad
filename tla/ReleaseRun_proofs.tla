------------------------------ MODULE ReleaseRun_proofs ------------------------------
(***************************************************************************)
(* Production-readiness reviews, for any candidates, flaws, evidence and   *)
(* changes of the world.  GateSound says what a clean answer of a gate     *)
(* shows if what strong sources say is true; the invariant of a review,    *)
(* Reviewed, collects it dimension by dimension, and ReportsSound is what  *)
(* remains of it in the reports.                                           *)
(*                                                                         *)
(* Releases, for any manifests, reports at hand, coverage and changes of   *)
(* the world.  Run is the invariant of a run: what has been found so far   *)
(* about the entries before the next one.  It rests on ReviewInv: a report *)
(* that can be trusted and says READY is right.                            *)
(***************************************************************************)
EXTENDS ReleaseRun, TLAPS

(***************************************************************************)
(* Reviews.                                                                *)
(***************************************************************************)
AllDims == Static \cup {"ci", "scm", "provenance"}
Clean   == {"PASS", "NOT_APPLICABLE"}

\* A candidate as a review has resolved it.
Resolved ==
  {c \in Candidate : IF c.mr THEN c.rev \in Revision /\ c.head = None
                     ELSE c.head # None /\ RevOf(c) \in Revision}

Clear(d, c) == ~\E f \in flaws : f.dim = d /\ f.unit = c.unit /\ f.rev = RevOf(c) /\ f.env = c.env

WorldType ==
  /\ flaws \in Flaws /\ tip \in Revision
  /\ ci \in [Revision -> BOOLEAN] /\ approved \in [Revision -> BOOLEAN]

-----------------------------------------------------------------------------
(* Evidence.                                                               *)

LEMMA ResolvedRev == ASSUME NEW c \in Resolved PROVE RevOf(c) \in Revision /\ RevOf(c) # None
  BY ReviewAssumption DEF Resolved, RevOf

LEMMA EvidenceIs ==
  ASSUME NEW d, NEW c \in Resolved, NEW e \in Evidence(d, c)
  PROVE  e.says \in Words(d) /\ e.rev # None /\ RevOf(e) = e.rev
<1>1. RevOf(c) # None
  BY ResolvedRev
<1> DEFINE P == Plain(c)
<1>2. P.rev # None /\ DOMAIN P = {"says", "unit", "rev", "head", "env", "by", "complete", "trusted"}
  BY <1>1 DEF Plain
<1>3. PICK s \in Words(d),
        p \in {P, [P EXCEPT !.complete = FALSE], [P EXCEPT !.trusted = FALSE]}
              \cup {[P EXCEPT !.unit = u] : u \in Unit} \cup {[P EXCEPT !.rev = r] : r \in Revision}
              \cup {[P EXCEPT !.head = h] : h \in Digest \cup {None}}
              \cup {[P EXCEPT !.env = v] : v \in Env \cup {None}}
              \cup {[P EXCEPT !.by = b] : b \in {{}, {"caller"}, {"repository"}, {"caller", "repository"}}} :
        e = [p EXCEPT !.says = s]
  BY DEF Evidence
<1> HIDE DEF P
<1>4. p.rev # None /\ DOMAIN p = DOMAIN P
  BY <1>2, <1>3, ReviewAssumption
<1>5. e.says = s /\ e.rev = p.rev
  BY <1>2, <1>3, <1>4
<1>6. QED
  BY <1>3, <1>4, <1>5 DEF RevOf

-----------------------------------------------------------------------------
(* What a clean answer of a gate shows.                                    *)

\* A child's result that is accepted is about the candidate, trusted and strong.
LEMMA ChildClean ==
  ASSUME NEW e, NEW c, Child(e, c) \in Clean
  PROVE  /\ ~Mismatch(e, c) /\ ~EnvConflict(e, c) /\ e.trusted /\ Strong(e)
         /\ e.says \in {"PASS", "CONDITIONAL", "NOT_APPLICABLE"}
  BY DEF Child, Clean

LEMMA SameRevision ==
  ASSUME NEW d, NEW c \in Resolved, NEW e \in Evidence(d, c), ~Mismatch(e, c)
  PROVE  e.rev = RevOf(c)
  BY EvidenceIs DEF Mismatch

LEMMA PrerequisiteClean ==
  ASSUME NEW e, NEW c, Prerequisite(e, None, c) \in Clean \/ Prerequisite(None, e, c) \in Clean
  PROVE  Child(e, c) \in Clean
  BY DEF Prerequisite, Clean

\* The environments of a flaw, of the evidence and of the candidate.
LEMMA EnvCovered ==
  ASSUME WorldType, NEW e, NEW c \in Resolved, ~EnvConflict(e, c), NEW f \in flaws, f.env = c.env
  PROVE  f.env = e.env \/ e.env = None
<1>1. f.env \in Env
  BY ReviewAssumption DEF WorldType
<1>2. f.env # None
  BY <1>1, ReviewAssumption
<1>3. QED
  BY <1>2 DEF EnvConflict

\* Clear follows from what Truthful says of a vouched result about the unit.
LEMMA VouchedClear ==
  ASSUME WorldType, NEW d \in Static \ {"review"}, NEW c \in Resolved, NEW e \in Evidence(d, c), NEW x,
         Truthful(d, e, x), e.unit = c.unit, Vouched(d, e, x), e.says \in {"PASS", "CONDITIONAL", "NOT_APPLICABLE"},
         ~EnvConflict(e, c), e.rev = RevOf(c) \/ d \in Service
  PROVE  Clear(d, c)
<1>1. ~\E f \in flaws : /\ f.dim = d /\ f.unit = e.unit
                        /\ f.rev = e.rev \/ d \in Service
                        /\ f.env = e.env \/ e.env = None
  <2>1. d \notin {"ci", "scm", "provenance", "review"}
    BY DEF Static
  <2>2. QED
    BY <2>1 DEF Truthful
<1>2. QED
  BY <1>1, EnvCovered DEF Clear

LEMMA ServiceSays ==
  /\ Words("ownership") = {"PASS", "FAIL", "UNKNOWN"} /\ Words("rollback") = {"PASS", "FAIL"}
  /\ Words("postdeploy") = {"PASS"} /\ Words("recovery") = {"PASS", "FAIL", "NOT_APPLICABLE"}
  /\ Words("ci") = {"PASS", "FAIL", "UNKNOWN"} /\ Words("scm") = {"PASS", "FAIL", "UNKNOWN"}
  BY DEF Words

\* The dimensions that a child reviews.
LEMMA ChildDims ==
  ASSUME WorldType, NEW d \in {"impact", "risk", "specialist"}, NEW c \in Resolved, NEW e \in Evidence(d, c), NEW x,
         Truthful(d, e, x), e.unit = c.unit, d = "impact" => e.complete, Child(e, c) \in Clean
  PROVE  Clear(d, c)
<1>1. e.rev = RevOf(c) /\ ~EnvConflict(e, c) /\ e.trusted /\ Strong(e)
      /\ e.says \in {"PASS", "CONDITIONAL", "NOT_APPLICABLE"}
  BY ChildClean, SameRevision
<1>2. Vouched(d, e, x)
  BY <1>1 DEF Vouched, Service
<1>3. d \in Static \ {"review"}
  BY DEF Static
<1>4. QED
  BY <1>1, <1>2, <1>3, VouchedClear

LEMMA ReviewDim ==
  ASSUME NEW c \in Resolved, NEW e \in Evidence("review", c), NEW x,
         Truthful("review", e, x), e.unit = c.unit, Coverage(e, c) \in Clean
  PROVE  Clear("review", c)
<1>1. e.rev = RevOf(c) /\ e.complete /\ e.says = "PASS" /\ HostRead(e)
  BY DEF Coverage, Clean
<1>2. QED
  BY <1>1 DEF Truthful, Clear

LEMMA CapacityDim ==
  ASSUME WorldType, NEW c \in Resolved, NEW e \in Evidence("capacity", c), NEW x,
         Truthful("capacity", e, x), e.unit = c.unit, Bound(e, c, Capacity(e, c, c.tier)) \in Clean
  PROVE  Clear("capacity", c)
<1>1. ~Mismatch(e, c) /\ ~EnvConflict(e, c) /\ e.trusted /\ Capacity(e, c, c.tier) \in Clean
  BY DEF Bound, Clean
<1>2. Strong(e) /\ e.says \in {"PASS", "CONDITIONAL", "NOT_APPLICABLE"}
  <2>1. e.says \in Status
    BY EvidenceIs DEF Words
  <2>2. QED
    BY <1>1, <2>1 DEF Capacity, Clean, Status
<1>3. Vouched("capacity", e, x)
  BY <1>1, <1>2 DEF Vouched, Service
<1>4. QED
  BY <1>1, <1>2, <1>3, SameRevision, VouchedClear DEF Static

LEMMA DependencyDim ==
  ASSUME WorldType, NEW c \in Resolved, NEW e \in Evidence("dependency", c), NEW x,
         Truthful("dependency", e, x), e.unit = c.unit, Bound(e, c, Dependency(e, c, x[1], x[2])) \in Clean
  PROVE  Clear("dependency", c)
<1>1. ~Mismatch(e, c) /\ ~EnvConflict(e, c) /\ e.trusted /\ Dependency(e, c, x[1], x[2]) \in Clean
  BY DEF Bound, Clean
<1>2. e.says \in Status
  BY EvidenceIs DEF Words
<1>3. CASE e.says = "NOT_APPLICABLE"
  <2>1. Backed(e.by \cup x[1])
    BY <1>1, <1>3 DEF Dependency, Clean
  <2>2. Vouched("dependency", e, x)
    BY <1>1, <1>3, <2>1 DEF Vouched, Service
  <2>3. QED
    BY <1>1, <1>3, <2>2, SameRevision, VouchedClear DEF Static
<1>4. CASE e.says # "NOT_APPLICABLE"
  <2>1. /\ e.says \notin {"FAIL", "UNKNOWN"}
        /\ \/ x[1] # {} /\ Backed(e.by \cup x[1])
           \/ "caller" \notin e.by /\ x[2] # None
    BY <1>1, <1>4 DEF Dependency, Clean
  <2>2. "caller" \notin e.by /\ (Backed(x[1]) \/ x[2] # None)
    BY <2>1 DEF Backed
  <2>3. Vouched("dependency", e, x) /\ e.says \in {"PASS", "CONDITIONAL", "NOT_APPLICABLE"}
    BY <1>1, <1>2, <1>4, <2>1, <2>2 DEF Vouched, Service, Status
  <2>4. QED
    BY <1>1, <2>3, SameRevision, VouchedClear DEF Static
<1>5. QED
  BY <1>3, <1>4

LEMMA ServiceDims ==
  ASSUME WorldType, NEW d \in Service, NEW c \in Resolved, NEW e \in Evidence(d, c), NEW x,
         Truthful(d, e, x), e.unit = c.unit,
         \/ d = "ownership" /\ Ownership(e, c, c.tier) \in Clean
         \/ d = "rollback" /\ Rollback(e, c, c.tier) \in Clean
         \/ d = "postdeploy" /\ PostDeploy(e, c, c.tier) \in Clean
         \/ d = "recovery" /\ Recovery(e, c, c.tier) \in Clean
  PROVE  Clear(d, c)
<1>1. ~EnvConflict(e, c)
  BY DEF Service, Ownership, Rollback, PostDeploy, Recovery, Clean
<1>2. e.says \in Words(d)
  BY EvidenceIs
<1>3. e.says \in {"PASS", "NOT_APPLICABLE"}
  BY <1>2, ServiceSays DEF Service, Ownership, Rollback, PostDeploy, Recovery, BadNews, Clean
<1>4. Strong(e) /\ (e.complete \/ e.says = "NOT_APPLICABLE")
  BY <1>3 DEF Service, Ownership, Rollback, PostDeploy, Recovery, Worth, BadNews, Clean
<1>5. Vouched(d, e, x) /\ d \in Static \ {"review"}
  BY <1>4 DEF Vouched, Service, Static
<1>6. QED
  BY <1>1, <1>3, <1>5, VouchedClear

LEMMA CiDim ==
  ASSUME NEW c \in Resolved, NEW e \in Evidence("ci", c), Ci(e, c) \in Clean
  PROVE  Reading(Ci(e, c)) = TRUE
<1>1. e.says \in {"PASS", "FAIL", "UNKNOWN"}
  BY EvidenceIs, ServiceSays
<1>2. Ci(e, c) = "PASS"
  BY <1>1 DEF Ci, Clean
<1>3. QED
  BY <1>2 DEF Reading

LEMMA ScmDim ==
  ASSUME NEW c \in Resolved, NEW e \in Evidence("scm", c), NEW x, ScmPolicy(e, c, x) \in Clean
  PROVE  Reading(ScmPolicy(e, c, x)) = TRUE
<1>1. e.says \in {"PASS", "FAIL", "UNKNOWN"}
  BY EvidenceIs, ServiceSays
<1>2. ScmPolicy(e, c, x) = "PASS"
  BY <1>1 DEF ScmPolicy, Clean
<1>3. QED
  BY <1>2 DEF Reading

\* What a review is about: the revision that its deployable was built from.
LEMMA ProvenanceDim ==
  ASSUME NEW c \in Resolved, ~c.mr, NEW e \in Evidence("provenance", c), NEW x \in Extra("provenance", c),
         Truthful("provenance", e, x), BuildProvenance(e, c, x) \in Clean
  PROVE  c.head # Tag /\ Content(c.head) = RevOf(c)
<1>1. Provenance(e, c) \in Clean
  <2>1. x \in {"policy unread", "missing", "FAILED", "not required", "SUCCESS"}
    <3>1. x \in Remark("provenance")
      BY DEF Extra
    <3>2. QED
      BY <3>1 DEF Remark
  <2>2. QED
    BY <2>1 DEF BuildProvenance, Clean
<1>2. c.head # None /\ RevOf(c) \in Revision /\ Deployable(e, c) = c.head
  BY DEF Resolved, Deployable
<1>3. CASE c.head = RevOf(c)
  BY <1>2, <1>3, ReviewAssumption DEF Content
<1>4. CASE c.head # RevOf(c)
  <2>1. e.rev = RevOf(c) /\ e.head = c.head /\ HostRead(e) /\ e.says = "PASS"
    <3>1. e.rev = RevOf(c) /\ e.head = c.head /\ HostRead(e) /\ e.says \in Clean
      BY <1>1, <1>2, <1>4 DEF Provenance, Clean
    <3>2. e.says \in {"PASS", "FAIL", "UNKNOWN"}
      BY EvidenceIs DEF Words
    <3>3. QED
      BY <3>1, <3>2 DEF Clean
  <2>2. QED
    BY <1>2, <2>1 DEF Truthful
<1>5. QED
  BY <1>3, <1>4

-----------------------------------------------------------------------------
(* A review.                                                               *)

\* What a clean status of a dimension shows of the candidate, unless nobody
\* stands for it.
Shows(d, c, gaps) ==
  /\ d \in Static \ gaps => Clear(d, c)
  /\ d = "risk" => c.env # None
  /\ d = "provenance" /\ ~c.mr => c.head # Tag /\ Content(c.head) = RevOf(c)

LEMMA StaticSound ==
  ASSUME WorldType, NEW d \in Static, NEW c \in Resolved, NEW e \in Evidence(d, c), NEW x,
         Truthful(d, e, x), e.unit = c.unit, d = "impact" => e.complete, Gate(d, e, c, x) \in Clean
  PROVE  Clear(d, c)
<1>1. CASE d = "impact"
  <2>1. Child(e, c) \in Clean
    BY <1>1, PrerequisiteClean DEF Gate
  <2>2. QED
    BY <1>1, <2>1, ChildDims
<1>2. CASE d = "risk"
  <2>1. Child(e, c) \in Clean
    BY <1>2 DEF Gate, Sensitive, Clean
  <2>2. QED
    BY <1>2, <2>1, ChildDims
<1>3. CASE d = "review"
  BY <1>3, ReviewDim DEF Gate
<1>4. CASE d = "specialist"
  BY <1>4, ChildDims DEF Gate
<1>5. CASE d = "capacity"
  BY <1>5, CapacityDim DEF Gate
<1>6. CASE d = "dependency"
  BY <1>6, DependencyDim DEF Gate
<1>7. CASE d = "ownership"
  BY <1>7, ServiceDims DEF Gate, Service
<1>8. CASE d = "rollback"
  BY <1>8, ServiceDims DEF Gate, Service
<1>9. CASE d = "postdeploy"
  BY <1>9, ServiceDims DEF Gate, Service
<1>10. CASE d = "recovery"
  BY <1>10, ServiceDims DEF Gate, Service
<1>11. QED
  BY <1>1, <1>2, <1>3, <1>4, <1>5, <1>6, <1>7, <1>8, <1>9, <1>10 DEF Static

LEMMA GateSound ==
  ASSUME WorldType, NEW d \in AllDims, NEW c \in Resolved, NEW e \in Evidence(d, c), NEW x \in Extra(d, c),
         NEW partial, Truthful(d, e, x) \/ Inferred(d, e, partial), Gate(d, e, c, x) \in Clean,
         NEW gaps, Gap(d, e, c, partial) => d \in gaps
  PROVE  /\ Shows(d, c, gaps)
         /\ d \in {"ci", "scm"} => Reading(Gate(d, e, c, x)) = TRUE
<1>1. ASSUME d \in Static \ gaps PROVE Clear(d, c)
  <2>1. CASE \E f \in flaws : f.dim = d
    <3>1. e.unit = c.unit /\ (d = "impact" => e.complete) /\ ~Inferred(d, e, partial)
      BY <1>1, <2>1 DEF Gap
    <3>2. QED
      BY <1>1, <3>1, StaticSound
  <2>2. CASE ~\E f \in flaws : f.dim = d
    BY <2>2 DEF Clear
  <2>3. QED
    BY <2>1, <2>2
<1>2. ASSUME d = "risk" PROVE c.env # None
  BY <1>2 DEF Gate, Sensitive, Clean
<1>3. ASSUME d = "provenance", ~c.mr PROVE c.head # Tag /\ Content(c.head) = RevOf(c)
  BY <1>3, ProvenanceDim DEF Gate, Inferred
<1>4. ASSUME d \in {"ci", "scm"} PROVE Reading(Gate(d, e, c, x)) = TRUE
  <2>1. CASE d = "ci"
    BY <2>1, CiDim DEF Gate
  <2>2. CASE d = "scm"
    BY <2>2, ScmDim DEF Gate
  <2>3. QED
    BY <1>4, <2>1, <2>2
<1>5. QED
  BY <1>1, <1>2, <1>3, <1>4 DEF Shows

\* More gaps ask for less.
LEMMA ShowsMore ==
  ASSUME NEW d, NEW c, NEW gaps, NEW more, gaps \subseteq more, Shows(d, c, gaps)
  PROVE  Shows(d, c, more)
  BY DEF Shows

\* A gate answers a status.
LEMMA GateStatus ==
  ASSUME NEW d \in AllDims, NEW c \in Resolved, NEW e \in Evidence(d, c), NEW x \in Extra(d, c)
  PROVE  Gate(d, e, c, x) \in Status
<1>1. e.says \in Status
  BY EvidenceIs DEF Words, Status
<1> USE DEF Status
<1>2. Child(e, c) \in Status
  BY <1>1 DEF Child
<1>3. CASE d = "ci"
  BY <1>1, <1>3 DEF Gate, Ci
<1>4. CASE d = "scm"
  BY <1>1, <1>4 DEF Gate, ScmPolicy
<1>5. CASE d = "provenance"
  <2>1. Provenance(e, c) \in Status
    BY <1>1 DEF Provenance
  <2>2. x \in {"policy unread", "missing", "FAILED", "not required", "SUCCESS"}
    <3>1. x \in Remark("provenance")
      BY <1>5 DEF Extra
    <3>2. QED
      BY <3>1 DEF Remark
  <2>3. QED
    BY <1>5, <2>1, <2>2 DEF Gate, BuildProvenance
<1>6. CASE d \in {"impact", "risk", "specialist"}
  BY <1>2, <1>6 DEF Gate, Prerequisite, Sensitive
<1>7. CASE d = "review"
  BY <1>7 DEF Gate, Coverage
<1>8. CASE d = "capacity"
  BY <1>1, <1>8 DEF Gate, Bound, Capacity
<1>9. CASE d = "dependency"
  BY <1>1, <1>9 DEF Gate, Bound, Dependency
<1>10. CASE d = "ownership"
  BY <1>10 DEF Gate, Ownership, BadNews, Worth
<1>11. CASE d = "rollback"
  BY <1>11 DEF Gate, Rollback, BadNews, Worth
<1>12. CASE d = "postdeploy"
  BY <1>12 DEF Gate, PostDeploy, Worth
<1>13. CASE d = "recovery"
  BY <1>13 DEF Gate, Recovery, BadNews, Worth
<1>14. QED
  BY <1>3, <1>4, <1>5, <1>6, <1>7, <1>8, <1>9, <1>10, <1>11, <1>12, <1>13 DEF AllDims, Static

\* Only clean statuses, and one that counts, make a review READY.
LEMMA AggregateReady ==
  ASSUME NEW statuses \in SUBSET Status, Aggregate(statuses) = "READY"
  PROVE  statuses \subseteq Clean
  BY DEF Aggregate, Status, Clean

LEMMA AggregateVerdict == ASSUME NEW statuses PROVE Aggregate(statuses) \in Verdict
  BY DEF Aggregate, Verdict

LEMMA FreshnessIs ==
  ASSUME NEW initial, NEW final
  PROVE  /\ Freshness(initial, final) \in Status \ {"NOT_APPLICABLE", "CONDITIONAL"}
         /\ Freshness(initial, final) = "PASS" /\ initial.ci = TRUE /\ initial.approved = TRUE =>
              /\ final.head = initial.head /\ final.resolution = initial.resolution
              /\ final.ci \notin {FALSE, None} /\ final.approved \notin {FALSE, None}
<1>1. Freshness(initial, final) \in {"UNKNOWN", "FAIL", "PASS"}
  BY DEF Freshness
<1>2. ASSUME Freshness(initial, final) = "PASS", initial.ci = TRUE, initial.approved = TRUE
      PROVE  /\ final.head = initial.head /\ final.resolution = initial.resolution
             /\ final.ci \notin {FALSE, None} /\ final.approved \notin {FALSE, None}
  <2>1. initial.ci # FALSE /\ initial.ci # None /\ initial.approved # FALSE /\ initial.approved # None
    BY <1>2, ReviewAssumption
  <2>2. QED
    BY <1>2, <2>1 DEF Freshness
<1>3. QED
  BY <1>1, <1>2 DEF Status

LEMMA DimsAre ==
  /\ Len(Dims) = 13
  /\ \A k \in 1 .. 13 : Dims[k] \in AllDims
  /\ \A d \in AllDims : \E k \in 1 .. 13 : Dims[k] = d
<1>1. Len(Dims) = 13 /\ \A k \in 1 .. 13 : Dims[k] \in AllDims
  BY DEF Dims, AllDims, Static
<1>2. /\ Dims[1] = "ci" /\ Dims[2] = "scm" /\ Dims[3] = "provenance" /\ Dims[4] = "impact" /\ Dims[5] = "risk"
      /\ Dims[6] = "review" /\ Dims[7] = "specialist" /\ Dims[8] = "capacity" /\ Dims[9] = "dependency"
      /\ Dims[10] = "ownership" /\ Dims[11] = "rollback" /\ Dims[12] = "postdeploy" /\ Dims[13] = "recovery"
  BY DEF Dims
<1>3. QED
  BY <1>1, <1>2 DEF AllDims, Static

-----------------------------------------------------------------------------
(* The invariant of a review.                                              *)

\* The revision that is reviewed, and what the candidate's names have to do
\* with it; Tag may stand for another one by now.
Named(c, about) ==
  /\ about \in Revision
  /\ c.mr => about = RevOf(c)
  /\ ~c.mr /\ c.head # Tag => about = Content(c.head)

\* What has been shown, as long as every answer was clean.
Shown ==
  review.statuses \subseteq Clean =>
    \A k \in 1 .. review.next - 1 :
      /\ Shows(Dims[k], review.cand, review.gaps)
      /\ Dims[k] = "ci" => review.ci = TRUE
      /\ Dims[k] = "scm" => review.approved = TRUE

Reviewed ==
  /\ review.pc \in {"idle", "collect", "emit"}
  /\ review.pc # "idle" =>
       /\ review.cand \in Resolved /\ review.statuses \subseteq Status /\ Named(review.cand, review.about)
       /\ review.gaps \subseteq Static
  /\ review.pc = "collect" => review.next \in 1 .. 14 /\ Shown
  /\ review.pc = "emit" /\ review.statuses \subseteq Clean =>
       review.fresh = TRUE /\ \A d \in AllDims : Shows(d, review.cand, review.gaps)

\* A report of a review that says READY.
Right(r) ==
  /\ r.rev = r.about /\ r.env \in Env /\ Flawless(r.unit, r.about, r.env, r.gaps)
  /\ r.fresh
  /\ r.head \in Revision \cup Digest => r.about = Content(r.head)

ReportsSound ==
  /\ reports \in Seq(Report)
  /\ \A i \in DOMAIN reports : reports[i].acquired = "runtime" /\ reports[i].verdict = "READY" => Right(reports[i])

ReviewInv == WorldType /\ Reviewed /\ ReportsSound

LEMMA ContentIs ==
  ASSUME WorldType
  PROVE  \A ref \in Revision \cup Digest \cup {Tag} : Content(ref) \in Revision
  BY ReviewAssumption DEF WorldType, Content

\* What is wrong with a revision does not change, nor does what a name other
\* than Tag stands for.
LEMMA ContentStays == ASSUME NEW ref, ref # Tag PROVE Content(ref)' = Content(ref)
  BY DEF Content

LEMMA ShowsStays == ASSUME flaws' = flaws, NEW d, NEW c, NEW gaps, Shows(d, c, gaps) PROVE Shows(d, c, gaps)'
<1>1. Clear(d, c)' = Clear(d, c)
  BY DEF Clear
<1>2. QED
  BY <1>1, ContentStays DEF Shows

LEMMA NamedStays == ASSUME NEW c, NEW about, Named(c, about) PROVE Named(c, about)'
  BY ContentStays DEF Named

LEMMA RightStays == ASSUME flaws' = flaws, NEW r, Right(r) PROVE Right(r)'
<1>1. Flawless(r.unit, r.about, r.env, r.gaps)' = Flawless(r.unit, r.about, r.env, r.gaps)
  BY DEF Flawless
<1>2. r.head \in Revision \cup Digest => Content(r.head)' = Content(r.head)
  BY ContentStays, ReviewAssumption
<1>3. QED
  BY <1>1, <1>2 DEF Right

LEMMA ReportsStay == ASSUME ReportsSound, flaws' = flaws, reports' = reports PROVE ReportsSound'
<1>1. reports' \in Seq(Report)
  BY DEF ReportsSound
<1>2. ASSUME NEW i \in DOMAIN reports', reports'[i].acquired = "runtime", reports'[i].verdict = "READY"
      PROVE  Right(reports[i])'
  <2>1. PICK r : r = reports[i] /\ reports'[i] = r
    BY DEF ReportsSound
  <2>2. Right(r)
    BY <1>2, <2>1 DEF ReportsSound
  <2>3. Right(r)'
    BY <2>2, RightStays
  <2>4. QED
    BY <2>1, <2>3
<1>3. QED
  BY <1>1, <1>2 DEF ReportsSound

\* Nothing that is known of a review is lost while the world changes.
LEMMA ReviewedStays == ASSUME Reviewed, flaws' = flaws, review' = review PROVE Reviewed'
<1>1. PICK v : v = review /\ v = review'
  OBVIOUS
<1>2. CASE v.pc = "idle"
  BY <1>1, <1>2 DEF Reviewed
<1>3. CASE v.pc # "idle"
  <2>1. /\ Named(v.cand, v.about) /\ v.cand \in Resolved /\ v.statuses \subseteq Status
        /\ v.gaps \subseteq Static /\ v.pc \in {"collect", "emit"}
    BY <1>1, <1>3 DEF Reviewed
  <2>2. Named(v.cand, v.about)'
    BY <2>1, NamedStays
  <2>3. Named(review.cand, review.about)'
    BY <1>1, <2>2
  <2>4. CASE v.pc = "collect"
    <3>1. v.next \in 1 .. 14 /\ Shown
      BY <1>1, <2>4 DEF Reviewed
    <3>2. ASSUME v.statuses \subseteq Clean, NEW k \in 1 .. v.next - 1
          PROVE  Shows(Dims[k], v.cand, v.gaps)' /\ (Dims[k] = "ci" => v.ci = TRUE) /\ (Dims[k] = "scm" => v.approved = TRUE)
      BY <1>1, <3>1, <3>2, ShowsStays DEF Shown
    <3>3. Shown'
      BY <1>1, <3>2 DEF Shown
    <3>4. QED
      BY <1>1, <2>1, <2>3, <2>4, <3>1, <3>3 DEF Reviewed
  <2>5. CASE v.pc = "emit"
    <3>1. ASSUME v.statuses \subseteq Clean PROVE v.fresh = TRUE /\ \A d \in AllDims : Shows(d, v.cand, v.gaps)'
      BY <1>1, <2>5, <3>1, ShowsStays DEF Reviewed
    <3>2. QED
      BY <1>1, <2>1, <2>3, <2>5, <3>1 DEF Reviewed
  <2>6. QED
    BY <2>1, <2>4, <2>5
<1>4. QED
  BY <1>2, <1>3

-----------------------------------------------------------------------------
(* The steps of a review.                                                  *)

LEMMA StartKeeps == ASSUME ReviewInv, StartReview PROVE Reviewed'
<1>1. PICK t \in Targets :
        LET c     == IF t.mr THEN [t EXCEPT !.rev = tip] ELSE t
            about == IF c.mr THEN c.rev ELSE Content(c.head)
        IN  review' = [pc |-> "collect", cand |-> c, about |-> about, next |-> 1, odd |-> 0, statuses |-> {},
                       ci |-> None, approved |-> None, gaps |-> {}, partial |-> FALSE]
  BY DEF StartReview
<1> DEFINE c     == IF t.mr THEN [t EXCEPT !.rev = tip] ELSE t
           about == IF c.mr THEN c.rev ELSE Content(c.head)
<1>2. t \in Candidate /\ IF t.mr THEN t.rev = None /\ t.head = None ELSE t.head # None /\ RevOf(t) \in Revision
  BY ReviewAssumption
<1>3. c \in Candidate /\ c.mr = t.mr
      /\ IF c.mr THEN c.rev \in Revision /\ c.head = None ELSE c.head # None /\ RevOf(c) \in Revision
  <2>1. CASE t.mr
    BY <1>2, <2>1 DEF Candidate, ReviewInv, WorldType
  <2>2. CASE ~t.mr
    BY <1>2, <2>2
  <2>3. QED
    BY <2>1, <2>2
<1>4. c \in Resolved
  BY <1>3 DEF Resolved
<1>5. Named(c, about)
  <2>1. CASE c.mr
    <3>1. about = c.rev /\ c.rev \in Revision /\ c.rev # None
      BY <1>3, <2>1, ReviewAssumption
    <3>2. QED
      BY <2>1, <3>1 DEF Named, RevOf
  <2>2. CASE ~c.mr
    <3>1. c.head \in Revision \cup Digest \cup {Tag}
      BY <1>3, <2>2 DEF Candidate
    <3>2. QED
      BY <2>2, <3>1, ContentIs DEF Named, ReviewInv
  <2>3. QED
    BY <2>1, <2>2
<1>6. UNCHANGED <<tip, flaws>>
  BY DEF StartReview, world
<1> HIDE DEF c, about
<1>8. review' = [pc |-> "collect", cand |-> c, about |-> about, next |-> 1, odd |-> 0, statuses |-> {},
                 ci |-> None, approved |-> None, gaps |-> {}, partial |-> FALSE]
  BY <1>1 DEF c, about
<1>9. Shown'
  BY <1>8 DEF Shown
<1>10. PICK w : w = review' /\ w.pc = "collect" /\ w.cand = c /\ w.about = about /\ w.next = 1 /\ w.statuses = {}
              /\ w.gaps = {}
  BY <1>8
<1>11. PICK cc, a : cc = c /\ a = about
  OBVIOUS
<1>12. Named(cc, a)'
  BY <1>6, <1>5, <1>11, NamedStays
<1>13. Named(review.cand, review.about)'
  BY <1>10, <1>11, <1>12
<1>14. QED
  BY <1>4, <1>9, <1>10, <1>13 DEF Reviewed

LEMMA AssessKeeps == ASSUME ReviewInv, Assess PROVE Reviewed'
<1>1. PICK v : v = review
  OBVIOUS
<1> DEFINE d == Dims[v.next]
           c == v.cand
<1>2. PICK e \in Evidence(d, c), x \in Extra(d, c), odd \in {v.odd, v.odd + 1} :
        /\ Truthful(d, e, x) \/ Inferred(d, e, v.partial)
        /\ review' = Assessed(d, e, c, x, odd)
  <2>1. PICK dd, cc : dd = Dims[review.next] /\ cc = review.cand
    OBVIOUS
  <2>2. \E e \in Evidence(dd, cc), x \in Extra(dd, cc) :
          LET odd == IF e = Plain(cc) THEN review.odd ELSE review.odd + 1
          IN  /\ Truthful(dd, e, x) \/ Inferred(dd, e, review.partial)
              /\ odd <= MaxOdd
              /\ review' = Assessed(dd, e, cc, x, odd)
    BY <2>1, Zenon DEF Assess
  <2>3. \E e \in Evidence(dd, cc), x \in Extra(dd, cc), odd \in {review.odd, review.odd + 1} :
          /\ Truthful(dd, e, x) \/ Inferred(dd, e, review.partial)
          /\ review' = Assessed(dd, e, cc, x, odd)
    BY <2>2, Zenon
  <2>4. d = dd /\ c = cc /\ v = review
    BY <1>1, <2>1
  <2> HIDE DEF d, c
  <2>5. QED
    BY <2>3, <2>4
<1> DEFINE status == Gate(d, e, c, x)
<1>3. /\ v.pc = "collect" /\ v.next \in 1 .. 13 /\ d \in AllDims
      /\ c \in Resolved /\ v.statuses \subseteq Status /\ Named(c, v.about) /\ Shown /\ v.gaps \subseteq Static
  BY <1>1, DimsAre DEF ReviewInv, Reviewed, Assess
<1> DEFINE gaps == IF Gap(d, e, c, v.partial) THEN v.gaps \cup {d} ELSE v.gaps
<1>4. status \in Status
  BY <1>3, GateStatus
<1>5. status \in Clean => Shows(d, c, gaps) /\ (d \in {"ci", "scm"} => Reading(status) = TRUE)
  <2>1. Gap(d, e, c, v.partial) => d \in gaps
    OBVIOUS
  <2>2. PICK g, p : g = gaps /\ p = v.partial
    OBVIOUS
  <2>3. (Truthful(d, e, x) \/ Inferred(d, e, p)) /\ (Gap(d, e, c, p) => d \in g)
    BY <1>2, <2>1, <2>2
  <2>4. status \in Clean => Shows(d, c, g) /\ (d \in {"ci", "scm"} => Reading(status) = TRUE)
    BY <1>2, <1>3, <2>3, GateSound DEF ReviewInv
  <2>5. QED
    BY <2>2, <2>4
<1>6. UNCHANGED <<tip, flaws>>
  BY DEF Assess, world
<1>18. v.gaps \subseteq gaps /\ gaps \subseteq Static
  BY <1>3, ReviewAssumption DEF Gap, ReviewInv, WorldType
<1> HIDE DEF status, gaps
<1>7. PICK w : w = review'
  OBVIOUS
<1>8. /\ w.pc = "collect" /\ w.cand = c /\ w.about = v.about /\ w.next = v.next + 1
      /\ w.statuses = v.statuses \cup {status}
      /\ w.ci = (IF d = "ci" THEN Reading(status) ELSE v.ci)
      /\ w.approved = (IF d = "scm" THEN Reading(status) ELSE v.approved)
      /\ w.gaps = gaps
  BY <1>1, <1>2, <1>7 DEF status, gaps, Assessed
<1>9. ASSUME w.statuses \subseteq Clean, NEW k \in 1 .. w.next - 1
      PROVE  Shows(Dims[k], c, gaps) /\ (Dims[k] = "ci" => w.ci = TRUE) /\ (Dims[k] = "scm" => w.approved = TRUE)
  <2>1. status \in Clean /\ v.statuses \subseteq Clean
    BY <1>8, <1>9
  <2>2. CASE k = v.next
    BY <1>5, <1>8, <2>1, <2>2
  <2>3. CASE k # v.next
    <3>1. k \in 1 .. v.next - 1
      BY <1>3, <1>8, <1>9, <2>3
    <3>2. Shows(Dims[k], c, v.gaps) /\ (Dims[k] = "ci" => v.ci = TRUE) /\ (Dims[k] = "scm" => v.approved = TRUE)
      BY <1>1, <1>3, <2>1, <3>1 DEF Shown
    <3>3. (d = "ci" => Reading(status) = TRUE) /\ (d = "scm" => Reading(status) = TRUE)
      BY <1>5, <2>1
    <3>4. Shows(Dims[k], c, gaps)
      BY <1>18, <3>2, ShowsMore
    <3>5. QED
      BY <1>8, <3>2, <3>3, <3>4
  <2>4. QED
    BY <2>2, <2>3
<1> HIDE DEF c, d
<1>10. PICK cc : cc = c
  OBVIOUS
<1>11. PICK a : a = v.about
  OBVIOUS
<1>19. PICK gg : gg = gaps
  OBVIOUS
<1>12. Named(cc, a)'
  BY <1>3, <1>10, <1>11, NamedStays
<1>13. ASSUME w.statuses \subseteq Clean, NEW k \in 1 .. w.next - 1
       PROVE  Shows(Dims[k], cc, gg)'
  BY <1>6, <1>9, <1>10, <1>13, <1>19, ShowsStays
<1>14. Shown'
  BY <1>7, <1>8, <1>9, <1>10, <1>13, <1>19 DEF Shown
<1>15. Named(review.cand, review.about)'
  BY <1>7, <1>8, <1>10, <1>11, <1>12
<1>16. w.next \in 1 .. 14 /\ w.cand \in Resolved /\ w.statuses \subseteq Status /\ w.gaps \subseteq Static
  BY <1>3, <1>4, <1>8, <1>18
<1>17. QED
  BY <1>7, <1>8, <1>14, <1>15, <1>16 DEF Reviewed

\* The last reads are of the revision that was reviewed.
LEMMA RecheckKeeps == ASSUME ReviewInv, Recheck PROVE Reviewed'
<1>1. PICK v : v = review
  OBVIOUS
<1> DEFINE c        == v.cand
           now      == IF c.mr THEN tip ELSE Content(c.head)
           is       == Snapshot(c, now, ci[now], approved[now])
           snapshot == Snapshot(c, v.about, v.ci, v.approved)
<1>2. PICK f \in [head : {is.head, None}, resolution : {is.resolution, None},
                 ci : {is.ci, None}, approved : {is.approved, None}] :
        review' = [pc |-> "emit", cand |-> c, about |-> v.about,
                   fresh |-> (f = Snapshot(c, v.about, TRUE, TRUE)),
                   statuses |-> v.statuses \cup {Freshness(snapshot, f)},
                   gaps |-> v.gaps, partial |-> v.partial]
  BY <1>1 DEF Recheck
<1>3. /\ v.pc = "collect" /\ v.next = 14
      /\ c \in Resolved /\ v.statuses \subseteq Status /\ Named(c, v.about) /\ Shown /\ v.gaps \subseteq Static
  BY <1>1, DimsAre DEF ReviewInv, Reviewed, Recheck
<1>4. now \in Revision
  <2>1. ~c.mr => c.head \in Revision \cup Digest \cup {Tag}
    BY <1>3 DEF Resolved, Candidate
  <2>2. QED
    BY <2>1, ContentIs DEF ReviewInv, WorldType
<1>5. Freshness(snapshot, f) \in Status \ {"NOT_APPLICABLE", "CONDITIONAL"}
  BY FreshnessIs
<1> DEFINE fresh    == (f = Snapshot(c, v.about, TRUE, TRUE))
           statuses == v.statuses \cup {Freshness(snapshot, f)}
<1>6. statuses \subseteq Status
  BY <1>3, <1>5
<1>7. ASSUME statuses \subseteq Clean PROVE \A d \in AllDims : Shows(d, c, v.gaps)
  <2>1. v.statuses \subseteq Clean
    BY <1>7
  <2>2. \A k \in 1 .. 13 : Shows(Dims[k], c, v.gaps)
    BY <1>1, <1>3, <2>1 DEF Shown
  <2>3. QED
    BY <2>2, DimsAre
<1>8. ASSUME statuses \subseteq Clean PROVE fresh
  <2>1. v.statuses \subseteq Clean
    BY <1>8
  <2>2. Freshness(snapshot, f) = "PASS"
    BY <1>5, <1>8 DEF Clean
  <2>3. v.ci = TRUE /\ v.approved = TRUE
    <3>1. PICK i \in 1 .. 13 : Dims[i] = "ci"
      BY DimsAre DEF AllDims
    <3>2. PICK j \in 1 .. 13 : Dims[j] = "scm"
      BY DimsAre DEF AllDims
    <3>3. QED
      BY <1>1, <1>3, <2>1, <3>1, <3>2 DEF Shown
  <2>4. snapshot.ci = TRUE /\ snapshot.approved = TRUE
    BY <2>3 DEF Snapshot
  <2>5. /\ f.head = snapshot.head /\ f.resolution = snapshot.resolution
        /\ f.ci \notin {FALSE, None} /\ f.approved \notin {FALSE, None}
    BY <2>2, <2>4, FreshnessIs
  <2>6. f.ci \in {TRUE, FALSE, None} /\ f.approved \in {TRUE, FALSE, None}
    <3>1. is.ci = ci[now] /\ is.approved = approved[now]
      BY DEF Snapshot
    <3>2. ci[now] \in BOOLEAN /\ approved[now] \in BOOLEAN
      BY <1>4 DEF ReviewInv, WorldType
    <3>3. QED
      BY <1>2, <3>1, <3>2
  <2>7. f.ci = TRUE /\ f.approved = TRUE
    BY <2>5, <2>6
  <2>8. f = [head |-> f.head, resolution |-> f.resolution, ci |-> f.ci, approved |-> f.approved]
    BY <1>2
  <2>9. QED
    BY <2>5, <2>7, <2>8 DEF Snapshot
<1>9. UNCHANGED <<tip, flaws>>
  BY DEF Recheck, world
<1>10. PICK cc, a : cc = c /\ a = v.about
  OBVIOUS
<1>17. PICK gg : gg = v.gaps
  OBVIOUS
<1>18. PICK fr, st, pt : fr = fresh /\ st = statuses /\ pt = v.partial
  OBVIOUS
<1>20. review' = [pc |-> "emit", cand |-> cc, about |-> a, fresh |-> fr, statuses |-> st, gaps |-> gg, partial |-> pt]
  BY <1>2, <1>10, <1>17, <1>18
<1> HIDE DEF fresh, statuses
<1>11. PICK w : w = review' /\ w.pc = "emit" /\ w.cand = cc /\ w.about = a /\ w.fresh = fresh /\ w.statuses = statuses
              /\ w.gaps = gg
  BY <1>18, <1>20
<1>12. Named(cc, a)'
  BY <1>3, <1>10, NamedStays
<1>13. ASSUME statuses \subseteq Clean PROVE \A d \in AllDims : Shows(d, cc, gg)'
  BY <1>7, <1>9, <1>10, <1>13, <1>17, ShowsStays
<1>14. Named(review.cand, review.about)'
  BY <1>11, <1>12
<1>15. statuses \subseteq Clean => fresh = TRUE
  BY <1>8 DEF fresh
<1>16. QED
  BY <1>3, <1>6, <1>10, <1>11, <1>13, <1>14, <1>15, <1>17 DEF Reviewed

\* A report says READY only if every answer was clean.
LEMMA EmitKeeps == ASSUME ReviewInv, Emit PROVE Reviewed' /\ ReportsSound'
<1>1. PICK v : v = review
  OBVIOUS
<1> DEFINE c       == v.cand
           verdict == Aggregate(v.statuses)
           r == [unit |-> c.unit, env |-> c.env, head |-> IF c.mr THEN None ELSE c.head, rev |-> RevOf(c),
                 verdict |-> verdict, acquired |-> "runtime",
                 about |-> IF verdict = "READY" THEN v.about ELSE None,
                 fresh |-> verdict = "READY" /\ v.fresh,
                 gaps |-> IF verdict = "READY" THEN v.gaps ELSE {},
                 partial |-> verdict = "READY" /\ v.partial]
<1>2. reports' = Append(reports, r) /\ review' = NoReview /\ UNCHANGED <<tip, flaws>>
  BY <1>1 DEF Emit, world
<1>3. /\ v.pc = "emit" /\ c \in Resolved /\ v.statuses \subseteq Status /\ Named(c, v.about)
      /\ v.gaps \subseteq Static
  BY <1>1 DEF ReviewInv, Reviewed, Emit
<1>4. Reviewed'
  BY <1>2 DEF Reviewed, NoReview
<1>5. r \in Report
  <2>1. verdict \in Verdict
    BY AggregateVerdict
  <2>2. c.unit \in Unit /\ c.env \in Env \cup {None} /\ c.head \in Revision \cup Digest \cup {Tag, None}
    BY <1>3 DEF Resolved, Candidate
  <2>3. (IF c.mr THEN None ELSE c.head) \in Reference /\ RevOf(c) \in Reference
    BY <1>3, <2>2, ResolvedRev DEF Reference
  <2>4. (IF verdict = "READY" THEN v.about ELSE None) \in Revision \cup {None}
    BY <1>3 DEF Named
  <2>5. (verdict = "READY" /\ v.fresh) \in BOOLEAN
    OBVIOUS
  <2>6. (IF verdict = "READY" THEN v.gaps ELSE {}) \in SUBSET Static /\ (verdict = "READY" /\ v.partial) \in BOOLEAN
    BY <1>3
  <2>7. QED
    BY <2>1, <2>2, <2>3, <2>4, <2>5, <2>6 DEF Report
<1>6. ASSUME verdict = "READY" PROVE Right(r)
  <2>1. v.statuses \subseteq Clean
    BY <1>3, <1>6, AggregateReady
  <2>2. v.fresh = TRUE /\ \A d \in AllDims : Shows(d, c, v.gaps)
    BY <1>1, <1>3, <2>1 DEF ReviewInv, Reviewed
  <2>3. c.env \in Env
    BY <1>3, <2>2 DEF Shows, AllDims, Static, Resolved, Candidate
  <2>4. v.about = RevOf(c) /\ (~c.mr => v.about = Content(c.head))
    <3>1. ~c.mr => c.head # Tag /\ Content(c.head) = RevOf(c)
      BY <2>2 DEF Shows, AllDims
    <3>2. QED
      BY <1>3, <3>1 DEF Named
  <2>5. Flawless(c.unit, v.about, c.env, v.gaps)
    <3>1. ASSUME NEW f \in flaws, f.unit = c.unit, f.rev = v.about, f.env = c.env, f.dim \notin v.gaps PROVE FALSE
      <4>1. f.dim \in Static
        BY ReviewAssumption DEF ReviewInv, WorldType
      <4>2. Clear(f.dim, c)
        BY <2>2, <3>1, <4>1 DEF Shows, AllDims
      <4>3. QED
        BY <2>4, <3>1, <4>2 DEF Clear
    <3>2. QED
      BY <3>1 DEF Flawless
  <2>6. c.mr => (IF c.mr THEN None ELSE c.head) \notin Revision \cup Digest
    BY ReviewAssumption
  <2>7. r.rev = RevOf(c) /\ r.about = v.about /\ r.unit = c.unit /\ r.env = c.env
        /\ r.head = (IF c.mr THEN None ELSE c.head) /\ r.gaps = v.gaps
    BY <1>6
  <2>8. r.fresh
    BY <1>6, <2>2
  <2> HIDE DEF r, c
  <2>9. QED
    BY <2>3, <2>4, <2>5, <2>6, <2>7, <2>8 DEF Right
<1>7. r.verdict = verdict
  OBVIOUS
<1> HIDE DEF r
<1>8. PICK rr : rr = r
  OBVIOUS
<1>9. rr.verdict = "READY" => Right(rr)'
  BY <1>2, <1>6, <1>7, <1>8, RightStays
<1>10. reports \in Seq(Report) /\ \A i \in DOMAIN reports : reports[i].acquired = "runtime" /\ reports[i].verdict = "READY" => Right(reports[i])
  BY DEF ReviewInv, ReportsSound
<1>11. /\ Append(reports, rr) \in Seq(Report) /\ DOMAIN Append(reports, rr) = DOMAIN reports \cup {Len(reports) + 1}
       /\ \A i \in DOMAIN reports : Append(reports, rr)[i] = reports[i]
       /\ Append(reports, rr)[Len(reports) + 1] = rr
  <2>1. reports \in Seq(Report) /\ rr \in Report
    BY <1>5, <1>8, <1>10
  <2>2. QED
    BY ONLY <2>1
<1>12. ASSUME NEW i \in DOMAIN reports', reports'[i].acquired = "runtime", reports'[i].verdict = "READY"
       PROVE  Right(reports[i])'
  <2>1. PICK q : q = reports'[i]
    OBVIOUS
  <2>2. CASE i = Len(reports) + 1
    BY <1>2, <1>8, <1>9, <1>11, <1>12, <2>1, <2>2
  <2>3. CASE i # Len(reports) + 1
    <3>1. i \in DOMAIN reports /\ q = reports[i]
      BY <1>2, <1>8, <1>11, <2>1, <2>3
    <3>2. Right(q)
      BY <1>10, <1>12, <2>1, <3>1
    <3>3. Right(q)'
      BY <1>2, <3>2, RightStays
    <3>4. QED
      BY <2>1, <3>3
  <2>4. QED
    BY <2>2, <2>3
<1>13. ReportsSound'
  BY <1>2, <1>8, <1>11, <1>12 DEF ReportsSound
<1>14. QED
  BY <1>4, <1>13

\* Reviews keep the invariant, and so does whatever the world does meanwhile.
LEMMA ReviewStepKeeps == ASSUME ReviewInv, ReviewStep PROVE ReviewInv'
<1>1. UNCHANGED world
  BY DEF ReviewStep, StartReview, Assess, Recheck, Emit
<1>2. WorldType'
  BY <1>1 DEF ReviewInv, WorldType, world
<1>3. flaws' = flaws
  BY <1>1 DEF world
<1>4. ReportsSound
  BY DEF ReviewInv
<1>5. CASE StartReview
  BY <1>2, <1>3, <1>4, <1>5, StartKeeps, ReportsStay DEF ReviewInv, StartReview
<1>6. CASE Assess
  BY <1>2, <1>3, <1>4, <1>6, AssessKeeps, ReportsStay DEF ReviewInv, Assess
<1>7. CASE Recheck
  BY <1>2, <1>3, <1>4, <1>7, RecheckKeeps, ReportsStay DEF ReviewInv, Recheck
<1>8. CASE Emit
  BY <1>2, <1>8, EmitKeeps DEF ReviewInv
<1>9. QED
  BY <1>5, <1>6, <1>7, <1>8 DEF ReviewStep

LEMMA WorldStepKeeps == ASSUME ReviewInv, WorldStep PROVE ReviewInv' /\ flaws' = flaws /\ UNCHANGED reviewVars
<1>1. flaws' = flaws /\ review' = review /\ reports' = reports /\ UNCHANGED reviewVars
  BY DEF WorldStep, TipMoves, CiChanges, ApprovalMoves, Moves, reviewVars
<1>2. WorldType'
  BY <1>1 DEF ReviewInv, WorldType, WorldStep, TipMoves, CiChanges, ApprovalMoves, Moves
<1>3. QED
  BY <1>1, <1>2, ReviewedStays, ReportsStay DEF ReviewInv

LEMMA StillReviewed == ASSUME ReviewInv, UNCHANGED <<world, reviewVars>> PROVE ReviewInv'
<1>1. flaws' = flaws /\ review' = review /\ reports' = reports /\ WorldType'
  BY DEF world, reviewVars, ReviewInv, WorldType
<1>2. QED
  BY <1>1, ReviewedStays, ReportsStay DEF ReviewInv

LEMMA SoundIsTrue == ASSUME ReviewInv PROVE ReadyIsTrue
  BY DEF ReviewInv, ReportsSound, Right, ReadyIsTrue, Ready

-----------------------------------------------------------------------------
(***************************************************************************)
(* Releases.                                                               *)
(***************************************************************************)
ManifestEntry == [unit : Unit \cup {None}, env : Env \cup {None}, rev : Reference, ref : Reference,
                  required : BOOLEAN, pin : Nat \cup {None}]
ResultType    == [entry : ManifestEntry, verdict : Verdict, source : Nat \cup {None}, gaps : SUBSET Static]

\* An entry that may go out, and one of which a result says so.
Good(e, gaps)      == Immutable(e.ref) /\ Flawless(e.unit, Content(e.ref), e.env, gaps)
Passed(e, results) == \E j \in DOMAIN results : results[j].entry = e /\ Good(e, results[j].gaps)

TrueBundle(b) == b # None /\ Usable(b) => ~\E f \in flaws : f.dim = "review" /\ f.unit = b.unit /\ f.rev = b.rev

Agreed(result, trusted) ==
  result.source \in DOMAIN trusted =>
    \A i \in DOMAIN trusted : Trusted(trusted[i]) /\ Matches(result.entry, trusted[i]) => trusted[i].verdict = result.verdict

\* The parts of a run that do not change.
Called(r) ==
  /\ r.manifest \in Seq(ManifestEntry) /\ TrueBundle(r.bundle)
  /\ r.trusted \in Seq(Report)
  /\ \A i \in DOMAIN r.trusted : r.trusted[i].acquired = "runtime" /\ r.trusted[i].verdict = "READY" => Right(r.trusted[i])

\* How far it is.
Progress(r) ==
  /\ r.next \in 1 .. Len(r.manifest) + 1
  /\ IF r.pc = "done" THEN r.next = Len(r.manifest) + 1 ELSE r.next <= Len(r.manifest)
  /\ r.overall \in Verdict /\ r.seen \subseteq Verdict
  /\ r.pc # "checks" => r.seen # {}

\* READY so far: every check was, and every entry may go out.
ReadyRun(r) ==
  r.overall = "READY" =>
    /\ r.seen \subseteq {"READY"}
    /\ \A i \in 1 .. r.next - 1 : r.manifest[i].required => Passed(r.manifest[i], r.results)

\* Nothing unresolved so far.
ResolvedRun(r) ==
  r.unresolved = {} =>
    /\ r.overall # "UNKNOWN" /\ "UNKNOWN" \notin r.seen
    /\ \A i \in 1 .. r.next - 1 : r.manifest[i].required =>
         \E j \in DOMAIN r.results : r.results[j].entry = r.manifest[i] /\ r.results[j].source # None

AgreedRun(r) == r.results \in Seq(ResultType) /\ \A j \in DOMAIN r.results : Agreed(r.results[j], r.trusted)

Run(r) == Called(r) /\ Progress(r) /\ ReadyRun(r) /\ ResolvedRun(r) /\ AgreedRun(r)

\* What a report of the run says.
Final(r) ==
  /\ r.overall = "READY" =>
       /\ r.seen = {"READY"}
       /\ \A i \in DOMAIN r.manifest : r.manifest[i].required => Passed(r.manifest[i], r.results)
  /\ r.status = "SUCCESS" =>
       /\ r.overall # "UNKNOWN" /\ "UNKNOWN" \notin r.seen
       /\ \A i \in DOMAIN r.manifest : r.manifest[i].required =>
            \E j \in DOMAIN r.results : r.results[j].entry = r.manifest[i] /\ r.results[j].source # None
  /\ \A j \in DOMAIN r.results : Agreed(r.results[j], r.trusted)

RunInv(r) ==
  /\ r.pc \in {"idle", "begun", "blocked", "checks", "fence", "done", "reported"}
  /\ r.pc = "begun" => r.manifest \in Manifests /\ TrueBundle(r.bundle)
  /\ r.pc \in {"checks", "fence", "done"} => Run(r)
  /\ r.pc = "reported" => Final(r)

ReleaseInv == ReviewInv /\ RunInv(release)

-----------------------------------------------------------------------------
(* Verdicts.                                                               *)

LEMMA RankIs ==
  /\ Rank["READY"] = 0 /\ Rank["CONDITIONAL"] = 1 /\ Rank["UNKNOWN"] = 2 /\ Rank["NOT_READY"] = 3
  /\ \A v \in Verdict : Rank[v] \in 0 .. 3
<1> DEFINE R(v) == CASE v = "READY" -> 0 [] v = "CONDITIONAL" -> 1 [] v = "UNKNOWN" -> 2 [] v = "NOT_READY" -> 3
<1>1. \A v \in Verdict : Rank[v] = R(v)
  BY DEF Rank
<1>2. R("READY") = 0 /\ R("CONDITIONAL") = 1 /\ R("UNKNOWN") = 2 /\ R("NOT_READY") = 3
  OBVIOUS
<1> HIDE DEF R
<1>3. QED
  BY <1>1, <1>2 DEF Verdict

LEMMA CapIs ==
  ASSUME NEW current \in Verdict, NEW verdict \in Verdict
  PROVE  /\ Cap(current, verdict) \in {current, verdict}
         /\ Cap(current, verdict) = "READY" => current = "READY" /\ verdict = "READY"
  BY RankIs DEF Cap, Verdict

\* A set of verdicts has a worst one.
LEMMA Worst ==
  ASSUME NEW verdicts \in SUBSET Verdict, verdicts # {}
  PROVE  \E v \in verdicts : \A w \in verdicts : Rank[w] <= Rank[v]
<1>1. CASE "NOT_READY" \in verdicts
  BY <1>1, RankIs DEF Verdict
<1>2. CASE "NOT_READY" \notin verdicts /\ "UNKNOWN" \in verdicts
  BY <1>2, RankIs DEF Verdict
<1>3. CASE "NOT_READY" \notin verdicts /\ "UNKNOWN" \notin verdicts /\ "CONDITIONAL" \in verdicts
  BY <1>3, RankIs DEF Verdict
<1>4. CASE "NOT_READY" \notin verdicts /\ "UNKNOWN" \notin verdicts /\ "CONDITIONAL" \notin verdicts
  <2>1. \A v \in verdicts : v = "READY"
    BY <1>4 DEF Verdict
  <2>2. QED
    BY <2>1, RankIs
<1>5. QED
  BY <1>1, <1>2, <1>3, <1>4

LEMMA CapAllIs ==
  ASSUME NEW current \in Verdict, NEW verdicts \in SUBSET Verdict
  PROVE  /\ CapAll(current, verdicts) \in verdicts \cup {current}
         /\ CapAll(current, verdicts) = "READY" => verdicts \cup {current} = {"READY"}
<1> DEFINE all == verdicts \cup {current}
<1>1. CapAll(current, verdicts) \in all /\ \A w \in all : Rank[w] <= Rank[CapAll(current, verdicts)]
  <2>1. \E v \in all : \A w \in all : Rank[w] <= Rank[v]
    <3>1. all \in SUBSET Verdict /\ all # {}
      OBVIOUS
    <3>2. QED
      BY <3>1, Worst
  <2>2. CapAll(current, verdicts) = CHOOSE v \in all : \A w \in all : Rank[w] <= Rank[v]
    BY DEF CapAll
  <2>3. QED
    BY <2>1, <2>2
<1>2. ASSUME CapAll(current, verdicts) = "READY", NEW w \in all PROVE w = "READY"
  <2>1. Rank[w] <= 0
    BY <1>1, <1>2, RankIs
  <2>2. QED
    BY <2>1, RankIs DEF Verdict
<1>3. QED
  BY <1>1, <1>2

-----------------------------------------------------------------------------
(* Nothing is lost while the world changes.                                *)

LEMMA GoodStays == ASSUME flaws' = flaws, NEW e, NEW gaps, Good(e, gaps) PROVE Good(e, gaps)'
<1>1. e.ref # Tag
  BY ReviewAssumption DEF Good, Immutable
<1>2. Content(e.ref)' = Content(e.ref)
  BY <1>1, ContentStays
<1>3. Flawless(e.unit, Content(e.ref), e.env, gaps)' = Flawless(e.unit, Content(e.ref), e.env, gaps)
  BY <1>2 DEF Flawless
<1>4. QED
  BY <1>3 DEF Good, Immutable

LEMMA PassedStays == ASSUME flaws' = flaws, NEW e, NEW results, Passed(e, results) PROVE Passed(e, results)'
  BY GoodStays DEF Passed

LEMMA BundleStays == ASSUME flaws' = flaws, NEW b, TrueBundle(b) PROVE TrueBundle(b)'
  BY DEF TrueBundle

LEMMA CalledStays == ASSUME flaws' = flaws, NEW r, Called(r) PROVE Called(r)'
  BY RightStays, BundleStays DEF Called

LEMMA ReadyRunStays == ASSUME flaws' = flaws, NEW r, ReadyRun(r) PROVE ReadyRun(r)'
  BY PassedStays DEF ReadyRun

LEMMA FinalStays == ASSUME flaws' = flaws, NEW r, Final(r) PROVE Final(r)'
<1>1. (r.overall = "READY" =>
        /\ r.seen = {"READY"}
        /\ \A i \in DOMAIN r.manifest : r.manifest[i].required => Passed(r.manifest[i], r.results))'
  BY PassedStays DEF Final
<1>2. QED
  BY <1>1 DEF Final

LEMMA RunInvStays == ASSUME flaws' = flaws, NEW r, RunInv(r) PROVE RunInv(r)'
<1>1. Run(r) => Run(r)'
  <2>1. Progress(r)' = Progress(r) /\ ResolvedRun(r)' = ResolvedRun(r) /\ AgreedRun(r)' = AgreedRun(r)
    BY DEF Progress, ResolvedRun, AgreedRun
  <2>2. QED
    BY <2>1, CalledStays, ReadyRunStays DEF Run
<1>2. QED
  BY <1>1, BundleStays, FinalStays DEF RunInv

-----------------------------------------------------------------------------
(* The next entry is settled.                                              *)

LEMMA AdvancesKeep ==
  ASSUME NEW r, r = release, Run(r), r.pc = "fence", flaws' = flaws,
         NEW overall \in Verdict, NEW unresolved, NEW results \in Seq(ResultType),
         Advances(overall, unresolved, results),
         overall = "READY" => r.overall = "READY" /\ (Entry.required => Passed(Entry, results)),
         unresolved = {} => /\ r.unresolved = {} /\ overall # "UNKNOWN"
                            /\ Entry.required => \E j \in DOMAIN results :
                                 results[j].entry = Entry /\ results[j].source # None,
         \A j \in DOMAIN r.results : j \in DOMAIN results /\ results[j] = r.results[j],
         \A j \in DOMAIN results : Agreed(results[j], r.trusted)
  PROVE  RunInv(release)'
<1> DEFINE pc == IF r.next = Len(r.manifest) THEN "done" ELSE "checks"
<1>1. PICK w : w = release'
  OBVIOUS
<1>2. /\ w.pc = pc /\ w.next = r.next + 1 /\ w.overall = overall /\ w.seen = r.seen /\ w.unresolved = unresolved
      /\ w.results = results /\ w.manifest = r.manifest /\ w.bundle = r.bundle /\ w.trusted = r.trusted
  BY <1>1 DEF Advances, Runs
<1>3. Called(r) /\ Progress(r) /\ ReadyRun(r) /\ ResolvedRun(r) /\ AgreedRun(r)
  BY DEF Run
<1>4. r.manifest \in Seq(ManifestEntry) /\ r.next \in 1 .. Len(r.manifest) /\ Entry = r.manifest[r.next]
  BY <1>3 DEF Called, Progress, Entry
<1>5. Called(w)
  BY <1>2, <1>3 DEF Called
<1>6. Progress(w)
  BY <1>2, <1>3, <1>4 DEF Progress
<1>7. ReadyRun(w)
  <2>1. ASSUME overall = "READY", NEW i \in 1 .. r.next, r.manifest[i].required PROVE Passed(r.manifest[i], results)
    <3>1. CASE i = r.next
      BY <1>4, <2>1, <3>1
    <3>2. CASE i # r.next
      <4>1. Passed(r.manifest[i], r.results)
        BY <1>3, <1>4, <2>1, <3>2 DEF ReadyRun
      <4>2. QED
        BY <4>1 DEF Passed
    <3>3. QED
      BY <3>1, <3>2
  <2>2. overall = "READY" => r.seen \subseteq {"READY"}
    BY <1>3 DEF ReadyRun
  <2>3. QED
    BY <1>2, <1>4, <2>1, <2>2 DEF ReadyRun
<1>8. ResolvedRun(w)
  <2>1. ASSUME unresolved = {}, NEW i \in 1 .. r.next, r.manifest[i].required
        PROVE  \E j \in DOMAIN results : results[j].entry = r.manifest[i] /\ results[j].source # None
    BY <1>3, <1>4, <2>1 DEF ResolvedRun
  <2>2. unresolved = {} => "UNKNOWN" \notin r.seen
    BY <1>3 DEF ResolvedRun
  <2>3. QED
    BY <1>2, <1>4, <2>1, <2>2 DEF ResolvedRun
<1>9. AgreedRun(w)
  BY <1>2 DEF AgreedRun
<1>10. RunInv(w)
  BY <1>2, <1>5, <1>6, <1>7, <1>8, <1>9 DEF Run, RunInv
<1>11. RunInv(w)'
  BY <1>10, RunInvStays
<1>12. QED
  BY <1>1, <1>11

LEMMA SettleKeeps ==
  ASSUME NEW r, r = release, Run(r), r.pc = "fence", flaws' = flaws,
         NEW verdict \in Verdict, NEW source \in Nat \cup {None}, NEW gaps \in SUBSET Static,
         Settle(verdict, source, gaps),
         verdict # "UNKNOWN" => source # None,
         verdict = "READY" => Good(Entry, gaps),
         source \in DOMAIN r.trusted => \A i \in Matching : r.trusted[i].verdict = verdict
  PROVE  RunInv(release)'
<1>1. PICK e : e = Entry
  OBVIOUS
<1>2. Called(r) /\ Progress(r) /\ AgreedRun(r)
  BY DEF Run
<1>3. e \in ManifestEntry
  BY <1>1, <1>2 DEF Called, Progress, Entry
<1> DEFINE result     == [entry |-> e, verdict |-> verdict, source |-> source, gaps |-> gaps]
           results    == Append(r.results, result)
           overall    == Cap(r.overall, verdict)
           unresolved == IF verdict = "UNKNOWN" THEN r.unresolved \cup {"production_readiness"} ELSE r.unresolved
<1>4. r.results \in Seq(ResultType) /\ result \in ResultType
  BY <1>2, <1>3 DEF AgreedRun, ResultType
<1>5. Advances(overall, unresolved, results)
  BY <1>1 DEF Settle, Results
<1>6. overall \in Verdict /\ overall \in {r.overall, verdict}
      /\ (overall = "READY" => r.overall = "READY" /\ verdict = "READY")
  BY <1>2, CapIs DEF Progress
<1>8. /\ results \in Seq(ResultType) /\ DOMAIN results = DOMAIN r.results \cup {Len(r.results) + 1}
      /\ \A j \in DOMAIN r.results : results[j] = r.results[j]
      /\ results[Len(r.results) + 1] = result
  BY ONLY <1>4
<1>7. overall = "READY" => r.overall = "READY" /\ (Entry.required => Passed(Entry, results))
  <2>1. result.entry = Entry /\ result.gaps = gaps
    BY <1>1
  <2>2. QED
    BY <1>6, <1>8, <2>1 DEF Passed
<1>9. Agreed(result, r.trusted)
  BY <1>1 DEF Agreed, Matching
<1>10. \A j \in DOMAIN results : Agreed(results[j], r.trusted)
  BY <1>2, <1>8, <1>9 DEF AgreedRun
<1>11. ASSUME unresolved = {}
       PROVE  /\ r.unresolved = {} /\ overall # "UNKNOWN"
              /\ Entry.required => \E j \in DOMAIN results : results[j].entry = Entry /\ results[j].source # None
  <2>1. r.unresolved = {} /\ verdict # "UNKNOWN"
    BY <1>11
  <2>2. r.overall # "UNKNOWN"
    BY <2>1 DEF Run, ResolvedRun
  <2>3. result.entry = Entry /\ result.source # None
    BY <1>1, <2>1
  <2>4. QED
    BY <1>6, <1>8, <2>1, <2>2, <2>3
<1> HIDE DEF overall, unresolved, results
<1>12. PICK o, u, s : o = overall /\ u = unresolved /\ s = results
  OBVIOUS
<1>13. QED
  BY <1>5, <1>6, <1>7, <1>8, <1>10, <1>11, <1>12, AdvancesKeep

-----------------------------------------------------------------------------
(* The steps of a run.                                                     *)

LEMMA BeginKeeps == ASSUME ReleaseInv, Begin PROVE RunInv(release)'
<1>1. PICK m \in Manifests, b \in Bundles \cup {None}, tracked \in BOOLEAN :
        /\ b # None => Truthful("review", b, None)
        /\ release' = [pc |-> "begun", manifest |-> m, bundle |-> b, tracked |-> tracked, start |-> tip]
  BY DEF Begin
<1>2. PICK w : w = release'
  OBVIOUS
<1>3. TrueBundle(b)
  BY <1>1 DEF Truthful, TrueBundle, Usable
<1>4. RunInv(w)
  BY <1>1, <1>2, <1>3 DEF RunInv
<1>5. flaws' = flaws
  BY DEF Begin, world
<1>6. QED
  BY <1>2, <1>4, <1>5, RunInvStays

LEMMA CallKeeps == ASSUME ReleaseInv, Call PROVE RunInv(release)'
<1>1. PICK r, w : r = release /\ w = release'
  OBVIOUS
<1>2. r.pc = "begun" /\ r.manifest \in Manifests /\ TrueBundle(r.bundle)
  BY <1>1 DEF Call, ReleaseInv, RunInv
<1>3. /\ w.pc = (IF r.manifest = << >> THEN "blocked" ELSE "checks")
      /\ w.manifest = r.manifest /\ w.bundle = r.bundle /\ w.trusted = reports /\ w.next = 1
      /\ w.overall = (IF r.manifest = << >> THEN "UNKNOWN" ELSE "READY")
      /\ w.seen = {} /\ w.unresolved = {} /\ w.results = << >>
  BY <1>1 DEF Call
<1>4. flaws' = flaws
  BY DEF Call, world
<1>5. w.manifest \in Seq(ManifestEntry)
  BY <1>2, <1>3, ReleaseAssumption DEF ManifestEntry
<1>6. ASSUME w.pc = "blocked" PROVE RunInv(w)
  BY <1>6 DEF RunInv
<1>7. ASSUME w.pc = "checks" PROVE RunInv(w)
  <2>1. Called(w)
    BY <1>2, <1>3, <1>5 DEF Called, ReleaseInv, ReviewInv, ReportsSound
  <2>2. w.overall = "READY" /\ Len(w.manifest) >= 1
    BY <1>3, <1>5, <1>7
  <2>3. Progress(w)
    BY <1>3, <1>5, <1>7, <2>2 DEF Progress, Verdict
  <2>4. ReadyRun(w) /\ ResolvedRun(w) /\ AgreedRun(w)
    BY <1>3, <2>2 DEF ReadyRun, ResolvedRun, AgreedRun
  <2>5. QED
    BY <1>7, <2>1, <2>3, <2>4 DEF RunInv, Run
<1>8. RunInv(w)
  BY <1>3, <1>6, <1>7
<1>9. QED
  BY <1>1, <1>4, <1>8, RunInvStays

LEMMA CheckKeeps == ASSUME ReleaseInv, Check PROVE RunInv(release)'
<1>1. PICK r, w : r = release /\ w = release'
  OBVIOUS
<1>2. r.pc = "checks" /\ Called(r) /\ Progress(r) /\ ReadyRun(r) /\ ResolvedRun(r) /\ AgreedRun(r)
  BY <1>1 DEF Check, ReleaseInv, RunInv, Run
<1>3. PICK outcomes \in Outcomes :
        Runs("fence", r.next, CapAll(r.overall, outcomes), r.seen \cup outcomes,
             IF "UNKNOWN" \in outcomes THEN r.unresolved \cup {"check"} ELSE r.unresolved, r.results)
  BY <1>1 DEF Check
<1> DEFINE overall == CapAll(r.overall, outcomes)
<1>4. /\ w.pc = "fence" /\ w.next = r.next /\ w.overall = overall /\ w.seen = r.seen \cup outcomes
      /\ w.unresolved = (IF "UNKNOWN" \in outcomes THEN r.unresolved \cup {"check"} ELSE r.unresolved)
      /\ w.results = r.results /\ w.manifest = r.manifest /\ w.bundle = r.bundle /\ w.trusted = r.trusted
  BY <1>1, <1>3 DEF Runs
<1>5. outcomes \subseteq Verdict /\ outcomes # {}
  BY ReleaseAssumption
<1>6. overall \in outcomes \cup {r.overall} /\ (overall = "READY" => outcomes \cup {r.overall} = {"READY"})
  BY <1>2, <1>5, CapAllIs DEF Progress
<1> HIDE DEF overall
<1>7. Called(w)
  BY <1>2, <1>4 DEF Called
<1>8. Progress(w)
  BY <1>2, <1>4, <1>5, <1>6 DEF Progress
<1>9. ReadyRun(w)
  BY <1>2, <1>4, <1>6 DEF ReadyRun
<1>10. ResolvedRun(w)
  BY <1>2, <1>4, <1>6 DEF ResolvedRun
<1>11. AgreedRun(w)
  BY <1>2, <1>4 DEF AgreedRun
<1>12. RunInv(w)
  BY <1>4, <1>7, <1>8, <1>9, <1>10, <1>11 DEF RunInv, Run
<1>13. flaws' = flaws
  BY DEF Check, world
<1>14. QED
  BY <1>1, <1>12, <1>13, RunInvStays

\* An entry whose reference moved is not known to be ready.
LEMMA FenceKeeps == ASSUME ReleaseInv, Fence PROVE RunInv(release)'
<1>1. PICK r, e : r = release /\ e = Entry
  OBVIOUS
<1>2. r.pc = "fence" /\ Run(r) /\ Called(r) /\ Progress(r) /\ AgreedRun(r) /\ flaws' = flaws
  BY <1>1 DEF Fence, ReleaseInv, RunInv, Run, world
<1> DEFINE result  == [entry |-> e, verdict |-> "UNKNOWN", source |-> None, gaps |-> {}]
           results == IF e.required THEN Append(r.results, result) ELSE r.results
           overall == Cap(r.overall, "UNKNOWN")
           unresolved == r.unresolved \cup {"release_ref_freshness"}
<1>3. Advances(overall, unresolved, results)
  BY <1>1 DEF Fence, Results
<1>4. overall \in Verdict /\ overall # "READY"
  BY <1>2, CapIs DEF Progress, Verdict
<1>5. r.results \in Seq(ResultType) /\ result \in ResultType
  <2>1. e \in ManifestEntry
    BY <1>1, <1>2 DEF Called, Progress, Entry
  <2>2. QED
    BY <1>2, <2>1 DEF AgreedRun, ResultType, Verdict
<1>6. /\ results \in Seq(ResultType)
      /\ \A j \in DOMAIN r.results : j \in DOMAIN results /\ results[j] = r.results[j]
      /\ \A j \in DOMAIN results : results[j] = result \/ (j \in DOMAIN r.results /\ results[j] = r.results[j])
  BY ONLY <1>5
<1>7. Agreed(result, r.trusted)
  <2>1. None \notin DOMAIN r.trusted
    BY <1>2, ReleaseAssumption DEF Called
  <2>2. QED
    BY <2>1 DEF Agreed
<1>8. \A j \in DOMAIN results : Agreed(results[j], r.trusted)
  BY <1>2, <1>6, <1>7 DEF AgreedRun
<1>9. unresolved # {}
  OBVIOUS
<1> HIDE DEF overall, unresolved, results
<1>10. PICK o, u, s : o = overall /\ u = unresolved /\ s = results
  OBVIOUS
<1>11. QED
  BY <1>1, <1>2, <1>3, <1>4, <1>6, <1>8, <1>9, <1>10, AdvancesKeep

LEMMA NotRequiredKeeps == ASSUME ReleaseInv, NotRequired PROVE RunInv(release)'
<1>1. PICK r : r = release
  OBVIOUS
<1>2. r.pc = "fence" /\ Run(r) /\ flaws' = flaws /\ ~Entry.required
  BY <1>1 DEF NotRequired, ReleaseInv, RunInv, world
<1>3. PICK o, u, s : o = r.overall /\ u = r.unresolved /\ s = r.results
  OBVIOUS
<1>4. Advances(o, u, s)
  BY <1>1, <1>3 DEF NotRequired
<1>5. /\ o \in Verdict /\ s \in Seq(ResultType) /\ (u = {} => o # "UNKNOWN")
      /\ \A j \in DOMAIN s : Agreed(s[j], r.trusted)
  BY <1>2, <1>3 DEF Run, Progress, AgreedRun, ResolvedRun
<1>6. QED
  BY <1>1, <1>2, <1>3, <1>4, <1>5, AdvancesKeep

\* What a trusted report that matches an entry says of it.
LEMMA MatchIsGood ==
  ASSUME NEW r, r = release, Called(r), NEW i \in Matching, r.trusted[i].verdict = "READY"
  PROVE  Good(Entry, r.trusted[i].gaps)
<1>1. PICK e, t : e = Entry /\ t = r.trusted[i]
  OBVIOUS
<1>2. i \in DOMAIN r.trusted /\ Trusted(t) /\ Matches(e, t)
  BY <1>1 DEF Matching
<1>3. Right(t)
  BY <1>1, <1>2 DEF Called, Trusted
<1>4. Immutable(e.ref) /\ t.unit = e.unit /\ t.env = e.env /\ t.head = e.ref
  BY <1>2 DEF Matches
<1>5. t.about = Content(e.ref) /\ Flawless(e.unit, t.about, e.env, t.gaps)
  BY <1>3, <1>4 DEF Right, Immutable
<1>6. QED
  BY <1>1, <1>4, <1>5 DEF Good

LEMMA ReuseKeeps == ASSUME ReleaseInv, Reuse PROVE RunInv(release)'
<1>1. PICK r : r = release
  OBVIOUS
<1>2. r.pc = "fence" /\ Run(r) /\ Called(r) /\ flaws' = flaws /\ Matching # {}
  BY <1>1 DEF Reuse, Resolving, ReleaseInv, RunInv, Run, world
<1>3. DOMAIN r.trusted \subseteq Nat \ {0} /\ None \notin DOMAIN r.trusted /\ {} \in SUBSET Static
  BY <1>2, ReleaseAssumption DEF Called
<1>4. CASE Conflict
  <2>1. Settle("UNKNOWN", None, {})
    BY <1>4 DEF Reuse, Unsettled
  <2>2. QED
    BY <1>1, <1>2, <1>3, <2>1, SettleKeeps DEF Verdict
<1>5. CASE ~Conflict
  <2>1. PICK i \in Matching : Settle(r.trusted[i].verdict, i, r.trusted[i].gaps)
    BY <1>1, <1>5 DEF Reuse
  <2>2. PICK v, g : v = r.trusted[i].verdict /\ g = r.trusted[i].gaps
    OBVIOUS
  <2>3. i \in DOMAIN r.trusted
    BY <1>1 DEF Matching
  <2>4. v \in Verdict /\ g \in SUBSET Static /\ i \in Nat /\ i # None
    <3>1. r.trusted \in Seq(Report)
      BY <1>2 DEF Called
    <3>2. r.trusted[i] \in Report /\ i \in Nat
      BY <2>3, <3>1
    <3>3. QED
      BY <1>3, <2>2, <2>3, <3>2 DEF Report
  <2>5. \A j \in Matching : r.trusted[j].verdict = v
    BY <1>1, <1>5, <2>2 DEF Conflict
  <2>6. v = "READY" => Good(Entry, g)
    BY <1>1, <1>2, <2>2, MatchIsGood
  <2>7. QED
    BY <1>1, <1>2, <2>1, <2>2, <2>4, <2>5, <2>6, SettleKeeps
<1>6. QED
  BY <1>4, <1>5

LEMMA NotInvokedKeeps == ASSUME ReleaseInv, NotInvoked PROVE RunInv(release)'
<1>1. PICK r : r = release
  OBVIOUS
<1>2. r.pc = "fence" /\ Run(r) /\ Called(r) /\ flaws' = flaws /\ Settle("UNKNOWN", None, {})
  BY <1>1 DEF NotInvoked, Unsettled, Resolving, ReleaseInv, RunInv, Run, world
<1>3. None \notin DOMAIN r.trusted /\ {} \in SUBSET Static
  BY <1>2, ReleaseAssumption DEF Called
<1>4. QED
  BY <1>1, <1>2, <1>3, SettleKeeps DEF Verdict

\* A review that is invoked looks at everything but the code review that it
\* is handed; the coverage handed to it is of the candidate and usable.
LEMMA AnswerIsGood ==
  ASSUME ReviewInv, NEW r, r = release, Called(r), Handed # None => Usable(Handed),
         NEW a, Honest(a), Trusted(a), Matches(Entry, a), a.verdict = "READY"
  PROVE  Good(Entry, a.gaps)
<1>1. PICK e : e = Entry
  OBVIOUS
<1>2. /\ a.unit = e.unit /\ a.env = e.env /\ a.head = e.ref /\ Immutable(e.ref)
      /\ e.rev # None => a.rev = e.rev
  BY <1>1 DEF Matches
<1>3. a.rev = Content(a.head)
  BY DEF Honest
<1>4. ASSUME NEW f \in flaws, f.unit = e.unit, f.rev = Content(e.ref), f.env = e.env, f.dim \notin a.gaps PROVE FALSE
  <2>1. f.dim = "review" /\ Handed # None
    BY <1>2, <1>3, <1>4 DEF Honest, Flawless
  <2>2. Handed = r.bundle /\ e.rev # None /\ r.bundle.rev = e.rev /\ r.bundle.unit = e.unit
    BY <1>1, <2>1 DEF Handed, Scoped
  <2>3. TrueBundle(r.bundle) /\ Usable(r.bundle) /\ r.bundle # None
    BY <2>1, <2>2 DEF Called
  <2>4. r.bundle.rev = Content(e.ref)
    BY <1>2, <1>3, <2>2
  <2>5. QED
    BY <1>4, <2>1, <2>2, <2>3, <2>4 DEF TrueBundle
<1>5. Flawless(e.unit, Content(e.ref), e.env, a.gaps)
  BY <1>4 DEF Flawless
<1>6. QED
  BY <1>1, <1>2, <1>5 DEF Good

LEMMA InvokeKeeps == ASSUME ReleaseInv, Invoke PROVE RunInv(release)'
<1>1. PICK r : r = release
  OBVIOUS
<1>2. /\ r.pc = "fence" /\ Run(r) /\ Called(r) /\ flaws' = flaws
      /\ Handed # None => Usable(Handed)
  BY <1>1 DEF Invoke, Resolving, ReleaseInv, RunInv, Run, world
<1>3. None \notin DOMAIN r.trusted /\ Invoked \notin DOMAIN r.trusted /\ Invoked \in Nat /\ Invoked # None
  BY <1>2, ReleaseAssumption DEF Called, Invoked
<1>4. PICK a \in Answers :
        /\ Honest(a)
        /\ IF Trusted(a) /\ Matches(Entry, a) THEN Settle(a.verdict, Invoked, a.gaps) ELSE Settle("UNKNOWN", None, {})
  BY DEF Invoke, Unsettled
<1>5. CASE Trusted(a) /\ Matches(Entry, a)
  <2>1. PICK v, g : v = a.verdict /\ g = a.gaps
    OBVIOUS
  <2>2. v \in Verdict /\ g \in SUBSET Static
    <3>1. {f.dim : f \in flaws} \subseteq Static
      BY ReviewAssumption DEF ReleaseInv, ReviewInv, WorldType
    <3>2. QED
      BY <2>1, <3>1 DEF Answers
  <2>3. v = "READY" => Good(Entry, g)
    BY <1>1, <1>2, <1>4, <1>5, <2>1, AnswerIsGood DEF ReleaseInv
  <2>4. Settle(v, Invoked, g)
    BY <1>4, <1>5, <2>1
  <2>5. QED
    BY <1>1, <1>2, <1>3, <2>2, <2>3, <2>4, SettleKeeps
<1>6. CASE ~(Trusted(a) /\ Matches(Entry, a))
  <2>1. Settle("UNKNOWN", None, {})
    BY <1>4, <1>6
  <2>2. QED
    BY <1>1, <1>2, <1>3, <2>1, SettleKeeps DEF Verdict
<1>7. QED
  BY <1>5, <1>6

LEMMA FinishKeeps == ASSUME ReleaseInv, Finish PROVE RunInv(release)'
<1>1. PICK r, w : r = release /\ w = release'
  OBVIOUS
<1>2. r.pc = "done" /\ Called(r) /\ Progress(r) /\ ReadyRun(r) /\ ResolvedRun(r) /\ AgreedRun(r) /\ flaws' = flaws
  BY <1>1 DEF Finish, ReleaseInv, RunInv, Run, world
<1>3. /\ w.pc = "reported" /\ w.manifest = r.manifest /\ w.overall = r.overall /\ w.seen = r.seen
      /\ w.results = r.results /\ w.trusted = r.trusted
      /\ w.status = (IF r.unresolved = {} THEN "SUCCESS" ELSE "PARTIAL")
  BY <1>1 DEF Finish
<1>4. DOMAIN r.manifest = 1 .. r.next - 1
  BY <1>2 DEF Called, Progress
<1>5. r.seen # {}
  BY <1>2 DEF Progress
<1>6. w.status = "SUCCESS" => r.unresolved = {}
  BY <1>3
<1>7. w.overall = "READY" =>
        /\ w.seen = {"READY"}
        /\ \A i \in DOMAIN w.manifest : w.manifest[i].required => Passed(w.manifest[i], w.results)
  BY <1>2, <1>3, <1>4, <1>5 DEF ReadyRun
<1>8. w.status = "SUCCESS" =>
        /\ w.overall # "UNKNOWN" /\ "UNKNOWN" \notin w.seen
        /\ \A i \in DOMAIN w.manifest : w.manifest[i].required =>
             \E j \in DOMAIN w.results : w.results[j].entry = w.manifest[i] /\ w.results[j].source # None
  BY <1>2, <1>3, <1>4, <1>6 DEF ResolvedRun
<1>9. Final(w)
  BY <1>2, <1>3, <1>7, <1>8 DEF Final, AgreedRun
<1>10. RunInv(w)
  BY <1>3, <1>9 DEF RunInv
<1>11. QED
  BY <1>1, <1>2, <1>10, RunInvStays

-----------------------------------------------------------------------------
(* The theorems.                                                           *)

LEMMA Initially == ASSUME Init PROVE ReleaseInv
<1>1. WorldType
  BY DEF Init, ReviewInit, WorldType
<1>2. Reviewed
  BY DEF Init, ReviewInit, NoReview, Reviewed
<1>3. ReportsSound
  BY ReleaseAssumption DEF Init, ReportsSound
<1>4. RunInv(release)
  BY DEF Init, NoRelease, RunInv
<1>5. QED
  BY <1>1, <1>2, <1>3, <1>4 DEF ReleaseInv, ReviewInv

LEMMA ReleaseStepKeeps == ASSUME ReleaseInv, ReleaseStep PROVE ReleaseInv'
<1>1. UNCHANGED <<world, reviewVars>>
  BY DEF ReleaseStep, Begin, Call, Check, Fence, NotRequired, Reuse, NotInvoked, Invoke, Finish
<1>2. ReviewInv'
  BY <1>1, StillReviewed DEF ReleaseInv
<1>3. RunInv(release)'
  BY BeginKeeps, CallKeeps, CheckKeeps, FenceKeeps, NotRequiredKeeps, ReuseKeeps, NotInvokedKeeps, InvokeKeeps,
     FinishKeeps DEF ReleaseStep
<1>4. QED
  BY <1>2, <1>3 DEF ReleaseInv

LEMMA RunInvUnchanged == ASSUME RunInv(release), flaws' = flaws, release' = release PROVE RunInv(release)'
<1>1. PICK r : r = release /\ r = release'
  OBVIOUS
<1>2. RunInv(r)'
  BY <1>1, RunInvStays
<1>3. QED
  BY <1>1, <1>2

LEMMA StepKeeps == ASSUME ReleaseInv, [Next]_vars PROVE ReleaseInv'
<1>1. CASE ReleaseStep
  BY <1>1, ReleaseStepKeeps
<1>2. CASE WorldStep /\ UNCHANGED release
  BY <1>2, WorldStepKeeps, RunInvUnchanged DEF ReleaseInv
<1>3. CASE ReviewStep /\ UNCHANGED release
  <2>1. flaws' = flaws
    BY <1>3 DEF ReviewStep, StartReview, Assess, Recheck, Emit, world
  <2>2. QED
    BY <1>3, <2>1, ReviewStepKeeps, RunInvUnchanged DEF ReleaseInv
<1>4. CASE UNCHANGED vars
  <2>1. UNCHANGED <<world, reviewVars>> /\ flaws' = flaws /\ release' = release
    BY <1>4 DEF vars, world
  <2>2. QED
    BY <2>1, StillReviewed, RunInvUnchanged DEF ReleaseInv
<1>5. QED
  BY <1>1, <1>2, <1>3, <1>4 DEF Next

LEMMA Invariance == Spec => []ReleaseInv
  BY Initially, StepKeeps, PTL DEF Spec

\* No review says READY of a revision with which something is wrong, or whose
\* CI, approvals or head were not in order when they were last read: what
\* the aggregation of clean answers and the freshness reads are for.
THEOREM ReviewsAreRight == Spec => []ReadyIsTrue
<1>1. ReleaseInv => ReadyIsTrue
  BY SoundIsTrue DEF ReleaseInv
<1>2. QED
  BY <1>1, Invariance, PTL

\* No release is READY that should not go out, whatever manifests and reports
\* callers hand to run_release.
THEOREM ReleasesAreRight == Spec => []ReleaseIsTrue
<1>1. ASSUME ReleaseInv PROVE ReleaseIsTrue
  <2>1. Reported => Final(release)
    BY <1>1 DEF Reported, ReleaseInv, RunInv
  <2>2. QED
    BY <2>1 DEF ReleaseIsTrue, Final, Good, Passed, Reported
<1>2. QED
  BY <1>1, Invariance, PTL

\* finalize_release says SUCCESS only of runs without an open question.
THEOREM SuccessIsEarned == Spec => []SuccessMeansResolved
<1>1. ASSUME ReleaseInv PROVE SuccessMeansResolved
  <2>1. Reported => Final(release)
    BY <1>1 DEF Reported, ReleaseInv, RunInv
  <2>2. QED
    BY <2>1 DEF SuccessMeansResolved, Final, Reported
<1>2. QED
  BY <1>1, Invariance, PTL

\* match_release_report never settles an entry by one of two trusted reports
\* that disagree.
THEOREM ConflictsStayOpen == Spec => []ConflictIsUnknown
<1>1. ASSUME ReleaseInv PROVE ConflictIsUnknown
  <2>1. Reported => Final(release)
    BY <1>1 DEF Reported, ReleaseInv, RunInv
  <2>2. QED
    BY <2>1 DEF ConflictIsUnknown, Final, Agreed, Reported
<1>2. QED
  BY <1>1, Invariance, PTL

=============================================================================
