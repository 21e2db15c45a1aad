------------------------------- MODULE ReleaseRun -------------------------------
(***************************************************************************)
(* scripts/release_readiness_v2.py: run_release goes over the entries of a *)
(* release manifest.  Each gets the checks that every release gets; an     *)
(* entry that requires production readiness reuses a trusted report that   *)
(* matches it, or has a review made (as ReadinessReview describes it).     *)
(* The verdict is the worst of what was found.                             *)
(*                                                                         *)
(* The manifest and the reports that callers hand in may say anything.     *)
(***************************************************************************)
EXTENDS ReadinessReview

CONSTANTS
  Manifests,  \* what callers hand in: sequences of entries
  Outcomes,   \* sets of verdicts that the three checks of an entry come to
  Bundles,    \* code-review coverage that was assembled for some candidate
  Earlier     \* reports that are at hand: earlier reviews' and what callers made up

ASSUME ReleaseAssumption ==
  /\ None \notin Nat
  /\ Outcomes \subseteq (SUBSET Verdict) \ {{}}
  /\ \A m \in Manifests : m \in Seq([unit : Unit \cup {None}, env : Env \cup {None}, rev : Reference, ref : Reference,
                                    required : BOOLEAN, pin : Nat \cup {None}])
  /\ Earlier \in Seq(Report)
  /\ \A i \in DOMAIN Earlier : Earlier[i].acquired = "runtime" => Earlier[i].verdict # "READY"

VARIABLE release  \* the run
vars == <<world, reviewVars, release>>

Rank == [v \in Verdict |-> CASE v = "READY" -> 0 [] v = "CONDITIONAL" -> 1 [] v = "UNKNOWN" -> 2 [] v = "NOT_READY" -> 3]

NoRelease == [pc |-> "idle"]

\* The source of a result: a trusted report (its place among them), Invoked, or None.
Invoked == 0

Init == ReviewInit /\ release = NoRelease /\ reports = Earlier

-----------------------------------------------------------------------------
(* Matching and coverage.                                                  *)

\* cap_release_verdict.
Cap(current, verdict) == IF Rank[current] >= Rank[verdict] THEN current ELSE verdict
CapAll(current, verdicts) == CHOOSE v \in verdicts \cup {current} : \A w \in verdicts \cup {current} : Rank[w] <= Rank[v]

\* classify_report_for_release.
Trusted(report) == report.acquired = "runtime"

Immutable(ref) == ref \in Revision \cup Digest

\* Mutant: a tag that reads the same is taken for the same deployable.
MatchesByName(entry, report) ==
  /\ entry.unit # None /\ report.unit = entry.unit /\ report.env = entry.env
  /\ entry.ref # None /\ report.head = entry.ref
  /\ entry.rev # None => report.rev = entry.rev

\* match_release_report.
Matches(entry, report) ==
  /\ entry.unit # None /\ report.unit = entry.unit /\ report.env = entry.env
  /\ entry.ref # None /\ report.head = entry.ref
  /\ entry.rev # None => report.rev = entry.rev
  /\ Immutable(entry.ref)

\* _candidate_identity_sufficient.
Sufficient(entry) ==
  /\ entry.unit # None /\ entry.ref # None
  /\ IF entry.rev # None THEN entry.rev \in Revision ELSE entry.ref \in Revision

\* _coverage_is_trustworthy_and_complete.
Usable(bundle) == bundle.says = "PASS" /\ bundle.complete /\ HostRead(bundle)

\* _coverage_for_entry: a bundle that was assembled for another candidate
\* counts as none.
Scoped(bundle, entry) ==
  IF bundle = None THEN None
  ELSE IF entry.rev # None /\ bundle.rev = entry.rev /\ bundle.unit = entry.unit THEN bundle ELSE None

-----------------------------------------------------------------------------
(* run_release.                                                            *)

Entry     == release.manifest[release.next]
Moved     == release.tracked /\ Entry.ref = Tag /\ release.start # release.final
Matching  == {i \in DOMAIN release.trusted : Trusted(release.trusted[i]) /\ Matches(Entry, release.trusted[i])}
Conflict  == \E i, j \in Matching : release.trusted[i].verdict # release.trusted[j].verdict

\* The run goes on; what it was called with stays.
Runs(pc, next, overall, seen, unresolved, results) ==
  release' = [pc |-> pc, next |-> next, overall |-> overall, seen |-> seen, unresolved |-> unresolved, results |-> results,
              manifest |-> release.manifest, bundle |-> release.bundle, tracked |-> release.tracked,
              start |-> release.start, final |-> release.final, trusted |-> release.trusted]

\* run-check.md: before the run the caller resolves the mutable references,
\* if it tracks them, and has reports and perhaps coverage at hand.
Begin ==
  /\ release.pc = "idle" /\ review.pc = "idle"
  /\ \E m \in Manifests, b \in Bundles \cup {None}, tracked \in BOOLEAN :
       /\ b # None => Truthful("review", b, None)
       /\ release' = [pc |-> "begun", manifest |-> m, bundle |-> b, tracked |-> tracked, start |-> tip]
  /\ UNCHANGED <<world, reviewVars>>

\* It resolves them again and calls run_release; without entries: BLOCKED.
Call ==
  /\ release.pc = "begun"
  /\ release' = [pc |-> IF release.manifest = << >> THEN "blocked" ELSE "checks",
                 manifest |-> release.manifest, bundle |-> release.bundle, tracked |-> release.tracked,
                 start |-> release.start, final |-> tip, trusted |-> reports, next |-> 1,
                 overall |-> IF release.manifest = << >> THEN "UNKNOWN" ELSE "READY",
                 seen |-> {}, unresolved |-> {}, results |-> << >>]
  /\ UNCHANGED <<world, reviewVars>>

\* pr-review, k8s and incident always run; what cannot be run is unresolved.
Check ==
  /\ release.pc = "checks"
  /\ \E outcomes \in Outcomes :
       Runs("fence", release.next, CapAll(release.overall, outcomes), release.seen \cup outcomes,
            IF "UNKNOWN" \in outcomes THEN release.unresolved \cup {"check"} ELSE release.unresolved, release.results)
  /\ UNCHANGED <<world, reviewVars>>

\* To the next entry.
Advances(overall, unresolved, results) ==
  Runs(IF release.next = Len(release.manifest) THEN "done" ELSE "checks", release.next + 1,
       overall, release.seen, unresolved, results)

\* gaps is not part of a result: those of the report that settled the entry.
Results(verdict, source, gaps) ==
  Append(release.results, [entry |-> Entry, verdict |-> verdict, source |-> source, gaps |-> gaps])

\* Mutant: an entry that nothing is known of is not put down as unresolved.
SettleQuietly(verdict, source, gaps) ==
  Advances(Cap(release.overall, verdict), release.unresolved, Results(verdict, source, gaps))

\* The entry is settled: its verdict caps the release's.
Settle(verdict, source, gaps) ==
  Advances(Cap(release.overall, verdict),
           IF verdict = "UNKNOWN" THEN release.unresolved \cup {"production_readiness"} ELSE release.unresolved,
           Results(verdict, source, gaps))

Unsettled == Settle("UNKNOWN", None, {})

\* The freshness fence: the reference moved since the start.
Fence ==
  /\ release.pc = "fence" /\ Moved
  /\ Advances(Cap(release.overall, "UNKNOWN"), release.unresolved \cup {"release_ref_freshness"},
              IF Entry.required THEN Results("UNKNOWN", None, {}) ELSE release.results)
  /\ UNCHANGED <<world, reviewVars>>

NotRequired ==
  /\ release.pc = "fence" /\ ~Moved /\ ~Entry.required
  /\ Advances(release.overall, release.unresolved, release.results)
  /\ UNCHANGED <<world, reviewVars>>

Resolving == release.pc = "fence" /\ ~Moved /\ Entry.required

\* Mutant: the entry's pin chooses among reports that disagree.
ReusePinned ==
  /\ Resolving /\ Matching # {}
  /\ \E i \in IF Entry.pin \in Matching THEN {Entry.pin} ELSE Matching :
       Settle(IF Conflict /\ Entry.pin \notin Matching THEN "UNKNOWN" ELSE release.trusted[i].verdict, i,
              release.trusted[i].gaps)
  /\ UNCHANGED <<world, reviewVars>>

\* Reports that match are reused if they agree; then the pin only says which
\* of them is named.  If they disagree nothing is known.
Reuse ==
  /\ Resolving /\ Matching # {}
  /\ IF Conflict THEN Unsettled
     ELSE \E i \in IF Entry.pin \in Matching THEN {Entry.pin} ELSE Matching :
            Settle(release.trusted[i].verdict, i, release.trusted[i].gaps)
  /\ UNCHANGED <<world, reviewVars>>

\* Nothing is invoked without an identity to review, or with coverage that
\* cannot suffice, or where there is no reviewer.
NotInvoked ==
  /\ Resolving /\ Matching = {}
  /\ Unsettled
  /\ UNCHANGED <<world, reviewVars>>

\* What a review that is invoked for the entry may answer.  READY is true
\* (ReadyIsTrue), as far as the review looks for itself: coverage that it is
\* handed stands in for a code review of its own.  Gaps are where something is
\* wrong.
Handed    == Scoped(release.bundle, Entry)
Answers   == [unit : {Entry.unit}, env : {Entry.env}, head : {Entry.ref} \cup Digest, rev : {Entry.rev, Entry.ref},
              verdict : Verdict, acquired : {"runtime", "caller"}, gaps : SUBSET {f.dim : f \in flaws}]
Honest(a) == Trusted(a) /\ a.verdict = "READY" =>
  /\ a.rev = Content(a.head)
  /\ Flawless(a.unit, a.rev, a.env, a.gaps \cup (IF Handed = None THEN {} ELSE {"review"}))

\* The review is invoked; its report must match the entry like any other.
Invoke ==
  /\ Resolving /\ Matching = {} /\ Sufficient(Entry) /\ (Handed # None => Usable(Handed))
  /\ \E a \in Answers :
       /\ Honest(a)
       /\ IF Trusted(a) /\ Matches(Entry, a) THEN Settle(a.verdict, Invoked, a.gaps) ELSE Unsettled
  /\ UNCHANGED <<world, reviewVars>>

\* finalize_release.
Finish ==
  /\ release.pc = "done"
  /\ release' = [pc |-> "reported", manifest |-> release.manifest, overall |-> release.overall,
                 seen |-> release.seen, results |-> release.results, trusted |-> release.trusted,
                 status |-> IF release.unresolved = {} THEN "SUCCESS" ELSE "PARTIAL"]
  /\ UNCHANGED <<world, reviewVars>>

ReleaseStep ==
  \/ Begin \/ Call \/ Check \/ Fence \/ NotRequired \/ Reuse \/ NotInvoked \/ Invoke \/ Finish

\* The reviews that an operator has made come before the run.
Next ==
  \/ WorldStep /\ UNCHANGED release
  \/ ReviewStep /\ release.pc = "idle" /\ UNCHANGED release
  \/ ReleaseStep

Spec == Init /\ [][Next]_vars

-----------------------------------------------------------------------------

Reported == release.pc = "reported"

\* A release that is READY may go out: every check said READY, and every
\* entry that requires production readiness names, by a reference that cannot
\* move, a revision with which nothing is wrong in that environment, except in
\* the gaps of the report that settled it.  What callers write into the
\* manifest or hand in as reports cannot change that.
ReleaseIsTrue ==
  Reported /\ release.overall = "READY" =>
    /\ release.seen = {"READY"}
    /\ \A i \in DOMAIN release.manifest : LET e == release.manifest[i] IN
         e.required => \E j \in DOMAIN release.results : LET r == release.results[j] IN
           r.entry = e /\ Immutable(e.ref) /\ Flawless(e.unit, Content(e.ref), e.env, r.gaps)

\* SUCCESS is said only of a run that resolved everything it had to: no check
\* unknown, and for every required entry a report that settled it.
SuccessMeansResolved ==
  Reported /\ release.status = "SUCCESS" =>
    /\ release.overall # "UNKNOWN" /\ "UNKNOWN" \notin release.seen
    /\ \A i \in DOMAIN release.manifest : release.manifest[i].required =>
         \E j \in DOMAIN release.results :
           release.results[j].entry = release.manifest[i] /\ release.results[j].source # None

\* Trusted reports about one deployable that disagree are never resolved by
\* picking one, also not by the pin that the manifest gives.
ConflictIsUnknown ==
  \A j \in IF Reported THEN DOMAIN release.results ELSE {} : LET r == release.results[j] IN
    r.source \in DOMAIN release.trusted =>
      \A i \in DOMAIN release.trusted :
        Trusted(release.trusted[i]) /\ Matches(r.entry, release.trusted[i]) => release.trusted[i].verdict = r.verdict

=============================================================================
