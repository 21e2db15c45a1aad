# Verification of software-builder

TLA+ models of the parts of software-builder that keep state on disk, share it between processes, or decide what may
be released. They are model-checked with TLC on small instances, and every safety property that a passing run checks is
proved with TLAPS for every value of the constants.

## The system

software-builder is a library of agent skills (Markdown and YAML, read by agents) with the Python programs those
skills call. The programs are short-lived processes. What they share are files, ports, a tracker and a repository, and
the same user may run several at once: two orchestrators on one plan, a retry beside the process it gave up on, a
webhook delivered twice. So the hard behaviours are not in any one program but between two of them, between a program
and the one that died before it, or between a program and a world that moves while it looks.

| Component (source) | State it keeps | Operations | Talks to |
|---|---|---|---|
| Plan-state store (`scripts/plan_state_store.py`, `atomic_write.py`) | one checkpoint file per plan, one lock file | `read_state`, `cas_advance` | called by orchestrator sessions; calls the plan execution state functions |
| Plan execution state (`scripts/implementation_plan.py`) | none: pure functions over plan and checkpoint | validate, initial, reconcile, advance, task selection, remote claims, finalize | the store, the orchestrator |
| Task lease (`scripts/task_lease.py`) | one lock file per task, held while a task runs | `try_acquire`, release | orchestrator |
| Orchestrator (`loop-task-implementer/workflow/orchestrator.md`) | the session's state: held lease, run log head, pending call, generation | select, clarify, claim, dispatch, review loop, record, run log calls | everything in this table but the reviews |
| Run log (`loop-task-implementer/scripts/run_log.py`) | one hash-chained file per run | `append`, `verify`, `summarize`, `budget` | orchestrator sessions, which keep the head and the pending call |
| Tracker write-back (`scripts/tracker_write_back.py`) | none; a marker in the tracker's comments | `attempt_write_back` | a remote tracker that may lose answers |
| App run (`scripts/app_run.py`) | a process group and a port | `run_app_run` | the app a Builder changed |
| Benchmark gate (`scripts/benchmark_gate.py`) | a dispatch root with exported trees, a marker and claims | `export_tree`, `cleanup_root`, paired measurement, checks of diffs | git, benchmark children |
| Idempotency store (`pr-gatekeeper/scripts/idempotency_store.py`) | the last processed head per merge request, a lock | `check`, `mark`, `run-if-new` | a child process, signals |
| Install engine (`scripts/install_engine.py`) | the destination, hidden staging, backup and removing directories, a lock file | `install_skill`, `uninstall_skill` | `package_skill`, the `sb` command line |
| Production readiness (`scripts/production_readiness.py`, `production-readiness-review/workflow`) | a review in progress, its report | the gates, the verdict, the freshness check | CI, SCM, evidence sources |
| Release readiness (`scripts/release_readiness_v2.py`, `release-readiness-checker/workflow`) | a run over a manifest | matching, fence, reuse or invocation, verdict | production readiness reviews |
| Builder resume, loop lifecycle validation, convention capture, packaging, the `sb` command line, the skill registry, review guards | none that outlives a call | validators, generators, file copies | see "What is not modelled" |

What makes each stateful component correct:

* **Store.** A generation has one winner. What a caller was told is durable. Nothing recorded is dropped. Only a
  call that succeeds changes the file. A stored checkpoint can be worked from. Every call returns.
* **Dispatch** (orchestrators, leases, the store and the repository together). One Builder and one interview per task,
  dependencies first, no second pull request for a task but in a race with another machine, nothing recorded as complete
  is taken back, and an execution ends.
* **Run log.** The log verifies after any crash, unless a record is a day ahead of a clock that was set back. An acknowledged
  record stays. A call is logged once. An honest session is not accused of tampering.
* **Write-back.** One comment per event unless the tracker could not be searched; outcomes that are true.
* **App run.** Nothing the call started is left behind unreported; a smoke test tests the app.
* **Dispatch root.** A live owner's trees stay; a cleanup that dies leaves what the next one can finish; ABSENT is true.
* **Idempotency store.** A head is marked only when it was processed; a marked head is not processed again; two
  gatekeepers do not overlap; a bounded wait is bounded.
* **Install engine.** The installed copy is never lost nor overtaken by an older one, whatever is killed. A host
  never sees half a copy. The outcome a run reports is true.
* **Readiness.** READY is said only of a revision with which nothing is wrong that the evidence covered, as it stands at the last look; nothing a
  caller writes changes that; a release run that says SUCCESS has resolved everything it had to.

## Modules

| Module | What it is |
|---|---|
| `PlanState` | the checkpoint's data and the functions of `implementation_plan.py` on it, as operators |
| `PlanStateStore` | the processes of `plan_state_store.py` on one checkpoint file |
| `CasRegister` | the abstract specification: an atomic register whose calls take effect at once or not at all |
| `PlanSelection` | the graph of a plan, its validity, task selection, remote claims, as operators |
| `PlanDispatch` | orchestrators that execute one plan: composes selection, checkpoint, leases and repository |
| `RunLogFile` | the log file and the two ways `run_log.py` reads it, as operators |
| `RunLog` | orchestrator sessions and the append processes they start |
| `TrackerWriteBack` | the calls of `attempt_write_back` against an unreliable tracker |
| `AppRun` | the calls of `run_app_run`, their apps, and the port they share |
| `DispatchRoot` | exports and cleanups of the benchmark gate on one root |
| `IdempotencyStore` | the processes of `idempotency_store.py` for one merge request |
| `InstallEngine` | the processes of `install_engine.py` on one skill's destination |
| `ReadinessGates` | the gates of `production_readiness.py`, as operators |
| `ReadinessReview` | a review that applies them while the world moves |
| `ReleaseRun` | `run_release` over the reports of such reviews: composes with `ReadinessReview` |
| `*_proofs` | the theorems about the state machines above; those about `TrackerWriteBack` and `AppRun` are in `LoopScripts_proofs`, those about `ReadinessReview` in `ReleaseRun_proofs` |
| `MC*` | finite instances for TLC |

In every module a definition whose comment begins with "Mutant:" is not part of the model: it is a plausible bug, under
which a run must find a property violated.

### Plan-state store: `PlanState`, `PlanStateStore`, `CasRegister`

`file` is the checkpoint, or `NoFile`, or `Malformed`. `exclusive` and `shared` are the holders of the flock. Each
process walks through `idle, acquiring, locked, writing, closing, returning`; `op`, `draft` and `result` are the
locals of its call. `acked` is a history of what callers were told.

| Code | Model |
|---|---|
| `_locked`: `flock` polled until a deadline | `Acquire` (when grantable), `TimeOut` (when not) |
| `read_state` | `ReadFile` under the shared lock |
| `cas_advance`: parse, merge references, validate, advance | `Prepare`, `Reject`, by `CasSucceeds`, `Advanced`, `CasAnswer` |
| `atomic_write_text`: `os.replace`, or an `OSError` | `Replace`, `WriteFails` |
| leaving the `with` block, returning | `Close`, `Return` |
| SIGKILL anywhere | `Crash`: the kernel drops the lock |
| somebody edits the file | `HandEdit`, while no writer has the lock |

The three merges of the code are three operators: `Overlay` (`{**durable, **incoming}`), `MergeThreads` (one level
deeper) and the union of references. A digest is injective, so a plan stands for its digest; `updated_at` is only
ever tested for being a non-empty string, so it is a Boolean.

The refinement to `CasRegister` maps `file`, `op` and `result`: a read and a refused call take effect where they
look at the file, a successful `cas_advance` at its rename.

### Dispatch: `PlanSelection`, `PlanDispatch`

The checkpoint is the register that `PlanStateStore` implements: `Refinement` is what allows a read or a compare-and-swap
to be one step here. `session[o]` has the locals of an orchestrator: its step, its task, the generation it read,
whether it has retried, and what it last saw of the repository: the base revision, the head of its branch, and a pull request.

An execution identity digests the plan, the task and the base revision; within one plan and repository it stands for the pair of task and
base revision, and so does the branch that is named after it. `base` moves with every merge and with others' commits, so that an
orchestrator that takes over from a dead one has another identity than the pull request it finds. `pulls` is all pull requests in
the order of their numbers. The host refuses a second open pull request for one branch, and takes one for another branch.
Looking for a pull request (`Look`) and opening one (`OpenPr`) are two steps with anything in between. `Peers` are the actors of orchestrators
on other machines, whose checkpoint and leases are their own; `Us` may be one of them, as two machines may push under one account.
`prepare_remote_write` claims no exactly-once dispatch across machines, nor does `NoSecondPr`: the sessions of a machine open
one pull request for a task, and none for one that had a pull request when they looked. A peer may still open one between the look and
the opening, at another base revision; then there are two, and the next look blocks or adopts.

`select_task` is to be given the host's statuses per task, not those of the checkpoint. No program under `src/` keeps
any: they are in the session of the agent. `Select` takes them to be those of the checkpoint it has just read, which is what
a new session has; stale ones are what the compare-and-swap of the claim and the look under the lease are for.

| Code | Model |
|---|---|
| `validate_implementation_plan`: dependencies, cycles, waves | `Valid` |
| `select_next_task`, `select_task` | `SelectNext`, `SelectTask` |
| `prepare_remote_write`, `reconcile_remote_claim`, `handle_push_collision` | `MayWrite`, `Adopts`, `PushAllowed` |
| read and select; the resume rule | `Select`, `Resume` |
| the clarify sub-step of section 2 | `TakeClarifyLease`, `Recheck`, `Answer`, `AnswerRefused` |
| `cas_advance` to IN_PROGRESS, `PlanStateCasError` | `Claim`, `ClaimRefused` |
| `try_acquire`, its `None`, `TaskLeaseError` | `TryAcquire`, `LeaseError` |
| the repository is read again under the lease, the base revision and the head observed | `Verify` |
| Builder and pull request; a look before it is opened, and again when it is refused | `Push`, `Look`, `OpenPr` |
| review loop and merge | `SeesMerged`, `Escalates`, `Merge` |
| item 12: the outcome is written | `Read`, `Record`, `RecordRefused` |
| the session dies and the kernel drops its locks | `Crash` |
| others: stray checkpoint writes, commits, orchestrators on other machines | `Bump`, `Commit`, `PeerPushes`, `PeerOpens` |

### Tracker write-back: `TrackerWriteBack`

`comments` is the issue, oldest first; `loop[o]` the locals of a call; `late` counts posts that were given up and may still
take effect. `excuse` is a history: how a second comment may come about (an unreadable or longer issue, another call at
work, a late post).

| Code | Model |
|---|---|
| authorization, issue reference | `NotAuthorized` |
| `_pr_still_open` | `Fresh` |
| `get_write_back_actor_identity` | `Identify` |
| `check_existing_marker` | `Skip`, `NotSeen`, `Unread` |
| `post_write_back` and the retries | `PostAnswered`, `PostFails`, `NextRound` |

### App run: `AppRun`

An app is a leader, a process it forked into its group, and one that left the group. A leader that ends is a zombie until it
is reaped, and keeps the group's number in use: that is why `GroupAlive` may say yes of a group in which nothing runs, and
why the number may be another's (`reused`) once it was reaped. Each step of `run_app_run` is an action: `Refuse`, `PortCheck`,
`Start`, `ExitedEarly`, `Ready`, `TimedOut`, `Smoke`, `Raises`, and the teardown `Terminate`, `GraceEnds`, `KillEnds`, `Reap`.
`Abandon` is a call that is interrupted in its teardown or killed.

### Dispatch root: `DispatchRoot`

Directories are inodes with a `name`; a descriptor (`fd`) keeps one in use after its name is gone. A cleanup goes through
`_checked_root` (`Look`), `_open_locked` (`Open`, `TakeLock`, `WaitTooLong`, `Moved`, `Owns`), `_read_marker` (`Refuse`), the claim
(`Claim`), `_finish` and `_remove_contents` (`Finish` to `Rmdir`), `_put_back` (`RestoreMarker`, `RefillMarker`, `NothingToKeep`,
`RenameBack`) and `_recover` (`Scan`, `NextLeftover`, `Conclude`). A signal is one of three actions, by what handles it at that
point: `InterruptEarly`, `InterruptFinish`, `InterruptPutBack`. An export works by path: `Create` or `Reuse`, `Mkdir`, `Checkout`,
`WriteSidecar`, and `Undo` when it fails. `recent` is a history: the directories claimed since a cleanup listed the parent.

### Idempotency store: `IdempotencyStore`

`record` is what a process reads, `synced` what a power loss leaves: `Sync` may fail to reach the disk and the call still
answers 0, because `_fsync_dir` ignores `OSError`. `dir` is the project's directory, made by the first save and synced by nobody
until the kernel writes it back (`WriteBack`); `standing` is whether the last answered mark had reached the disk. The three commands of `main` are one machine: `Lock` (or
`Poll` and `TimeOut`), `Duplicate` or `IsNew`, `Spawn`, `Arm`, `Judge`, `Save`, `Sync`. Between `Spawn` and `Arm` the
handlers are not installed, so a signal kills the wrapper, as `Kill` does at any step; its child then goes on alone. `done`,
`acked` and `unacked` are histories of what was processed, and of what callers were told.

### Install engine: `InstallEngine`

`dest` is the destination, `hidden` the hidden directories in the order they are made (their mtime order). A copy is
known by its version and is whole, torn (files are missing, the manifest is not) or a husk (no manifest). Each run
takes the lock, sweeps, recovers backups newest first, and then installs (stage, package, back up, displace,
replace, clean) or uninstalls (displace, delete). The names of the `pc` values are those of the blocks of the code.
Every call that can fail has its failing action; SIGINT, SIGTERM and SIGHUP are `InterruptInstall` and the interrupted
outcomes of `UninstallFails`; SIGKILL is `Kill`. `live` is a history of the copy last established.

What may go wrong beyond that is chosen by `Faults`: deletions that ignore errors (`rmtree`), a backup recovery cannot
rename (`rename`), another tool taking the destination while a run works (`meddling`).

### Run log: `RunLogFile`, `RunLog`

A file is a sequence of records and what follows the last newline: nothing, a torn fragment, or a record that lacks
its newline only. A digest is injective and covers `prev_hash`, so the digest of a record is the sequence of contents
up to it: `head` values are such sequences and "extends" is the prefix order. `TailState` is what an append chains
from, `Verdict` is what `verify` prints.

A session (`mode`, `head`, `pending`) follows section 20 of `workflow/orchestrator.md`:

| Section 20 | Model |
|---|---|
| save the call and its head, then send | `Save` in `Begin`, `Resume`, `LogEvent`, `ResumeUnanchored`; then `Send` |
| repeat a pending call that has a head, before anything else | `Send` from `down` |
| `verify` and its table of cases | `Begin`, `Rejoin`, `Resume`, `StopAtVerify` |
| store the receipt's head, clear `pending` | `Receive` |
| a crash, a closed pipe, a tool timeout | `Die`: the process that was started lives on, nobody hears it |
| a person directs an unanchored resume | `ResumeUnanchored` |
| a second conversation with the same saved state | `Adopt` |

A process follows `append_event`: `GiveUp` (lock timeout); under the lock `Refuse`, `Repeat` or `Prepare`, as `Judged`
says in the code's order of checks; then `Cut`, `WritePart`, `Write`, `Sync`; `Fail` is an error at any of them and the
`ftruncate` that takes the write back, which may fail too; `Kill` at any point, which its session, if it still waits,
sees as a closed pipe: the outcome is unknown. `disk` is the file at the last fsync;
`PowerLoss` leaves the file as it is, as it was synced, or that with a torn end.

`verify` and the saving of the call it leads to are one step: between the two only the session itself could act, and
other processes run freely before the saved call is sent and takes the lock.

### Readiness: `ReadinessGates`, `ReadinessReview`, `ReleaseRun`

Each gate of `production_readiness.py` is one operator from evidence and candidate to a status. Evidence is reduced to
what gates look at: what it says, of which revision, deployable and environment, on whose authority, whether it is complete and
its producer trusted; and the unit it is about, at which no gate looks.

A review (`StartReview`, `Assess` once per dimension, `Recheck`, `Emit`) chooses evidence for each dimension and applies its
gate. What a strong source says of the unit it looked at is true when it says so (`Truthful`); what anybody else says may be
anything, and so may an impact report that does not cover the whole change, and a specialist's NOT_APPLICABLE that was inferred from
such a report (`Inferred`). `flaws` is the truth that no program sees: what is wrong with which revision in which environment. Meanwhile
`tip` (what a branch or tag stands for), `ci` and `approved` move. `about`, `fresh`, `gaps` and `partial` are histories in a report,
not fields of it. `gaps` are the dimensions in which something is wrong and the evidence was about another unit or rested on partial
coverage: no gate would notice, and `ReadyIsTrue` and `ReleaseIsTrue` except them. `partial` says that a fresh impact report did not
cover everything; that no review is READY on one is a statement of its own, and false (`MCReleaseRunImpact.cfg`).

| Code | Model |
|---|---|
| `inputs.md`, `collect-evidence.md`, `dispatch_child` | `StartReview`, `Assess`, `Bound` |
| `accept_child_result`, `match_dimension_evidence`, `resolve_prerequisite` | `Child`, `Sensitive`, `Prerequisite` |
| `evaluate_*`, `validate_build_provenance` | the operators of `ReadinessGates` of that name |
| `aggregate_verdict`, `check_final_freshness` | `Aggregate`, `Freshness` |
| `run_release`: per entry the checks, the fence, reuse or invocation | `Check`, `Fence`, `NotRequired`, `Reuse`, `NotInvoked`, `Invoke` |
| `match_release_report`, `classify_report_for_release` | `Matches`, `Trusted` |
| `_candidate_identity_sufficient`, `_coverage_for_entry` | `Sufficient`, `Scoped`, `Usable` |
| `cap_release_verdict`, `finalize_release` | `Cap`, `CapAll`, `Finish` |

In `ReleaseRun` the review that a run invokes is one step that gives one honest answer, which is what `ReadyIsTrue` says of the
detailed one; the reviews an operator has made before the run are the detailed ones.

## What the runs check

| Run | Instance | Shows |
|---|---|---|
| `store` | 2 processes, every kind of call at 2 generations, 2 tasks, 2 threads, 3 references with a cap of 2 | `DraftIsCurrent`, `AckedIsDurable`, `OneWinnerPerGeneration`, `CheckpointUsable`, `Monotone`, `OnlySuccessWrites`, `RefinesRegister`, `EveryCallReturns` |
| `plan_dispatch` | 2 sessions, 3 tasks, 3 plans, 4 base revisions, one crash, one stray write | `OneWorker`, `DependenciesMerged`, `CompleteStays`, `PlanEnds` |
| `plan_peers` | 2 sessions and a peer under the same or another account, 2 tasks, one after the other, 3 base revisions, one commit, one crash | `NoSecondPr`, `PlanEnds` |
| `run_log` | up to 2 sessions, 2 processes, a new or an older run, 2 calls, one power loss, a clock that runs past `Forged` and is set anywhere | `VerifyAccepts`, `AckedStays`, `LoggedOnce`, `NeverAccused` |
| `tracker` | 2 loops with 2 calls each, one retry, pages of 2, one foreign comment | `OneCommentUnlessBlind`, `OutcomeTrue`, `ReadyOnlyIfOpen` |
| `app_run` | 2 dispatches and another server | `NothingLeftRunning`, `SmokeIsOwn` |
| `dispatch_root` | 2 cleanups, an export, a stray writer, one root, 2 claims | `OwnershipRule`, `ContentsKeepMarker`, `AbsentIsTrue`, `LiveOwnerKept` |
| `idempotency` | 2 callers without bound on their calls, 2 heads, power losses, directory fsyncs that fail | `MarkedMeansDone`, `NoOverlap`, `AckedSurvivesPowerLoss`, `NoRepeat`, `BoundedWaitEnds` |
| `install` | 2 processes, 8 hidden directories; either renames of backups fail or deletions leave things behind | `InstallSurvives`, `DestIsWhole`, `OutcomeHonest` |
| `release` | a review of one of 5 candidates, then 7 manifests; a flaw in one of three dimensions, two odd pieces of evidence, one move of the world | `ReadyIsTrue`, `ReleaseIsTrue`, `SuccessMeansResolved`, `ConflictIsUnknown` |
| `stamp` | a caller with an empty `updated_at` | violation of `StoredStateIsValid` |
| `tracker_page` | an issue with more comments than one answer holds | violation of `ReadSearchFindsMarker` |

Each property has a mutant: a change to one definition, of the kind a bug in that code would be (a dropped check, a
shallow merge, a lock released early), under which the run finds the property violated.

### Bounds and why they are enough

* **Two processes.** Under one lock, what a second process can do wrong is to act between another's steps or after its
  death; a third adds only more of the same. Where a theorem exists, as for every safety property and the refinement, the
  number does not matter.
* **Generations (`MaxGeneration` 2).** Callers expect generation 0 or 1, so the file reaches 2: a first call, a second one and
  a third that comes too late. The expected generation is the caller's argument, so stale and guessed ones are included. Calls that are
  refused for themselves are made at one of them, those that race at both.
* **References: three, cap two**, so that the union overflows. Two threads of one task, so that a shallow merge shows.
* **Plans.** Three tasks, one of them unclear: a plan that fans out, one that joins, and one that is not valid. `MaxCrashes`, `MaxBumps` and
  `MaxPeers` are 1: a crash at any step, a compare-and-swap lost to nobody in particular, one task taken elsewhere. `MaxBase` is the
  number of merges there can be, so that each task's merge moves the base; in `plan_peers` one of the revisions may be a
  commit of others, which is enough for one task to have branches and pull requests of two identities. The two runs are apart because peers
  and a moving base multiply what three tasks, an interview and a stray write already make large.
* **Calls (`MaxCalls` 2 in `run_log`)** after a start that may lie behind (`Earlier`): an event and a resumption or completion,
  each repeated any number of times.
* **Clock (`MaxClock` 2).** One unit is `CLOCK_SKEW_SECONDS`. The clock runs past `Forged`, one unit for the 24 hours
  (`FORGED_CLOCK_SECONDS`) beyond which `verify` calls a record forged, so that every answer to a clock that is behind occurs: an append
  that goes on, one that is refused, an integrity finding, and a log that is called broken.
* **Upsets (`MaxUpsets` 2).** Of a second session, a clock set back and a power loss, any two happen in one behaviour; the theorems
  have all three.
* **Hidden directories (`MaxDirs`).** Each install makes two, an uninstall one: eight are four interrupted installs, with
  three backups at once.
* **Comments.** A page of two, so that one foreign comment and two of our own overflow it.
* **Dispatch root.** One inode at a time is enough: two claims at one time need two roots, which `MCDispatchRootTwice.cfg` has.
* **Polls (`MaxPolls` 1).** A wait that has polled and one that has not.
* **Reviews.** `MaxOdd` 2: one gate is enough to let a wrong revision pass, and a partial impact report with a
  specialist that it lets go takes two; `MaxMoves` 1: CI, an approval or a tag moves once, at any step. Flaws are in three dimensions:
  a specialist's, which a partial report may hide; review, for which coverage may be handed in; recovery, as any other. Candidates have an
  environment, since without one no review is READY. The theorems have none of these bounds.

`CHECK_DEADLOCK FALSE` is set where the system really stops: the calls of `run_log` and `tracker` are used up, an execution
(`plan_dispatch`, `plan_peers`) or a release run is over.

### Fairness

* `store` (`FairSpec`): weak fairness of each process's own steps while it is in a call. A process that is running is
  scheduled by the operating system; nothing is assumed about its ever getting the lock, because a flock that cannot be
  had ends in the timeout, which is one of those steps.
* `idempotency`: the same, and strong fairness of `Lock`: a blocking flock is granted when the lock is free again and again.
  Gatekeepers need not end, so `BoundedWaitEnds` rests on the counting of the polls alone.
* `plan_dispatch`, `plan_peers`: weak fairness of `Step`, in which `Escalates` is one: a review loop has a bounded number of rounds and a
  session that can do something does it. Merges, commits, crashes and peers are not fair.

Starting calls, crashes, signals, hand edits, and whatever the world does are never fair. The other runs state safety only.

## What is proved

Every theorem is `Spec => []P` or `Spec => [][A]_vars` for all values of the constants that satisfy the assumptions named in
the modules. These say that model values are distinct (no name of a directory is a process, no torn record is a record) and that
parameters are of their types; what else they say is named below.

| Module | Theorems | Inductive invariant |
|---|---|---|
| `PlanStateStore_proofs` | `TypeCorrect`, `DraftsAreCurrent`, `AckedStatesAreDurable`, `OneWinner`, `Monotonicity`, `OnlySuccessWritesTheFile`, `UsableCheckpoints`, `Refinement` | `TypeOK`, `Phases`, `LockExcludes`, `DraftIsCurrent`, `History` |
| `PlanDispatch_proofs` | `TypeCorrect`, `OneWorkerEver`, `BuildsOnMergedWork`, `OnePullRequest`, `CompletedTasksStay` | `TypeOK`, `HasTask`, `Held`, `KnowsStore`, `KnowsRemote`, `KnowsPulls`, `Recorded`, `DepsDone`, `NoSecondPr` |
| `IdempotencyStore_proofs` | `TypeCorrect`, `MarkedHeadsAreDone`, `AckedHeadsSurvive`, `GatekeepersDoNotOverlap`, `MarkedHeadsAreNotRepeated` | `TypeOK`, `Holding`, `Knows`, `MarkedMeansDone`, `SyncedMeansDone`, `CachedUnlessLost`, `AckedSurvivesPowerLoss` |
| `LoopScripts_proofs` | of the write-back: `TypeCorrect`, `NoUnexcusedComment`, `OutcomesAreTrue`, `ReadyWhileOpen` | `TypeOK`, `Unposted`, `OutcomeTrue`, `Opened` |
| | of `run_app_run`: `RunTypeCorrect`, `NothingIsLeftRunning`, `SmokeTestsAreOwn` | `RunTypeOK`, `NotStarted`, `NothingLeftRunning`, `PortSeen` |
| `ReleaseRun_proofs` | `ReviewsAreRight`, `ReleasesAreRight`, `SuccessIsEarned`, `ConflictsStayOpen` | `ReviewInv` (`WorldType`, `Reviewed`, `ReportsSound`) and `RunInv` |
| `DispatchRoot_proofs` | `TypeCorrect`, `CleanersOwnTheirClaims`, `LeftoversStayProvable`, `LiveOwnersAreKept`, `AbsentIsTold` | `TypeOK`, `Fine` (`Locking`, `Phases`, `Claimed`, `Proven`, `GoneBegun`, `Listed`), `ContentsKeepMarker`, `OwnersBegun` |
| `InstallEngine_proofs` | `TypeCorrect`, `TheInstallSurvives`, `TheDestIsWhole`, `TheOutcomeIsHonest` | `TypeOK`, `Locked`, `Above`, `TidyDisk`, `InstallSurvives`, `Fine` (`Hands`, `Stands`, `Tidy`, `Spare`) |
| `RunLog_proofs` | `TypeCorrect`, `TheLogVerifies`, `AcknowledgedStays`, `CallsAreLoggedOnce`, `HonestIsNotAccused` | `TypeOK`, `FilesOK`, `Phase`, `Numbered`, `InTime`, and `Alone` while nothing upset the log |

Why the properties are not inductive by themselves:

* **Store.** `Phases` says which of `op`, `draft` and `result` a process has at which step; `LockExcludes` keeps the file still
  between `Prepare` and `Replace`; `DraftIsCurrent` makes `Replace` a step by one generation; `History` says of an answer, on its way
  or delivered, that the file still has it or a later file keeps it. The argument for the data is in lemmas about the merges
  (`OverlayType`, `MergeThreadsType`, `AdvanceProperties`, `AdvancedUsable`). `Refinement` maps each action to one of
  `CasRegister` or to a stutter; `DraftIsCurrent` is what makes the register's answer at the rename the answer the code had computed.
* **Dispatch.** `Held` ties a session's step to the lease it has; `KnowsStore` and `KnowsRemote` say what a session's position implies
  about the checkpoint and the repository, however old what it read is. `KnowsPulls` carries a look to the opening: the pull requests of
  the task that there are by then are newer than the look, and none is of this machine, because who opens one holds the lease. `Recorded` says that a COMPLETE in the checkpoint has
  its merged pull request; `DepsDone` that a task that was ever begun had its dependencies complete. Selection enters through one
  lemma: what `SelectNext` returns is eligible (`SelectedIsEligible`).
* **Idempotency.** `Holding`: a caller past its lock has it. `Knows`: a head about to be run is not in the record, one about to be
  saved was earned.
  `SyncedMeansDone` is `MarkedMeansDone` of what a power loss leaves, `CachedUnlessLost` says that only a power loss takes a mark away.
* **Write-back.** `Unposted`: as long as there is no excuse for a variant, whoever is about to post it is alone and it is not
  on the issue. `Opened` carries what the call saw of the pull request to its post.
* **App run.** `PortSeen`: from the port check on, the port is free, the app's, or somebody took it.
* **Readiness.** `GateSound` is the heart: for every dimension, evidence that may be anything where its source is weak, and
  is true where it is strong, makes its gate say PASS or NOT_APPLICABLE only if that dimension has no flaw. `Reviewed` carries it over
  the dimensions already assessed, `ReportsSound` over the reports. `RunInv` says of a run what its pc implies: `Called`, `Progress`,
  `ReadyRun` (as long as the overall verdict is READY, every required entry so far is good), `ResolvedRun`, `AgreedRun`.
* **Dispatch root.** `Locking` and `Claimed`: from the lock on, a cleanup has the lock of the directory it works on, and
  from the claim on the directory has the claim's name, since only the holder of a lock renames. `Proven`: contents go
  only under a marker whose owner was found dead, and `OwnersBegun` with `GoneBegun` that an owner named by a marker has
  started, so that one that is not alive stays dead. `Listed`: as long as a recovery has found nothing, every claim
  there is either still to be looked at or younger than its listing.
* **Install engine.** Three layers. Base (`Hands`): the holder of the lock knows which hidden directories are its own
  and of which kind they are. `Stands`: where the old copy and the new one are at each step, as long as no other tool
  takes the destination. `TidyDisk`, `Tidy` and `Spare`: which backups there may be. `InstallSurvives` holds for either
  of two reasons: with deletions that complete, there is at most one copy to go back to whenever none is installed; with
  backups that can be renamed, a recovery takes the newest. Where both fail it is false, as it is under meddling: so the
  theorem says `Deletes \/ Renames`, which is what the run's `Faults` say.
* **Run log.** Four layers. Base: `Phase` says what an append has read and drafted at each step, and `FilesOK` what the
  failed and killed appends before it may have left, a chain with at most one unfinished record that is the next of it;
  `AckedStays` follows, and that `verify` can find fault with timestamps only. `InTime`: unless
  the clock was set back, no record in a copy of the file or in a draft is ahead of it by more than the skew, which with the former
  gives `VerifyAccepts`. `Numbered`: a number is one call's, a call with a head can only be logged
  after that head, and one without is sent once; together with the chain that gives `LoggedOnce`. `Alone`: while nobody
  else writes, the clock is sane and the power stays, the log is at the head that the session saved or one record past
  it, and that record is its pending call's (`Placed`, `Owns`, `Serves`).

`ReviewAssumption` includes that a target resolves to a source revision, `ReleaseAssumption` that reports from before
the behaviour which a review made are not READY ones: those that are READY come from `ReadinessReview` itself. The
theorems do not bound the number of odd pieces of evidence, moves, reviews, entries or reports. `LogAssumption` lets
the clock go on for any time (`MaxClock` is any number): a run may be resumed after days, and its clock be set anywhere.

Only model-checked: the liveness properties `EveryCallReturns`,
`BoundedWaitEnds` and `PlanEnds`, which TLAPS does not prove; and the two violations, which are counterexamples.

## What the models disagree with

Two runs check a statement of the repository that the code does not keep:

* `stamp`: the comment on the second validation of `advance_plan_execution_state` says that no state is written that the next
  validation would refuse; `updated_at` is set after it, and an empty one is stored.
* `tracker_page`: `check_existing_marker` is documented to search the issue's existing comments; it reads the first page.

Statements that TLC refutes with a cfg kept here, or with one line changed in a cfg, which are no runs of their own:

| Definition | Instance | What it says, and what happens |
|---|---|---|
| `CasErrorMeansLostRace` | `MCPlanStateStoreHeads.cfg` | `PlanStateCasError` is documented as a lost race. `cas_advance` raises it for every refusal, a changed head among them, and reading again does not help. |
| `OldCopyKept` | `MCInstallEngineMeddling.cfg` | `scripts/README.md`: the old copy is never deleted before the new one is in place. When another tool takes the destination between the two renames, it is. |
| `NoRollback` | `MCInstallEngineRollback.cfg` | Recovery goes newest first so as never to roll the user back. A backup that cannot be renamed once is passed over and an older one restored. |
| `SafeToRepeat` | `MCRunLogClock.cfg` | An exact repetition is safe, and a clock behind the log is exit 2. When the committed record is more than five minutes ahead of the clock, the repetition is exit 1, an integrity finding that stops the run. |
| `AckedSurvivesPowerLoss` of `RunLog` | `MCRunLogPower.cfg` | `append_event` acknowledges the repetition of a complete record without an fsync, though the process that wrote it may have died before its own. |
| `NoPartialImpact` | `MCReleaseRunImpact.cfg` | `dispatch.md` (52-53) records an impact report whose coverage is not COMPLETE as a gap of the dimension. `resolve_prerequisite` asks for COMPLETE of a supplied report only; one that it invokes (`production_readiness.py` 494-498) passes whatever it covers, and the review is READY. `finalize_impact` of `change_impact.py` would call such a report UNKNOWN, so it takes a producer that does not use it. |
| `FailedExportRemovesOnlyItsOwn` | `MCDispatchRootTwice.cfg` | A failed export is to remove what it created. It removes by path, also the tree of an export that has replaced it. |
| `PutBackHasMarker` | `MCDispatchRoot.cfg` | An interrupted cleanup puts the tree back, marker included. A signal during the put-back itself may put it back without. |
| `AbsentMeansGone` | `MCDispatchRoot.cfg` | ABSENT means that nothing is left; a directory claimed after the listing may still be there. `AbsentIsTrue` is what holds. |
| `EveryMarkSurvivesPowerLoss` | `MCIdempotencyStore.cfg` | No document says so, but a caller may think it: exit 0 means that the mark is kept. `_fsync_dir` ignores an error, and the directory above a new project directory is not synced; after a power loss the head is run again. |
| `ExitOneMeansDuplicate` | `MCIdempotencyStore.cfg` | `reference/idempotency.md`: exit 1 is a duplicate head. An uncaught `OSError` exits 1, too. |
| `SignalsOwnGroup`, `KillsOnlySurvivors` | `MCAppRun.cfg` | Signals go to the app's group only, SIGKILL only to survivors. A number that was reused after a reaped leader, or a group of which only a zombie is left, is signalled. |

Seen while modelling, and stated by no definition: a manifest entry with a mutable `release_ref` and a SHA as `source_revision` is
sufficient to invoke a review (`release_readiness_v2.py:717`), whose report then never matches, so the entry is always UNKNOWN;
`run_release` compares references resolved before its checks, while `run-check.md` (208-209) asks for the moment before
emission; the fence does nothing for a reference that resolves to nothing, nor for a tag that has moved and come back;
`evaluate_scm_policy` never looks at the authority of the policy it is given, only at that of a bypass (which is why
`Truthful` has to ask it of scm evidence); no gate of a review compares the unit (repository, service) of the evidence with the
candidate's, so in a repository with two services what was found of one counts for the other;
`try_acquire` answers `None`, busy, for every `OSError` of `flock`, although its docstring (`task_lease.py` 325-330) raises `TaskLeaseError`
when the answer cannot be known (either leaves the task undispatched).

## What is not modelled, and why

* **Components.** Builder resume, loop lifecycle validation, convention capture, the registry and its generators, packaging,
  the review guards and the `sb` command line validate or generate one document in one pass and share nothing that lives on; a unit test
  reaches what they do. Of the benchmark gate: the lexical validators, diff and venv checks, hashes, and the harness that
  measures (`measure_paired`, `trace_paired`). They are most of the implementation's lines, and the map's share of it is small for
  that reason: it covers the stateful core, not the bulk.
* **Plan execution.** The field and text checks of plans, digests, plan sets and `finalize_plan`. The review and remediation loop is
  prose for an agent; `PlanDispatch` takes it as one step that ends in a merge or an escalation. Pull requests that are closed unmerged: the
  repository has no rule for them. A peer's merged pull request counts as the task's work, as SCM evidence does. `execution_identity` is taken
  to be injective, and the commits of a branch are counted, not told apart.
* **Store.** Deletion of a checkpoint by hand (a generation could then repeat), and a power loss under `atomic_write`, which does
  not sync: the store's crashes are those of processes. Path, permission and ownership checks refuse before anything changes.
* **Run log.** Redaction, payload validation and head prefixes: a head is compared whole. The entry of a new log in its
  directory, which `_fsync_dir` may fail to sync without a word and an append that is killed first does not sync: a power loss may
  then take the log as a whole. `AckedStays` speaks of the contents of a log whose entry is durable. The budget window and the summary, which only read the log. `verify`'s own lock timeout: the session then tries again.
* **Install engine.** Dry runs and platform checks; the choice of exit code for deferred signals; an empty foreign directory, which an
  install may take over.
* **Dispatch root.** One root name and one leaf name; a file system without flock; liveness of a cleanup (the lock wait is bounded by
  time). Cleanups take turns without bound.
* **App run.** The mode decision and the redaction of output; deadlines are nondeterministic, not counted.
* **Readiness.** Waivers, which do not change a verdict; the three checks of a release entry are their outcomes; a coverage bundle is
  taken as its result. A strong source is assumed to be right about the unit it looked at when it is read, and to say FAIL or nothing
  otherwise: without that no review of evidence can be right.

## Plan

Done: the store with its refinement; dispatch; run log; write-back; app run; dispatch root; idempotency store; install engine;
readiness review and release run, each with theorems for the safety properties its runs check. Left, in this order:

1. The run log's budget window as operators over `RunLogFile`, with the property that a resumption or a repeated selection
   neither resets nor extends it; `finalize_plan` in `PlanSelection`.
2. The measurement harness of the benchmark gate (`measure_paired`, `trace_paired`): its children, timeouts and verdict.
3. Convention capture and the guarded writes of the review skills, should they come to share state between calls.
