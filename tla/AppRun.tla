-------------------------------- MODULE AppRun --------------------------------
(***************************************************************************)
(* loop-task-implementer/scripts/app_run.py: run_app_run starts the app a  *)
(* Builder changed as a process group of its own, waits until it answers   *)
(* on its port, asks it once more (the smoke test), and removes the group. *)
(* Several dispatches, each with one call, share the port.                 *)
(*                                                                         *)
(* The app is a leader and the processes it forks: it may crash, fork,     *)
(* ignore SIGTERM, or leave its group (daemonize).  A dead leader is a     *)
(* zombie, and still a member of its group, until the call reaps it.  Time *)
(* is not counted: a deadline may pass at any moment.                      *)
(***************************************************************************)
EXTENDS FiniteSets

CONSTANTS
  Run,     \* dispatches
  Other,   \* a server that is nobody's app
  Free     \* nobody listens on the port

ASSUME RunAssumption == {Other, Free} \cap Run = {} /\ Other # Free

VARIABLES
  run,     \* what each call does, and its outcome
  leader,  \* the process that each call started
  forked,  \* whether a process it forked is alive in its group
  escaped, \* whether one is alive outside its group
  signal,  \* the strongest signal sent to the group
  reused,  \* whether an unrelated process group got the number of the group
  port,    \* who listens on the port
  taken    \* history: somebody else listened on the port after the call found it free

runVars == <<run, leader, forked, escaped, signal, reused, port, taken>>
app  == <<leader, forked, escaped, reused>>

Outcomes == {"none", "skipped", "rejected", "exited_early", "timed_out", "smoke_pass", "smoke_fail", "error", "interrupted"}
States   == {"checks", "start", "poll", "smoke", "teardown", "grace", "kill", "reap", "done", "incomplete", "raised", "dead"}

RunInit ==
  /\ run = [r \in Run |-> [pc |-> "checks", outcome |-> "none"]]
  /\ leader  = [r \in Run |-> "none"]
  /\ forked  = [r \in Run |-> FALSE]
  /\ escaped = [r \in Run |-> FALSE]
  /\ signal  = [r \in Run |-> "none"]
  /\ reused  = [r \in Run |-> FALSE]
  /\ port \in {Free, Other}
  /\ taken = [r \in Run |-> FALSE]

-----------------------------------------------------------------------------
(* The app and its neighbours.                                             *)

\* A process of the app that can run code.
Alive(r) == leader[r] = "alive" \/ forked[r] \/ escaped[r]

\* A call is exposed to a change of the port's owner from its check on.
Exposed(r) == run[r].pc \in {"start", "poll", "smoke"}
Listens(s) ==
  /\ port' = s
  /\ taken' = [r \in Run |-> taken[r] \/ (Exposed(r) /\ r # s)]

Quits(r) == IF port = r /\ ~Alive(r)' THEN port' = Free ELSE UNCHANGED port

Forks(r) ==
  /\ leader[r] = "alive" /\ ~forked[r] /\ signal[r] # "SIGKILL"
  /\ forked' = [forked EXCEPT ![r] = TRUE]
  /\ UNCHANGED <<run, leader, escaped, signal, reused, port, taken>>

Daemonizes(r) ==
  /\ leader[r] = "alive" /\ ~escaped[r] /\ signal[r] # "SIGKILL"
  /\ escaped' = [escaped EXCEPT ![r] = TRUE]
  /\ UNCHANGED <<run, leader, forked, signal, reused, port, taken>>

\* The leader ends: by itself, or because of a signal that it does not ignore.
LeaderEnds(r) ==
  /\ leader[r] = "alive"
  /\ leader' = [leader EXCEPT ![r] = "zombie"]
  /\ UNCHANGED <<run, forked, escaped, signal, reused, taken>>
  /\ Quits(r)

ForkedEnds(r) ==
  /\ forked[r]
  /\ forked' = [forked EXCEPT ![r] = FALSE]
  /\ UNCHANGED <<run, leader, escaped, signal, reused, taken>>
  /\ Quits(r)

EscapedEnds(r) ==
  /\ escaped[r]
  /\ escaped' = [escaped EXCEPT ![r] = FALSE]
  /\ UNCHANGED <<run, leader, forked, signal, reused, taken>>
  /\ Quits(r)

AppListens(r) ==
  /\ port = Free /\ Alive(r)
  /\ Listens(r)
  /\ UNCHANGED <<run, app, signal>>

OtherListens == port = Free /\ Listens(Other) /\ UNCHANGED <<run, app, signal>>
OtherQuits   == port = Other /\ port' = Free /\ UNCHANGED <<run, app, signal, taken>>

\* The kernel gives the number of a group without members to another process.
NumberReused(r) ==
  /\ leader[r] = "reaped" /\ ~forked[r] /\ ~reused[r]
  /\ reused' = [reused EXCEPT ![r] = TRUE]
  /\ UNCHANGED <<run, leader, forked, escaped, signal, port, taken>>

-----------------------------------------------------------------------------
(* The call.                                                               *)

At(r, pc)   == run[r].pc = pc
Moves(r, pc) == run' = [run EXCEPT ![r].pc = pc]
Settles(r, pc, outcome) == run' = [run EXCEPT ![r] = [pc |-> pc, outcome |-> outcome]]

\* Steps 1 and 2: the capability, the policy and the readiness_url.
Refuse(r) ==
  /\ At(r, "checks")
  /\ \E o \in {"skipped", "rejected"} : Settles(r, "done", o)
  /\ UNCHANGED <<app, signal, port, taken>>

\* Mutant: the port is not looked at.
PortUnchecked(r) ==
  /\ At(r, "checks")
  /\ Moves(r, "start")
  /\ UNCHANGED <<app, signal, port, taken>>

\* Step 3: port_is_free.
PortCheck(r) ==
  /\ At(r, "checks")
  /\ IF port = Free THEN Moves(r, "start") ELSE Settles(r, "done", "rejected")
  /\ UNCHANGED <<app, signal, port, taken>>

\* Step 4: start_process.
Start(r) ==
  /\ At(r, "start")
  /\ leader' = [leader EXCEPT ![r] = "alive"]
  /\ Moves(r, "poll")
  /\ UNCHANGED <<forked, escaped, signal, reused, port, taken>>

\* There is no such command: Popen's exception leaves run_app_run.
StartFails(r) ==
  /\ At(r, "start")
  /\ Moves(r, "raised")
  /\ UNCHANGED <<app, signal, port, taken>>

\* poll_readiness: proc.poll() reaps a leader that has ended.
ExitedEarly(r) ==
  /\ At(r, "poll") /\ leader[r] = "zombie"
  /\ leader' = [leader EXCEPT ![r] = "reaped"]
  /\ Settles(r, "teardown", "exited_early")
  /\ UNCHANGED <<forked, escaped, signal, reused, port, taken>>

\* A probe that is answered, by whoever listens.  The leader may have ended
\* since proc.poll(), here and when the time is up.
Ready(r) ==
  /\ At(r, "poll") /\ port # Free
  /\ Moves(r, "smoke")
  /\ UNCHANGED <<app, signal, port, taken>>

TimedOut(r) ==
  /\ At(r, "poll")
  /\ Settles(r, "teardown", "timed_out")
  /\ UNCHANGED <<app, signal, port, taken>>

Smoke(r) ==
  /\ At(r, "smoke")
  /\ \/ port # Free /\ Settles(r, "teardown", "smoke_pass")
     \/ Settles(r, "teardown", "smoke_fail")
  /\ UNCHANGED <<app, signal, port, taken>>

\* An exception or an interrupt in _run_lifecycle: the finally clause runs.
Raises(r) ==
  /\ run[r].pc \in {"poll", "smoke"}
  /\ \E o \in {"error", "interrupted"} : Settles(r, "teardown", o)
  /\ UNCHANGED <<app, signal, port, taken>>

\* _process_group_alive: killpg(pgid, 0) finds a zombie, too, and whatever
\* group has the number.
GroupAlive(r) == leader[r] \in {"alive", "zombie"} \/ forked[r] \/ reused[r]

Terminate(r) ==
  /\ At(r, "teardown")
  /\ IF GroupAlive(r) THEN Moves(r, "grace") /\ signal' = [signal EXCEPT ![r] = "SIGTERM"]
     ELSE Moves(r, "reap") /\ UNCHANGED signal
  /\ UNCHANGED <<app, port, taken>>

\* The grace period ends, by its deadline or because the group is gone.
GraceEnds(r) ==
  /\ At(r, "grace")
  /\ IF GroupAlive(r) THEN Moves(r, "kill") /\ signal' = [signal EXCEPT ![r] = "SIGKILL"]
     ELSE Moves(r, "reap") /\ UNCHANGED signal
  /\ UNCHANGED <<app, port, taken>>

\* So does the wait for the killed group.
KillEnds(r) ==
  /\ At(r, "kill")
  /\ Moves(r, "reap")
  /\ UNCHANGED <<app, signal, port, taken>>

\* Mutant: reaping the leader counts as proof that its group is gone.
ReapIsProof(r) ==
  /\ At(r, "reap")
  /\ leader' = [leader EXCEPT ![r] = IF @ = "zombie" THEN "reaped" ELSE @]
  /\ UNCHANGED <<forked, escaped, signal, reused, port, taken>>
  /\ Moves(r, IF run[r].outcome = "interrupted" THEN "raised"
             ELSE IF leader'[r] = "reaped" THEN "done" ELSE "incomplete")

\* proc.wait(timeout=1.0), then the last look at the group: what the call
\* returns says "teardown incomplete" if the group still has a member.  After
\* an interrupt it returns nothing: the interrupt is raised again.
Reap(r) ==
  /\ At(r, "reap")
  /\ leader' = [leader EXCEPT ![r] = IF @ = "zombie" THEN "reaped" ELSE @]
  /\ UNCHANGED <<forked, escaped, signal, reused, port, taken>>
  /\ Moves(r, IF run[r].outcome = "interrupted" THEN "raised"
             ELSE IF GroupAlive(r)' THEN "incomplete" ELSE "done")

\* An interrupt during the teardown, which nothing catches; or the call is
\* killed.  Its children are left to init, which reaps them.
Abandon(r) ==
  /\ run[r].pc \notin {"done", "incomplete", "raised", "dead"}
  /\ Moves(r, "dead")
  /\ UNCHANGED <<app, signal, port, taken>>

CallStep(r) ==
  \/ Refuse(r) \/ PortCheck(r) \/ Start(r) \/ StartFails(r) \/ ExitedEarly(r) \/ Ready(r) \/ TimedOut(r)
  \/ Smoke(r) \/ Raises(r) \/ Terminate(r) \/ GraceEnds(r) \/ KillEnds(r) \/ Reap(r) \/ Abandon(r)

AppStep(r) ==
  \/ Forks(r) \/ Daemonizes(r) \/ LeaderEnds(r) \/ ForkedEnds(r) \/ EscapedEnds(r) \/ AppListens(r)
  \/ NumberReused(r)

RunNext == (\E r \in Run : CallStep(r) \/ AppStep(r)) \/ OtherListens \/ OtherQuits

RunSpec == RunInit /\ [][RunNext]_runVars

-----------------------------------------------------------------------------

RunTypeOK ==
  /\ run \in [Run -> [pc : States, outcome : Outcomes]]
  /\ leader \in [Run -> {"none", "alive", "zombie", "reaped"}]
  /\ {forked, escaped, reused, taken} \subseteq [Run -> BOOLEAN]
  /\ signal \in [Run -> {"none", "SIGTERM", "SIGKILL"}]
  /\ port \in Run \cup {Other, Free}
  \* A call that tears down or returns knows what it will report.
  /\ \A r \in Run : run[r].pc \in {"teardown", "grace", "kill", "reap", "done", "incomplete"}
                      => run[r].outcome # "none"

\* A call that returns without "teardown incomplete", whatever its outcome,
\* has left no process in the group it started; what is left has left the
\* group before (the disclosed residual of the design's Open Question 5).
NothingLeftRunning ==
  \A r \in Run : At(r, "done") => leader[r] \in {"none", "reaped"} /\ ~forked[r]

\* A smoke test passes on another server's answer only if that server took
\* the port after the call had found it free (Open Question 4).
SmokeIsOwn ==
  [][\A r \in Run : ~At(r, "teardown") /\ run'[r] = [pc |-> "teardown", outcome |-> "smoke_pass"]
        => port = r \/ taken[r]]_runVars

\* A signal is sent only to a group that has a process of the app in it.
SignalsOwnGroup ==
  [][\A r \in Run : signal'[r] # signal[r] => leader[r] \in {"alive", "zombie"} \/ forked[r]]_runVars

\* SIGKILL is sent only if some process outlived the grace period.
KillsOnlySurvivors ==
  [][\A r \in Run : signal[r] # "SIGKILL" /\ signal'[r] = "SIGKILL" => leader[r] = "alive" \/ forked[r]]_runVars

=============================================================================
