---------------------------- MODULE InstallEngine ----------------------------
(***************************************************************************)
(* scripts/install_engine.py: processes that install and uninstall one     *)
(* skill in one destination.  A run takes the skill's lock, clears what    *)
(* killed runs left, and then works on the destination with renames: a new *)
(* copy is staged beside it and the old one moved aside before the new one *)
(* takes its place.  A run may fail at any call, be told to stop (SIGINT,  *)
(* SIGTERM, SIGHUP) or be killed between any two steps.                    *)
(*                                                                         *)
(* The hidden directories .{skill}.{staging,backup,removing}.XXXXXXXX are  *)
(* numbered in the order they are made, which is the order of their mtime. *)
(* A copy of the skill is known by the number of the directory it was      *)
(* packaged in.  A tree that is being deleted is first torn (files are     *)
(* gone, its manifest is not), then a husk (no manifest), then gone.       *)
(***************************************************************************)
EXTENDS Naturals, FiniteSets

CONSTANTS
  Proc,      \* the processes that run the engine
  MaxDirs,   \* bound: hidden directories made in one behaviour
  MaxLitter, \* bound: the same, in a behaviour where deletions leave things behind
  Faults,    \* sets of what may go wrong besides failed calls, signals and kills
  None       \* no process, no directory, no copy

\* "rmtree": a deletion with ignore_errors=True may leave things behind;
\* "rename": recovery may be unable to rename a backup;
\* "meddling": another tool may take the destination while a run works.
ASSUME InstallAssumption ==
  /\ MaxDirs \in Nat /\ MaxLitter \in 0 .. MaxDirs
  /\ Faults \subseteq SUBSET {"rmtree", "rename", "meddling"}
  /\ None \notin Nat \cup Proc

VARIABLES
  dest,      \* what is at the destination
  hidden,    \* hidden[d] is hidden directory d, or Gone
  made,      \* how many hidden directories were made so far
  faults,    \* which of the Faults a behaviour is exposed to
  lock,      \* the process that holds the skill's lock
  pc,        \* where each process is
  command,   \* "install" or "uninstall"
  todo,      \* the backups its recovery has yet to look at
  stage,     \* stage_dir: the directory it packages in
  aside,     \* backup_dir or removing_dir: where the old copy goes
  doomed,    \* the directory it is deleting
  outcome,   \* how the run ends
  live,      \* history: the copy last established, None once uninstalled
  before     \* history: the destination the run found after recovery

vars == <<dest, hidden, made, faults, lock, pc, command, todo, stage, aside, doomed,
          outcome, live, before>>
locals  == <<command, todo, stage, aside, doomed, outcome, before>>

Dirs    == 1 .. MaxDirs
Copy    == [version : Dirs, state : {"whole", "torn", "husk"}]
Absent  == [version |-> 0, state |-> "absent"]
Foreign == [version |-> 0, state |-> "foreign"]
Place   == Copy \cup {Absent, Foreign}
Gone    == [kind |-> "gone", holds |-> Absent]
Dir     == [kind : {"staging", "backup", "removing"}, holds : Place]

Whole(v) == [version |-> v, state |-> "whole"]

\* The copy a rename to the destination establishes, unless it is damaged.
Established(copy) == IF copy.state = "whole" THEN copy.version ELSE None

\* classify_install_destination: a manifest that names this skill.
Owned(place)    == place.state \in {"whole", "torn"}
Blocking(place) == place.state \in {"husk", "foreign"}

Backups == {d \in Dirs : hidden[d].kind = "backup"}
Garbage == {d \in Dirs : hidden[d].kind \in {"staging", "removing"}}
Newest(S) == CHOOSE d \in S : \A e \in S : e <= d

Init ==
  /\ dest = Absent
  /\ hidden = [d \in Dirs |-> Gone]
  /\ made = 0
  /\ faults \in Faults
  /\ lock = None
  /\ pc      = [p \in Proc |-> "idle"]
  /\ command = [p \in Proc |-> "install"]
  /\ todo    = [p \in Proc |-> {}]
  /\ stage   = [p \in Proc |-> None]
  /\ aside   = [p \in Proc |-> None]
  /\ doomed  = [p \in Proc |-> None]
  /\ outcome = [p \in Proc |-> "none"]
  /\ live = None
  /\ before  = [p \in Proc |-> Absent]

-----------------------------------------------------------------------------
(* Steps common to both commands.                                          *)

Goto(p, from, to) == pc[p] = from /\ pc' = [pc EXCEPT ![p] = to]

\* tempfile.mkdtemp, with what it is about to hold.
MakeDir(kind, holds) ==
  /\ made < IF "rmtree" \in faults THEN MaxLitter ELSE MaxDirs
  /\ made' = made + 1
  /\ hidden' = [hidden EXCEPT ![made + 1] = [kind |-> kind, holds |-> holds]]

\* The checks before the lock have no effect but to refuse: a foreign
\* destination ends an install here.
Start(p, cmd) ==
  /\ Goto(p, "idle", "waiting")
  /\ cmd = "install" => ~Blocking(dest)
  /\ command' = [command EXCEPT ![p] = cmd]
  /\ UNCHANGED <<dest, hidden, made, lock, todo, stage, aside, doomed, outcome,
                 live, before>>

\* held_lock polls the OS lock,
TakeLock(p) ==
  /\ Goto(p, "waiting", "sweeping")
  /\ lock = None
  /\ lock' = p
  /\ UNCHANGED <<dest, hidden, made, live, locals>>

\* and gives up at its timeout.
GiveUp(p) ==
  /\ Goto(p, "waiting", "idle")
  /\ lock # None
  /\ UNCHANGED <<dest, hidden, made, lock, live, locals>>

\* _sweep_leftovers deletes the staging and removing directories it finds.
Sweep(p, d) ==
  /\ pc[p] = "sweeping"
  /\ d \in Garbage
  /\ hidden' = [hidden EXCEPT ![d] = Gone]
  /\ UNCHANGED <<dest, made, lock, pc, live, locals>>

Swept(p) ==
  /\ Goto(p, "sweeping", "recovering")
  /\ Garbage = {} \/ "rmtree" \in faults
  /\ todo' = [todo EXCEPT ![p] = Backups]
  /\ UNCHANGED <<dest, hidden, made, lock, command, stage, aside, doomed, outcome,
                 live, before>>

\* Mutant: the oldest backup first.
NextBackupOldest(p) == CHOOSE d \in todo[p] : \A e \in todo[p] : d <= e

\* _recover_leftover_backups sorts by mtime, newest first.
NextBackup(p) == Newest(todo[p])

Looked(p) == todo' = [todo EXCEPT ![p] = @ \ {NextBackup(p)}]

\* A backup that is no install of this skill, or whose destination is not an
\* install of this skill, is left alone; so is one that cannot be renamed.
Skip(p) ==
  /\ pc[p] = "recovering"
  /\ todo[p] # {}
  /\ LET held == hidden[NextBackup(p)].holds
     IN  \/ ~Owned(held)
         \/ Blocking(dest)
         \/ dest = Absent /\ "rename" \in faults
  /\ Looked(p)
  /\ UNCHANGED <<dest, hidden, made, lock, pc, command, stage, aside, doomed,
                 outcome, live, before>>

\* Nothing is at the destination: the backup goes back, its directory goes.
Restore(p) ==
  /\ Goto(p, "recovering", "discarding")
  /\ todo[p] # {}
  /\ LET d == NextBackup(p)
     IN  /\ Owned(hidden[d].holds)
         /\ dest = Absent
         /\ dest' = hidden[d].holds
         /\ hidden' = [hidden EXCEPT ![d].holds = Absent]
         /\ doomed' = [doomed EXCEPT ![p] = d]
         /\ live' = IF live = None THEN Established(hidden[d].holds) ELSE live
  /\ Looked(p)
  /\ UNCHANGED <<made, lock, command, stage, aside, outcome, before>>

\* An install is in place: the backup is only an old copy.
Supersede(p) ==
  /\ Goto(p, "recovering", "discarding")
  /\ todo[p] # {}
  /\ Owned(hidden[NextBackup(p)].holds)
  /\ Owned(dest)
  /\ doomed' = [doomed EXCEPT ![p] = NextBackup(p)]
  /\ Looked(p)
  /\ UNCHANGED <<dest, hidden, made, lock, command, stage, aside, outcome, live,
                 before>>

Recovered(p) ==
  /\ Goto(p, "recovering", command[p])
  /\ todo[p] = {}
  /\ before' = [before EXCEPT ![p] = dest]
  /\ UNCHANGED <<dest, hidden, made, lock, command, todo, stage, aside, doomed,
                 outcome, live>>

\* rmtree at work on a directory: the files go in any order,
Tear(p) ==
  /\ pc[p] = "discarding"
  /\ LET held == hidden[doomed[p]].holds
     IN  \E s \in {"torn", "husk"} :
           /\ held.state = "whole" \/ (held.state = "torn" /\ s = "husk")
           /\ hidden' = [hidden EXCEPT ![doomed[p]].holds.state = s]
  /\ UNCHANGED <<dest, made, lock, pc, live, locals>>

AfterDiscard(p) ==
  IF outcome[p] = "none" THEN "recovering" ELSE "finishing"

\* and the directory last, or, when something cannot be deleted, not at all.
\* Only the final rmtree of an uninstall reports that.
Discard(p) ==
  /\ Goto(p, "discarding", AfterDiscard(p))
  /\ hidden' = [hidden EXCEPT ![doomed[p]] = Gone]
  /\ doomed' = [doomed EXCEPT ![p] = None]
  /\ UNCHANGED <<dest, made, lock, command, todo, stage, aside, outcome, live, before>>

DiscardFails(p) ==
  /\ "rmtree" \in faults
  /\ Goto(p, "discarding", AfterDiscard(p))
  /\ doomed' = [doomed EXCEPT ![p] = None]
  /\ outcome' = [outcome EXCEPT ![p] = IF @ = "uninstalled" THEN "failed" ELSE @]
  /\ UNCHANGED <<dest, hidden, made, lock, command, todo, stage, aside, live, before>>

\* mkdtemp fails before anything was moved.
MakeDirFails(p) ==
  /\ Goto(p, command[p], "finishing")
  /\ outcome' = [outcome EXCEPT ![p] = "failed"]
  /\ UNCHANGED <<dest, hidden, made, lock, command, todo, stage, aside, doomed, live,
                 before>>

\* The run ends, and the lock file's descriptor is closed.
Finish(p) ==
  /\ Goto(p, "finishing", "idle")
  /\ lock'    = None
  /\ stage'   = [stage EXCEPT ![p] = None]
  /\ aside'   = [aside EXCEPT ![p] = None]
  /\ outcome' = [outcome EXCEPT ![p] = "none"]
  /\ before'  = [before EXCEPT ![p] = Absent]
  /\ UNCHANGED <<dest, hidden, made, command, todo, doomed, live>>

-----------------------------------------------------------------------------
(* install_skill, under the lock.                                          *)

MakeStage(p) ==
  /\ Goto(p, "install", "packaging")
  /\ MakeDir("staging", Absent)
  /\ stage' = [stage EXCEPT ![p] = made + 1]
  /\ UNCHANGED <<dest, lock, command, todo, aside, doomed, outcome, live, before>>

\* package_skill and validate_tree.
Package(p) ==
  /\ Goto(p, "packaging", "checking")
  /\ hidden' = [hidden EXCEPT ![stage[p]].holds = Whole(stage[p])]
  /\ UNCHANGED <<dest, made, lock, live, locals>>

\* The destination is classified again, and a place made for an old install.
MakeBackup(p) ==
  /\ Goto(p, "checking", "displacing")
  /\ Owned(dest)
  /\ MakeDir("backup", Absent)
  /\ aside' = [aside EXCEPT ![p] = made + 1]
  /\ UNCHANGED <<dest, lock, command, todo, stage, doomed, outcome, live, before>>

NothingToBackUp(p) ==
  /\ Goto(p, "checking", "replacing")
  /\ dest = Absent
  /\ UNCHANGED <<dest, hidden, made, lock, live, locals>>

Displace(p) ==
  /\ Goto(p, "displacing", "replacing")
  /\ hidden' = [hidden EXCEPT ![aside[p]].holds = dest]
  /\ dest' = Absent
  /\ UNCHANGED <<made, lock, live, locals>>

\* os.replace(stage_dir, skill_dest), which a directory in its way refuses.
Replace(p) ==
  /\ Goto(p, "replacing", "replaced")
  /\ dest = Absent
  /\ dest' = hidden[stage[p]].holds
  /\ hidden' = [hidden EXCEPT ![stage[p]] = Gone]
  /\ live' = stage[p]
  /\ UNCHANGED <<made, lock, locals>>

Installed(p) ==
  /\ Goto(p, "replaced", IF aside[p] = None THEN "finishing" ELSE "discarding")
  /\ doomed'  = [doomed EXCEPT ![p] = aside[p]]
  /\ outcome' = [outcome EXCEPT ![p] = "installed"]
  /\ UNCHANGED <<dest, hidden, made, lock, command, todo, stage, aside, live, before>>

\* Any exception before the replacement: a failed copy, a package that does
\* not validate, a foreign destination, no room for a backup, a failed rename.
InstallFails(p) ==
  /\ pc[p] \in {"packaging", "checking", "displacing", "replacing"}
  /\ pc'      = [pc EXCEPT ![p] = "cleaning"]
  /\ outcome' = [outcome EXCEPT ![p] = "failed"]
  /\ UNCHANGED <<dest, hidden, made, lock, command, todo, stage, aside, doomed,
                 live, before>>

\* The first stop signal is an exception in the midst of the work; what
\* follows runs with the later ones absorbed or put off.
InterruptInstall(p) ==
  /\ pc[p] \in {"packaging", "checking", "displacing", "replacing", "replaced"}
  /\ pc'      = [pc EXCEPT ![p] = "cleaning"]
  /\ outcome' = [outcome EXCEPT ![p] = "interrupted"]
  /\ UNCHANGED <<dest, hidden, made, lock, command, todo, stage, aside, doomed,
                 live, before>>

\* _cleanup_failed_install: the staged copy goes first,
CleanStage(p) ==
  /\ Goto(p, "cleaning", IF aside[p] = None THEN "finishing" ELSE "restoring")
  /\ \/ hidden' = [hidden EXCEPT ![stage[p]] = Gone]
     \/ "rmtree" \in faults /\ UNCHANGED hidden
  /\ UNCHANGED <<dest, made, lock, live, locals>>

Displaced(p) == dest = Absent /\ hidden[aside[p]].holds # Absent

\* then an install that was moved aside returns to an empty destination,
PutBack(p) ==
  /\ Goto(p, "restoring", "discarding")
  /\ Displaced(p)
  /\ dest' = hidden[aside[p]].holds
  /\ hidden' = [hidden EXCEPT ![aside[p]].holds = Absent]
  /\ doomed' = [doomed EXCEPT ![p] = aside[p]]
  /\ UNCHANGED <<made, lock, command, todo, stage, aside, outcome, live, before>>

\* or, if the rename fails, stays where it is;
PutBackFails(p) ==
  /\ Goto(p, "restoring", "finishing")
  /\ Displaced(p)
  /\ UNCHANGED <<dest, hidden, made, lock, live, locals>>

\* and its directory is deleted.
NothingToPutBack(p) ==
  /\ Goto(p, "restoring", "discarding")
  /\ ~Displaced(p)
  /\ doomed' = [doomed EXCEPT ![p] = aside[p]]
  /\ UNCHANGED <<dest, hidden, made, lock, command, todo, stage, aside, outcome, live,
                 before>>

-----------------------------------------------------------------------------
(* uninstall_skill, under the lock.                                        *)

NothingToUninstall(p) ==
  /\ Goto(p, "uninstall", "finishing")
  /\ ~Owned(dest)
  /\ outcome' = [outcome EXCEPT ![p] = IF dest = Absent THEN "absent" ELSE "failed"]
  /\ UNCHANGED <<dest, hidden, made, lock, command, todo, stage, aside, doomed, live,
                 before>>

MakeRemoving(p) ==
  /\ Goto(p, "uninstall", "removing")
  /\ Owned(dest)
  /\ MakeDir("removing", Absent)
  /\ aside' = [aside EXCEPT ![p] = made + 1]
  /\ UNCHANGED <<dest, lock, command, todo, stage, doomed, outcome, live, before>>

\* Mutant: the install is deleted where it is.
RemoveInPlace(p) ==
  /\ Goto(p, "removing", "removed")
  /\ dest' = [dest EXCEPT !.state = "torn"]
  /\ live' = None
  /\ UNCHANGED <<hidden, made, lock, locals>>

Remove(p) ==
  /\ Goto(p, "removing", "removed")
  /\ hidden' = [hidden EXCEPT ![aside[p]].holds = dest]
  /\ dest' = Absent
  /\ live' = None
  /\ UNCHANGED <<made, lock, locals>>

Uninstalled(p) ==
  /\ Goto(p, "removed", "discarding")
  /\ doomed'  = [doomed EXCEPT ![p] = aside[p]]
  /\ outcome' = [outcome EXCEPT ![p] = "uninstalled"]
  /\ UNCHANGED <<dest, hidden, made, lock, command, todo, stage, aside, live, before>>

\* The rename fails, or a stop signal comes before it or after it.
UninstallFails(p) ==
  /\ pc[p] \in {"removing", "removed"}
  /\ pc' = [pc EXCEPT ![p] = "undoing"]
  /\ \E how \in {"failed", "interrupted"} :
       /\ how = "failed" => pc[p] = "removing"
       /\ outcome' = [outcome EXCEPT ![p] = how]
  /\ UNCHANGED <<dest, hidden, made, lock, command, todo, stage, aside, doomed, live,
                 before>>

\* Mutant: what was moved out is deleted.
UndoForgets(p) ==
  /\ Goto(p, "undoing", "discarding")
  /\ doomed' = [doomed EXCEPT ![p] = aside[p]]
  /\ UNCHANGED <<dest, hidden, live>>
  /\ UNCHANGED <<made, lock, command, todo, stage, aside, outcome, before>>

\* Deferred: what was moved out returns, and its directory is deleted,
Undo(p) ==
  /\ Goto(p, "undoing", "discarding")
  /\ IF Displaced(p)
       THEN /\ dest' = hidden[aside[p]].holds
            /\ hidden' = [hidden EXCEPT ![aside[p]].holds = Absent]
            /\ live' = Established(hidden[aside[p]].holds)
       ELSE UNCHANGED <<dest, hidden, live>>
  /\ doomed' = [doomed EXCEPT ![p] = aside[p]]
  /\ UNCHANGED <<made, lock, command, todo, stage, aside, outcome, before>>

\* unless the rename back fails.
UndoFails(p) ==
  /\ Goto(p, "undoing", "finishing")
  /\ Displaced(p)
  /\ UNCHANGED <<dest, hidden, made, lock, live, locals>>

-----------------------------------------------------------------------------
\* SIGKILL, a third stop signal, or a first one where the code has no handler
\* that repairs: while it waits, sweeps or recovers, and between two blocks.
Kill(p) ==
  /\ pc[p] # "idle"
  /\ pc'      = [pc EXCEPT ![p] = "idle"]
  /\ lock'    = IF lock = p THEN None ELSE lock
  /\ todo'    = [todo EXCEPT ![p] = {}]
  /\ stage'   = [stage EXCEPT ![p] = None]
  /\ aside'   = [aside EXCEPT ![p] = None]
  /\ doomed'  = [doomed EXCEPT ![p] = None]
  /\ outcome' = [outcome EXCEPT ![p] = "none"]
  /\ before'  = [before EXCEPT ![p] = Absent]
  /\ UNCHANGED <<dest, hidden, made, command, live>>

\* Another tool puts something of its own where nothing is, or takes it away.
Meddle ==
  /\ lock = None \/ "meddling" \in faults
  /\ \/ dest = Absent /\ dest' = Foreign
     \/ dest = Foreign /\ dest' = Absent
  /\ UNCHANGED <<hidden, made, lock, pc, live, locals>>

Work(p) ==
  \/ TakeLock(p) \/ GiveUp(p)
  \/ \E d \in Dirs : Sweep(p, d)
  \/ Swept(p) \/ Skip(p) \/ Restore(p) \/ Supersede(p) \/ Recovered(p)
  \/ Tear(p) \/ Discard(p) \/ DiscardFails(p)
  \/ MakeDirFails(p) \/ Finish(p)
  \/ MakeStage(p) \/ Package(p) \/ MakeBackup(p) \/ NothingToBackUp(p)
  \/ Displace(p) \/ Replace(p) \/ Installed(p)
  \/ InstallFails(p) \/ InterruptInstall(p)
  \/ CleanStage(p) \/ PutBack(p) \/ PutBackFails(p) \/ NothingToPutBack(p)
  \/ NothingToUninstall(p) \/ MakeRemoving(p) \/ Remove(p) \/ Uninstalled(p)
  \/ UninstallFails(p) \/ Undo(p) \/ UndoFails(p)

Next ==
  /\ \/ \E p \in Proc : \/ \E cmd \in {"install", "uninstall"} : Start(p, cmd)
                        \/ Work(p)
                        \/ Kill(p)
     \/ Meddle
  /\ UNCHANGED faults

Spec == Init /\ [][Next]_vars

-----------------------------------------------------------------------------
(* Properties.                                                             *)

TypeOK ==
  /\ dest \in Place
  /\ hidden \in [Dirs -> Dir \cup {Gone}]
  /\ made \in 0 .. MaxDirs
  /\ faults \in Faults
  /\ lock \in Proc \cup {None}
  /\ pc \in [Proc -> {"idle", "waiting", "sweeping", "recovering", "install",
                     "packaging", "checking", "displacing", "replacing",
                     "replaced", "cleaning", "restoring", "uninstall",
                     "removing", "removed", "undoing", "discarding",
                     "finishing"}]
  /\ command \in [Proc -> {"install", "uninstall"}]
  /\ todo \in [Proc -> SUBSET Dirs]
  /\ stage \in [Proc -> Dirs \cup {None}]
  /\ aside \in [Proc -> Dirs \cup {None}]
  /\ doomed \in [Proc -> Dirs \cup {None}]
  /\ outcome \in [Proc -> {"none", "installed", "uninstalled", "absent", "failed",
                          "interrupted"}]
  /\ live \in Dirs \cup {None}
  /\ before \in [Proc -> Place]

\* Whenever a run fails, is interrupted or is killed, however often, the copy
\* last installed is at the destination, or in the backup that the next run
\* puts back: until an uninstall takes it away it is never lost, and never
\* overtaken by an older one.
InstallSurvives ==
  live # None =>
    \/ dest = Whole(live)
    \/ LET kept == {d \in Backups : Owned(hidden[d].holds)}
       IN  ~Owned(dest) /\ kept # {} /\ hidden[Newest(kept)].holds = Whole(live)

\* A host that reads the destination at any moment finds a complete copy of the
\* skill or none, never one that is half copied or half deleted; provided that
\* deletions leave nothing behind: a backup that is half deleted can be put back.
DestIsWhole == "rmtree" \notin faults => dest.state \in {"whole", "absent", "foreign"}

\* What a run reports is true of the disk while it still holds the lock: an
\* install that reports success is in place, one that fails has left what it
\* found, or has it in its backup, and an uninstall that fails has left it too;
\* provided that deletions leave nothing behind.
OutcomeHonest ==
  \A p \in Proc : pc[p] = "finishing" /\ "rmtree" \notin faults =>
    LET unharmed == \/ dest = before[p]
                    \/ aside[p] # None /\ hidden[aside[p]].holds = before[p]
        replaced == stage[p] # None /\ dest = Whole(stage[p])
    IN  CASE outcome[p] = "installed"   -> replaced
          [] outcome[p] = "uninstalled" -> dest = Absent
          [] outcome[p] = "absent"      -> dest = Absent
          [] outcome[p] = "failed"      -> unharmed
          [] outcome[p] = "interrupted" -> unharmed \/ replaced

\* What scripts/README.md says of an install: the old copy is moved aside, never
\* deleted before the new one is in place.
OldCopyKept ==
  live # None => \/ dest = Whole(live)
                 \/ \E d \in Backups : hidden[d].holds = Whole(live)

\* What _recover_leftover_backups says its order is for: a recovery never
\* silently rolls the user back to an older copy.
NoRollback == live # None /\ Owned(dest) => dest = Whole(live)
=============================================================================
