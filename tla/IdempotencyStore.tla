--------------------------- MODULE IdempotencyStore ---------------------------
(***************************************************************************)
(* pr-gatekeeper/scripts/idempotency_store.py for one merge request: the   *)
(* record of the last processed head, the lock around it, and the check,   *)
(* mark and run-if-new calls that webhook deliveries make.  run-if-new     *)
(* runs the gatekeeper as a child and holds the lock until it has ended.   *)
(*                                                                         *)
(* A caller is a process that makes one call after another.  It may be     *)
(* killed, and a signal may reach it, at any step; the machine may lose    *)
(* power.  The number of calls is not bounded.                             *)
(***************************************************************************)
EXTENDS Naturals, FiniteSets

CONSTANTS
  Caller,    \* processes that call the script
  Head,      \* head shas
  MaxPolls,  \* bound: polls that fit into a --lock-wait-timeout
  Unbounded, \* no --lock-wait-timeout
  None       \* no head, no holder, no exit code

ASSUME StoreAssumption ==
  /\ MaxPolls \in Nat /\ Unbounded \notin Nat
  /\ None \notin Head \cup Caller \cup Nat

VARIABLES
  record,   \* last_processed_head_sha in the store
  synced,   \* what the store holds on the disk
  dir,      \* the directory of the project: absent, made, or on the disk, too
  lock,     \* the holder of the flock
  call,     \* the locals of each caller
  child,    \* the gatekeeper that each caller started
  done,     \* history: heads whose command ended well and uninterrupted, or that were marked by hand
  acked,    \* history: the head of the last call that answered that it is marked
  standing, \* history: whether that mark was on the disk then (firm), or not (soft) and power was lost since (lost)
  unacked   \* history: heads written since

vars == <<record, synced, dir, lock, call, child, done, acked, standing, unacked>>

Actions == {"check", "mark", "run-if-new"}
Limits  == 0 .. MaxPolls \cup {Unbounded}
Failed  == 6   \* any exit code of a gatekeeper but 0 and the script's own 1 to 5

\* A caller between two calls: of its last exit code it remembers whether it was 1.
Idle(code) == [pc |-> "idle", action |-> "check", head |-> None, limit |-> 0, waited |-> 0,
               signalled |-> FALSE, one |-> (code = 1)]
\* A caller inside a call, before its child runs.
Working(pc, a, h, l) == [pc |-> pc, action |-> a, head |-> h, limit |-> l, waited |-> 0,
                        signalled |-> FALSE, one |-> FALSE]
NoChild    == [state |-> "none", code |-> None]

Init ==
  /\ record = None /\ synced = None /\ dir = "absent" /\ lock = None
  /\ call  = [p \in Caller |-> Idle(None)]
  /\ child = [p \in Caller |-> NoChild]
  /\ done = {} /\ acked = None /\ standing = "lost" /\ unacked = {}

-----------------------------------------------------------------------------
(* The steps of a call.                                                    *)

In(p, pc)   == call[p].pc = pc
Goto(p, pc) == call' = [call EXCEPT ![p].pc = pc]

\* The call answers: leaving mr_lock's block closes the lock file.
Answer(p, code) ==
  /\ call' = [call EXCEPT ![p] = Idle(code)]
  /\ lock' = IF lock = p THEN None ELSE lock
  /\ child' = [child EXCEPT ![p] = NoChild]

answered == <<acked, standing>>
history  == <<done, answered, unacked>>
store    == <<record, synced, dir>>

Start(p) ==
  /\ In(p, "idle")
  /\ \E a \in Actions, h \in Head, l \in Limits :
       call' = [call EXCEPT ![p] = Working("lock", a, h, l)]
  /\ UNCHANGED <<store, lock, child, history>>

\* Mutant: the lock is given back before the command runs.
LockForCheckOnly(p) ==
  /\ In(p, "lock") /\ lock = None
  /\ lock' = IF call[p].action = "run-if-new" THEN None ELSE p
  /\ call' = [call EXCEPT ![p] = Working(IF @.action = "mark" THEN "save" ELSE "check", @.action, @.head, 0)]
  /\ UNCHANGED <<store, child, history>>

\* flock, blocking or polled.
Lock(p) ==
  /\ In(p, "lock") /\ lock = None
  /\ lock' = p
  /\ call' = [call EXCEPT ![p] = Working(IF @.action = "mark" THEN "save" ELSE "check", @.action, @.head, 0)]
  /\ UNCHANGED <<store, child, history>>

Busy(p) == In(p, "lock") /\ lock # None /\ call[p].limit # Unbounded

\* Mutant: the time waited does not add up.
PollAgain(p) ==
  /\ Busy(p) /\ call[p].waited < call[p].limit
  /\ UNCHANGED vars

Poll(p) ==
  /\ Busy(p) /\ call[p].waited < call[p].limit
  /\ call' = [call EXCEPT ![p].waited = @ + 1]
  /\ UNCHANGED <<store, lock, child, history>>

\* LockTimeoutError: exit 3.
TimeOut(p) ==
  /\ Busy(p) /\ call[p].waited >= call[p].limit
  /\ Answer(p, 3)
  /\ UNCHANGED <<store, history>>

\* should_process.
Duplicate(p) ==
  /\ In(p, "check") /\ record = call[p].head
  /\ Answer(p, 1)
  /\ UNCHANGED <<store, history>>

\* Mutant: the head is compared before the lock is taken, and no longer under it.
IsNewUnchecked(p) ==
  /\ In(p, "check")
  /\ IF call[p].action = "check" THEN Answer(p, 0)
     ELSE Goto(p, "spawn") /\ UNCHANGED <<lock, child>>
  /\ UNCHANGED <<store, history>>

IsNew(p) ==
  /\ In(p, "check") /\ record # call[p].head
  /\ IF call[p].action = "check" THEN Answer(p, 0)
     ELSE Goto(p, "spawn") /\ UNCHANGED <<lock, child>>
  /\ UNCHANGED <<store, history>>

\* Popen: from here to Arm the signals still have their default action.
Spawn(p) ==
  /\ In(p, "spawn")
  /\ child' = [child EXCEPT ![p] = [state |-> "running", code |-> None]]
  /\ Goto(p, "arm")
  /\ UNCHANGED <<store, lock, history>>

\* The command does not exist: an uncaught OSError, exit 1.
SpawnFails(p) ==
  /\ In(p, "spawn")
  /\ Answer(p, 1)
  /\ UNCHANGED <<store, history>>

\* _forward_signals_to_child installs its handlers.
Arm(p) ==
  /\ In(p, "arm")
  /\ Goto(p, "wait")
  /\ UNCHANGED <<store, lock, child, history>>

\* The gatekeeper ends, also when it ignored a signal or was never sent one.
ChildEnds(p) ==
  /\ child[p].state = "running"
  /\ \E c \in {0, Failed} : child' = [child EXCEPT ![p] = [state |-> "ended", code |-> c]]
  /\ UNCHANGED <<store, lock, call, history>>

\* SIGINT, SIGTERM or SIGHUP while the handlers are installed: the first one
\* is forwarded, which changes nothing here (the child may or may not end),
\* and the others are ignored.
Signal(p) ==
  /\ In(p, "wait") /\ ~call[p].signalled
  /\ call' = [call EXCEPT ![p].signalled = TRUE]
  /\ UNCHANGED <<store, lock, child, history>>

\* Mutant: a child that ends well after a signal is marked.
JudgeByCode(p) ==
  /\ In(p, "wait") /\ child[p].state = "ended"
  /\ CASE child[p].code # 0 -> Answer(p, child[p].code) /\ UNCHANGED done
       [] OTHER -> /\ Goto(p, "save")
                   /\ done' = IF call[p].signalled THEN done ELSE done \cup {call[p].head}
                   /\ UNCHANGED <<lock, child>>
  /\ UNCHANGED <<store, answered, unacked>>

\* wait() returned; the handlers are restored.
Judge(p) ==
  /\ In(p, "wait") /\ child[p].state = "ended"
  /\ CASE call[p].signalled     -> Answer(p, 4) /\ UNCHANGED done
       [] ~call[p].signalled /\ child[p].code # 0 -> Answer(p, child[p].code) /\ UNCHANGED done
       [] OTHER -> /\ Goto(p, "save")
                   /\ done' = done \cup {call[p].head}
                   /\ UNCHANGED <<lock, child>>
  /\ UNCHANGED <<store, answered, unacked>>

\* save_record: the project's directory is made if there is none, and the
\* temporary file is synced and renamed.
Save(p) ==
  /\ In(p, "save")
  /\ record' = call[p].head
  /\ dir' = IF dir = "absent" THEN "made" ELSE dir
  /\ unacked' = unacked \cup {call[p].head}
  /\ done' = IF call[p].action = "mark" THEN done \cup {call[p].head} ELSE done
  /\ Goto(p, "sync")
  /\ UNCHANGED <<synced, lock, child, answered>>

\* The write, its fsync or the rename fails: an uncaught OSError, exit 1.
SaveFails(p) ==
  /\ In(p, "save")
  /\ Answer(p, 1)
  /\ UNCHANGED <<store, history>>

\* Mutant: the rename is not synced.
SyncNothing(p) ==
  /\ In(p, "sync")
  /\ acked' = call[p].head /\ unacked' = {}
  /\ standing' = IF dir = "durable" THEN "firm" ELSE "soft"
  /\ Answer(p, 0)
  /\ UNCHANGED <<store, done>>

\* _fsync_dir syncs the directory of the project, not the one above it, and
\* ignores an error; the call answers 0 either way.
Sync(p) ==
  /\ In(p, "sync")
  /\ \E reached \in BOOLEAN :
       /\ synced' = IF reached THEN record ELSE synced
       /\ standing' = IF reached /\ dir = "durable" THEN "firm" ELSE "soft"
  /\ acked' = call[p].head /\ unacked' = {}
  /\ Answer(p, 0)
  /\ UNCHANGED <<record, dir, done>>

\* SIGKILL at any step, or a signal with its default action (no handler is
\* installed but in "wait"): the kernel drops the lock, and a child that was
\* started goes on alone.  Its end is nobody's business any more.
Kill(p) ==
  /\ ~In(p, "idle")
  /\ Answer(p, None)
  /\ UNCHANGED <<store, history>>

\* The machine stops.  A rename that was not synced may be lost, and all of a
\* directory whose name is not on the disk.
PowerLoss ==
  /\ synced' = IF dir = "durable" THEN synced ELSE None
  /\ record' = synced'
  /\ dir' = IF dir = "durable" THEN dir ELSE "absent"
  /\ lock' = None
  /\ call'  = [p \in Caller |-> Idle(None)]
  /\ child' = [p \in Caller |-> NoChild]
  /\ standing' = IF standing = "firm" THEN standing ELSE "lost"
  /\ UNCHANGED <<done, acked, unacked>>

\* The kernel may write the rename back at any time, and the new directory.
WriteBack ==
  /\ \/ synced # record /\ synced' = record /\ UNCHANGED dir
     \/ dir = "made" /\ dir' = "durable" /\ UNCHANGED synced
  /\ UNCHANGED <<record, lock, call, child, history>>

\* The steps that a call takes by itself.
Step(p) ==
  \/ Lock(p) \/ Poll(p) \/ TimeOut(p) \/ Duplicate(p) \/ IsNew(p) \/ Spawn(p) \/ Arm(p)
  \/ Judge(p) \/ Save(p) \/ Sync(p)

Next ==
  \/ \E p \in Caller : Start(p) \/ Step(p) \/ SpawnFails(p) \/ SaveFails(p)
                       \/ ChildEnds(p) \/ Signal(p) \/ Kill(p)
  \/ PowerLoss \/ WriteBack

\* A process that can go on does.  The blocking flock of a caller is granted
\* when the lock is free again and again.  Gatekeepers need not end.
Spec == /\ Init /\ [][Next]_vars
        /\ \A p \in Caller : WF_vars(Step(p)) /\ SF_vars(Lock(p))

-----------------------------------------------------------------------------
(* What a webhook integration relies on.                                   *)

CallState ==
  [pc : {"idle", "lock", "check", "spawn", "arm", "wait", "save", "sync"}, action : Actions,
   head : Head \cup {None}, limit : Limits, waited : 0 .. MaxPolls, signalled : BOOLEAN, one : BOOLEAN]

TypeOK ==
  /\ record \in Head \cup {None} /\ synced \in Head \cup {None} /\ dir \in {"absent", "made", "durable"}
  /\ lock \in Caller \cup {None}
  /\ call \in [Caller -> CallState]
  /\ child \in [Caller -> [state : {"none", "running", "ended"}, code : {None, 0, Failed}]]
  /\ done \subseteq Head /\ acked \in Head \cup {None} /\ unacked \subseteq Head
  /\ standing \in {"firm", "soft", "lost"}
  /\ \A p \in Caller :
       /\ call[p].pc # "idle" => call[p].head \in Head
       /\ child[p].state # "none" => call[p].pc \in {"arm", "wait", "save", "sync"}

\* The record names only a head whose gatekeeper ended well in a run that no
\* signal interrupted, or that somebody marked by hand (step 4 of the caller
\* pattern of reference/idempotency.md).
MarkedMeansDone == record # None => record \in done

\* Two gatekeepers that a live run-if-new waits for never run at one time.
NoOverlap == Cardinality({p \in Caller : child[p].state = "running"}) <= 1

\* After a call answered that a head is marked, no gatekeeper is started for
\* that head until somebody writes another one: ever, if the mark was on the
\* disk when it was answered for, and as long as the power stays otherwise.
NoRepeat ==
  [][\A p \in Caller :
       child[p].state = "none" /\ child'[p].state = "running" =>
         call[p].head # acked \/ unacked # {} \/ standing = "lost"]_vars

\* A power loss takes no mark away that a call acknowledged after a directory
\* fsync that worked, in a directory that had reached the disk: what remains
\* is that head, or one written later.
AckedSurvivesPowerLoss ==
  acked # None /\ standing = "firm" => dir = "durable" /\ {record, synced} \subseteq {acked} \cup unacked

\* So is every other mark that a call answered for.  It is not: _fsync_dir
\* ignores an error, and nobody syncs the directory above a new one.
EveryMarkSurvivesPowerLoss == acked # None => record \in {acked} \cup unacked

\* reference/idempotency.md: exit 1 means that the head was already processed.
ExitOneMeansDuplicate ==
  [][\A p \in Caller :
       ~In(p, "idle") /\ call'[p] = Idle(1) => record = call[p].head]_vars

\* A caller that gave --lock-wait-timeout is answered or gets the lock even
\* if the gatekeeper that holds it up never ends.
BoundedWaitEnds ==
  \A p \in Caller : In(p, "lock") /\ call[p].limit # Unbounded ~> ~In(p, "lock")

=============================================================================
