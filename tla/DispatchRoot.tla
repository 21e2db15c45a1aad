----------------------------- MODULE DispatchRoot -----------------------------
(***************************************************************************)
(* loop-task-implementer/scripts/benchmark_gate.py: the directory in which *)
(* one dispatch of the benchmark gate exports its trees (export_tree) and  *)
(* which cleanup_root removes.  Exporters work on it by path.  A cleanup   *)
(* follows one rule: lock first, rename second, put back only under the    *)
(* lock you hold.  It opens the directory, locks it, renames it to a name  *)
(* of its own (a claim, .gone-<root>-<random>), empties it through the     *)
(* descriptor with the marker last, and removes it; a cleanup that finds   *)
(* no root finishes the claims that dead ones left.                        *)
(*                                                                         *)
(* Both kinds of process may be killed at any step.  A cleanup may be      *)
(* interrupted once (the first signal ignores the others).  Limitations:   *)
(* one root name, one leaf name, and a file system that has flock.         *)
(***************************************************************************)
EXTENDS Naturals, FiniteSets

CONSTANTS
  Cleaner,   \* processes that run cleanup_root, one call after another
  Exporter,  \* processes that run export_tree once
  Dirs,      \* bound: directories (inodes) that exist at one time
  Claims,    \* bound: claim names in use at one time
  Late,      \* bound: files that stray children of a benchmark write into it
  Session,   \* a long-lived owner that an export may name (--owner-pid)
  Root,      \* the root's own name
  Torn,      \* a marker file that was created and not yet written
  None       \* no name, no process, no marker

ASSUME RootAssumption ==
  /\ Dirs \subseteq Nat /\ Claims \subseteq Nat
  /\ Late \in Nat
  /\ Root \notin Nat
  /\ Session \notin Exporter /\ Torn \notin Exporter \cup {Session}
  /\ None \notin Nat \cup Cleaner \cup Exporter \cup {Session, Root, Torn}

VARIABLES
  name,      \* the name of each directory in the fixed parent
  marker,    \* its marker: the owner's pid
  tree,      \* the export in it: the exporter that made the leaf directory
  sidecar,   \* the exporter that wrote <leaf>.export.json
  stray,     \* whether a stray file is in it
  written,   \* how many stray files were written
  lock,      \* the cleanup that holds its flock
  session,   \* whether Session is alive
  cleaner,   \* the locals of each cleanup
  exporter,  \* the locals of each export
  recent     \* history: the directories claimed since a cleanup listed the parent

vars  == <<name, marker, tree, sidecar, stray, written, lock, session, cleaner, exporter, recent>>
files == <<name, marker, tree, sidecar, stray, written>>

Owner == Exporter \cup {Session}
Codes == {"REMOVED", "ABSENT", "OWNER_ALIVE", "MARKER_MISSING", "MARKER_INVALID",
          "REMOVE_FAILED", "ROOT_CHANGED", "interrupted"}

\* A cleanup that has not started, and an export that has not.
Idle == [pc |-> "idle", tries |-> 0, scanning |-> FALSE, todo |-> {}, result |-> "ABSENT",
         held |-> Root, want |-> None, fd |-> None, claimed |-> FALSE, gone |-> None,
         code |-> "ABSENT", signalled |-> FALSE, passes |-> 0, absent |-> FALSE]
Fresh == [pc |-> "new", dir |-> None]

Named(n)   == {d \in Dirs : name[d] = n}
At(n)      == IF Named(n) = {} THEN None ELSE CHOOSE d \in Named(n) : TRUE
Gone(d)    == name[d] = None
Holds(d)   == tree[d] # None \/ sidecar[d] # None \/ stray[d]
Empty(d)   == ~Holds(d) /\ marker[d] = None
\* A directory lives on while a process has it open.
FreeDirs   == {d \in Dirs : Gone(d) /\ \A p \in Cleaner : cleaner[p].fd # d}
Leftovers  == {name[d] : d \in Dirs} \ {None, Root}
FreeClaims == Claims \ (Leftovers \cup UNION {{cleaner[p].held} \cup cleaner[p].todo : p \in Cleaner})
Least(S)   == CHOOSE n \in S : \A m \in S : n <= m

\* _pid_alive
Alive(owner) == \/ owner = Session /\ session
                \/ owner \in Exporter /\ exporter[owner].pc \notin {"new", "done", "failed"}

\* No root yet, or that of an export that was killed before it made its leaf.
Init ==
  /\ \E old \in {{}, {Least(Dirs)}} :
       /\ name   = [d \in Dirs |-> IF d \in old THEN Root ELSE None]
       /\ marker = [d \in Dirs |-> IF d \in old THEN Session ELSE None]
  /\ tree    = [d \in Dirs |-> None]
  /\ sidecar = [d \in Dirs |-> None]
  /\ stray   = [d \in Dirs |-> FALSE]
  /\ written = 0
  /\ lock    = [d \in Dirs |-> None]
  /\ session = TRUE
  /\ cleaner  = [p \in Cleaner |-> Idle]
  /\ exporter = [e \in Exporter |-> Fresh]
  /\ recent   = [p \in Cleaner |-> {}]

-----------------------------------------------------------------------------
(* cleanup_root.  A step of cleanup p leaves every other process alone.    *)

At_pc(p, pc) == cleaner[p].pc = pc
Becomes(p, r) == cleaner' = [cleaner EXCEPT ![p] = r]
Goto(p, pc)   == Becomes(p, [cleaner[p] EXCEPT !.pc = pc])

\* Closing the descriptor drops the lock.
Unlock(p) == lock' = [d \in Dirs |-> IF lock[d] = p THEN None ELSE lock[d]]

Closed(r) == [r EXCEPT !.fd = None, !.want = None, !.gone = None, !.claimed = FALSE, !.held = Root,
                       !.passes = 0]

\* The call is over; whether it answered ABSENT is remembered.
Answered(code) == [Idle EXCEPT !.absent = (code = "ABSENT")]

\* RETRY: cleanup_root looks again, three times in all.
Again(r) == IF r.tries < 3 THEN [Closed(r) EXCEPT !.pc = "look", !.scanning = FALSE, !.todo = {},
                                                  !.result = "ABSENT", !.tries = r.tries + 1]
            ELSE Answered("REMOVE_FAILED")

\* Which of two leftovers' codes _recover reports.
Worse(old, new) ==
  IF "RETRY" \in {old, new} THEN "RETRY"
  ELSE IF new # "ABSENT" /\ old \in {"ABSENT", "REMOVED"} THEN new ELSE old

\* What follows when _cleanup, or _finish for one leftover, returns code.
After(r, code) ==
  IF code = "interrupted" THEN Answered(code)
  ELSE IF r.scanning THEN [Closed(r) EXCEPT !.pc = "next", !.result = Worse(r.result, code)]
  ELSE IF code = "RETRY" THEN Again(r)
  ELSE IF code = "ABSENT" THEN [Closed(r) EXCEPT !.pc = "scan"]
  ELSE Answered(code)

Return(p, code) == Becomes(p, After(cleaner[p], code)) /\ Unlock(p)

Start(p) ==
  /\ At_pc(p, "idle")
  /\ Becomes(p, [Idle EXCEPT !.pc = "look", !.tries = 1])
  /\ UNCHANGED <<files, lock, session, exporter, recent>>

\* _checked_root records the identity of what it sees.
Look(p) ==
  /\ At_pc(p, "look")
  /\ IF Named(Root) = {} THEN Goto(p, "scan")
     ELSE Becomes(p, [cleaner[p] EXCEPT !.pc = "open", !.want = At(Root)])
  /\ UNCHANGED <<files, lock, session, exporter, recent>>

\* _open_locked opens by name and compares identities: the name may be gone,
\* or be another directory's by now.
Vanished(p) == IF cleaner[p].scanning THEN "RETRY" ELSE "ABSENT"

Open(p) ==
  LET r == cleaner[p] IN
  /\ At_pc(p, "open")
  /\ IF Named(r.held) = {} THEN Return(p, Vanished(p))
     ELSE IF At(r.held) # r.want THEN Return(p, "ROOT_CHANGED")
     ELSE Becomes(p, [r EXCEPT !.pc = "lock", !.fd = r.want]) /\ UNCHANGED lock
  /\ UNCHANGED <<files, session, exporter, recent>>

TakeLock(p) ==
  LET d == cleaner[p].fd IN
  /\ At_pc(p, "lock")
  /\ lock[d] = None
  /\ lock' = [lock EXCEPT ![d] = p]
  /\ Goto(p, "locked")
  /\ UNCHANGED <<files, session, exporter, recent>>

\* Mutant: a directory that somebody else is removing counts as absent.
WaitTooLongIsAbsent(p) ==
  /\ At_pc(p, "lock")
  /\ lock[cleaner[p].fd] # None
  /\ Return(p, "ABSENT")
  /\ UNCHANGED <<files, session, exporter, recent>>

\* Another cleanup held the directory longer than _LOCK_WAIT_SECONDS.
WaitTooLong(p) ==
  /\ At_pc(p, "lock")
  /\ lock[cleaner[p].fd] # None
  /\ Return(p, "REMOVE_FAILED")
  /\ UNCHANGED <<files, session, exporter, recent>>

\* _claim_state, while waiting and once more under the lock: the holder may
\* have finished the directory or put it back.
Moved(p) ==
  LET r == cleaner[p] IN
  /\ \/ At_pc(p, "lock") /\ lock[r.fd] # None
     \/ At_pc(p, "locked")
  /\ name[r.fd] # r.held
  /\ Return(p, IF Named(r.held) = {} THEN "RETRY" ELSE "ROOT_CHANGED")
  /\ UNCHANGED <<files, session, exporter, recent>>

Owns(p) ==
  /\ At_pc(p, "locked")
  /\ name[cleaner[p].fd] = cleaner[p].held
  /\ Goto(p, IF cleaner[p].scanning THEN "finish" ELSE "marker")
  /\ UNCHANGED <<files, lock, session, exporter, recent>>

\* Mutant: the owner may be alive.
VerdictOfMarker(d) ==
  IF marker[d] = None THEN "MARKER_MISSING"
  ELSE IF marker[d] = Torn THEN "MARKER_INVALID"
  ELSE "OK"

\* _read_marker and _pid_alive.
Verdict(d) ==
  IF marker[d] = None THEN "MARKER_MISSING"
  ELSE IF marker[d] = Torn THEN "MARKER_INVALID"
  ELSE IF Alive(marker[d]) THEN "OWNER_ALIVE"
  ELSE "OK"

Refuse(p) ==
  LET code == Verdict(cleaner[p].fd) IN
  /\ At_pc(p, "marker")
  /\ code # "OK"
  /\ Return(p, code)
  /\ UNCHANGED <<files, session, exporter, recent>>

\* The claim: an atomic rename to a name nobody else uses.
Claim(p) ==
  LET c == Least(FreeClaims)
      d == cleaner[p].fd
  IN
  /\ At_pc(p, "marker")
  /\ Verdict(d) = "OK"
  /\ FreeClaims # {}
  /\ name' = [name EXCEPT ![d] = c]
  /\ Becomes(p, [cleaner[p] EXCEPT !.pc = "finish", !.held = c, !.claimed = TRUE])
  /\ recent' = [q \in Cleaner |-> IF cleaner[q].scanning THEN recent[q] \cup {d} ELSE recent[q]]
  /\ UNCHANGED <<marker, tree, sidecar, stray, written, lock, session, exporter>>

-----------------------------------------------------------------------------
(* _finish, for a root just claimed and for an abandoned claim.            *)

\* An unproven leftover stays where it is; an empty one is only removed.
Finish(p) ==
  LET r == cleaner[p]  code == Verdict(r.fd) IN
  /\ At_pc(p, "finish")
  /\ IF code = "OK" THEN Goto(p, "remove") /\ UNCHANGED lock
     ELSE IF Empty(r.fd) THEN Goto(p, "rmdir") /\ UNCHANGED lock
     ELSE Return(p, code)
  /\ UNCHANGED <<files, session, exporter, recent>>

\* _remove_contents, in the order of the names: the leaf, then its sidecar.
RemoveOne(p) ==
  LET d == cleaner[p].fd IN
  /\ At_pc(p, "remove")
  /\ tree[d] # None \/ sidecar[d] # None
  /\ IF tree[d] # None THEN tree' = [tree EXCEPT ![d] = None] /\ UNCHANGED sidecar
     ELSE sidecar' = [sidecar EXCEPT ![d] = None] /\ UNCHANGED tree
  /\ UNCHANGED <<name, marker, stray, written, lock, session, cleaner, exporter, recent>>

\* A stray file that a late writer adds costs one of the _REMOVE_PASSES.
RemoveStray(p) ==
  LET r == cleaner[p] IN
  /\ At_pc(p, "remove")
  /\ stray[r.fd] /\ r.passes < 3
  /\ stray' = [stray EXCEPT ![r.fd] = FALSE]
  /\ Becomes(p, [r EXCEPT !.passes = @ + 1])
  /\ UNCHANGED <<name, marker, tree, sidecar, written, lock, session, exporter, recent>>

\* _put_back begins, after which the call reports code.
PutBack(p, code) == Becomes(p, [cleaner[p] EXCEPT !.pc = "restore", !.code = code])

\* An entry cannot be deleted, or entries keep appearing.
RemoveFails(p) ==
  /\ At_pc(p, "remove")
  /\ Holds(cleaner[p].fd)
  /\ PutBack(p, "REMOVE_FAILED")
  /\ UNCHANGED <<files, lock, session, exporter, recent>>

\* Mutant: the marker may go before the rest.
UnlinkMarkerFirst(p) ==
  LET d == cleaner[p].fd IN
  /\ At_pc(p, "remove")
  /\ marker' = [marker EXCEPT ![d] = None]
  /\ Becomes(p, [cleaner[p] EXCEPT !.pc = "rmdir", !.gone = marker[d]])
  /\ UNCHANGED <<name, tree, sidecar, stray, written, lock, session, exporter, recent>>

\* A pass left nothing: the marker goes last, and is remembered.
UnlinkMarker(p) ==
  LET d == cleaner[p].fd IN
  /\ At_pc(p, "remove")
  /\ ~Holds(d)
  /\ marker' = [marker EXCEPT ![d] = None]
  /\ Becomes(p, [cleaner[p] EXCEPT !.pc = "rmdir", !.gone = marker[d]])
  /\ UNCHANGED <<name, tree, sidecar, stray, written, lock, session, exporter, recent>>

Rmdir(p) ==
  LET d == cleaner[p].fd IN
  /\ At_pc(p, "rmdir")
  /\ Empty(d)
  /\ name' = [name EXCEPT ![d] = None]
  /\ Return(p, "REMOVED")
  /\ UNCHANGED <<marker, tree, sidecar, stray, written, session, exporter, recent>>

\* A late writer came first, or the call fails.
RmdirFails(p) ==
  /\ At_pc(p, "rmdir")
  /\ PutBack(p, "REMOVE_FAILED")
  /\ UNCHANGED <<files, lock, session, exporter, recent>>

\* _put_back: a marker that was deleted is written back first: created,
RestoreMarker(p) ==
  LET r == cleaner[p] IN
  /\ At_pc(p, "restore")
  /\ r.gone # None /\ marker[r.fd] = None
  /\ marker' = [marker EXCEPT ![r.fd] = Torn]
  /\ Goto(p, "refill")
  /\ UNCHANGED <<name, tree, sidecar, stray, written, lock, session, exporter, recent>>

\* then filled;
RefillMarker(p) ==
  LET r == cleaner[p] IN
  /\ At_pc(p, "refill")
  /\ marker' = [marker EXCEPT ![r.fd] = r.gone]
  /\ Goto(p, "rename")
  /\ UNCHANGED <<name, tree, sidecar, stray, written, lock, session, exporter, recent>>

\* what is empty stays where it is,
NothingToKeep(p) ==
  LET r == cleaner[p] IN
  /\ At_pc(p, "restore")
  /\ r.gone = None \/ marker[r.fd] # None
  /\ IF r.gone = None /\ Empty(r.fd) THEN Return(p, r.code) ELSE Goto(p, "rename") /\ UNCHANGED lock
  /\ UNCHANGED <<files, session, exporter, recent>>

\* and the rest goes back to the root's name if that is free.
RenameBack(p) ==
  LET r == cleaner[p] IN
  /\ At_pc(p, "rename")
  /\ name' = IF Named(Root) = {} THEN [name EXCEPT ![r.fd] = Root] ELSE name
  /\ Return(p, r.code)
  /\ UNCHANGED <<marker, tree, sidecar, stray, written, session, exporter, recent>>

-----------------------------------------------------------------------------
(* _recover                                                                *)

Scan(p) ==
  /\ At_pc(p, "scan")
  /\ Becomes(p, [cleaner[p] EXCEPT !.pc = "next", !.scanning = TRUE, !.todo = Leftovers])
  /\ recent' = [recent EXCEPT ![p] = {}]
  /\ UNCHANGED <<files, lock, session, exporter>>

\* One listed claim: it may have vanished, which is passed over.
NextLeftover(p, c) ==
  LET r == [cleaner[p] EXCEPT !.todo = @ \ {c}] IN
  /\ At_pc(p, "next")
  /\ c \in cleaner[p].todo
  /\ Becomes(p, IF Named(c) = {} THEN r
                ELSE [r EXCEPT !.pc = "open", !.held = c, !.want = At(c)])
  /\ UNCHANGED <<files, lock, session, exporter, recent>>

\* The answer, unless the root is back.
Conclude(p) ==
  LET r == cleaner[p] IN
  /\ At_pc(p, "next")
  /\ r.todo = {}
  /\ Becomes(p, IF r.result = "RETRY" \/ (r.result = "ABSENT" /\ Named(Root) # {}) THEN Again(r)
                ELSE Answered(r.result))
  /\ UNCHANGED <<files, lock, session, exporter, recent>>

-----------------------------------------------------------------------------
(* Signals and kills of a cleanup.                                         *)

\* The handler of SIGINT, SIGTERM and SIGHUP raises KeyboardInterrupt, once.
Signal(p) == ~At_pc(p, "idle") /\ ~cleaner[p].signalled

\* Mutant: a cleanup that is interrupted while it waits puts the tree back.
InterruptEarlyPutsBack(p) ==
  LET d == cleaner[p].fd IN
  /\ Signal(p)
  /\ cleaner[p].pc \in {"look", "open", "lock", "locked", "marker", "scan", "next"}
  /\ name' = IF d # None /\ Named(Root) = {} THEN [name EXCEPT ![d] = Root] ELSE name
  /\ Return(p, "interrupted")
  /\ UNCHANGED <<marker, tree, sidecar, stray, written, session, exporter, recent>>

\* Nothing is claimed yet: the call ends.
InterruptEarly(p) ==
  /\ Signal(p)
  /\ cleaner[p].pc \in {"look", "open", "lock", "locked", "marker", "scan", "next"}
  /\ Return(p, "interrupted")
  /\ UNCHANGED <<files, session, exporter, recent>>

\* _finish puts the claim back, with the marker it had deleted.
InterruptFinish(p) ==
  /\ Signal(p)
  /\ cleaner[p].pc \in {"finish", "remove", "rmdir"}
  /\ Becomes(p, [cleaner[p] EXCEPT !.pc = "restore", !.code = "interrupted", !.signalled = TRUE])
  /\ UNCHANGED <<files, lock, session, exporter, recent>>

\* A put-back is interrupted: _finish starts it again if no marker was
\* deleted; otherwise the call is in the handler that restores it, and only
\* _cleanup, which knows nothing of the marker, puts the claim back.
InterruptPutBack(p) ==
  LET r == cleaner[p] IN
  /\ Signal(p)
  /\ r.pc \in {"restore", "refill", "rename"}
  /\ IF r.gone # None /\ ~r.claimed THEN Return(p, "interrupted")
     ELSE /\ Becomes(p, [r EXCEPT !.pc = "restore", !.gone = None, !.code = "interrupted",
                                  !.signalled = TRUE])
          /\ UNCHANGED lock
  /\ UNCHANGED <<files, session, exporter, recent>>

\* SIGKILL: the kernel drops the lock.
Kill(p) ==
  /\ ~At_pc(p, "idle")
  /\ Becomes(p, Answered("interrupted"))
  /\ Unlock(p)
  /\ UNCHANGED <<files, session, exporter, recent>>

-----------------------------------------------------------------------------
(* export_tree, by path.                                                   *)

Export(e, from, to) ==
  /\ exporter[e].pc = from
  /\ exporter' = [exporter EXCEPT ![e].pc = to]

\* _create_root: a directory with its marker, renamed into place.
Create(e, owner) ==
  /\ exporter[e].pc = "new"
  /\ Named(Root) = {} /\ FreeDirs # {}
  /\ owner = Session => session
  /\ LET d == Least(FreeDirs) IN
     /\ name' = [name EXCEPT ![d] = Root]
     /\ marker' = [marker EXCEPT ![d] = owner]
     /\ exporter' = [exporter EXCEPT ![e] = [pc |-> "mkdir", dir |-> d]]
  /\ UNCHANGED <<tree, sidecar, stray, written, lock, session, cleaner, recent>>

\* A root with a valid marker is used as it is, unless the sidecar is there.
Reuse(e) ==
  LET d == At(Root) IN
  /\ exporter[e].pc = "new"
  /\ d # None
  /\ exporter' = [exporter EXCEPT ![e] =
                   IF sidecar[d] # None \/ marker[d] \notin Owner THEN [pc |-> "failed", dir |-> None]
                   ELSE [pc |-> "mkdir", dir |-> d]]
  /\ UNCHANGED <<files, lock, session, cleaner, recent>>

\* os.mkdir of the leaf: from here on this call owns it.
Mkdir(e) ==
  LET d == At(Root) IN
  /\ IF d # None /\ tree[d] = None
     THEN Export(e, "mkdir", "checkout") /\ tree' = [tree EXCEPT ![d] = e]
     ELSE Export(e, "mkdir", "failed") /\ UNCHANGED tree
  /\ UNCHANGED <<name, marker, sidecar, stray, written, lock, session, cleaner, recent>>

\* read-tree, checkout-index and the checks of what they wrote; then the
\* root must still be the directory it was.
Checkout(e) ==
  /\ At(Root) # None /\ tree[At(Root)] # None
  /\ Export(e, "checkout", IF At(Root) = exporter[e].dir THEN "sidecar" ELSE "undo")
  /\ UNCHANGED <<files, lock, session, cleaner, recent>>

CheckoutFails(e) ==
  /\ Export(e, "checkout", "undo")
  /\ UNCHANGED <<files, lock, session, cleaner, recent>>

WriteSidecar(e) ==
  LET d == At(Root) IN
  /\ IF d # None THEN Export(e, "sidecar", "done") /\ sidecar' = [sidecar EXCEPT ![d] = e]
     ELSE Export(e, "sidecar", "undo") /\ UNCHANGED sidecar
  /\ UNCHANGED <<name, marker, tree, stray, written, lock, session, cleaner, recent>>

\* A failed export deletes its leaf, by path.
Undo(e) ==
  /\ Export(e, "undo", "failed")
  /\ tree' = IF At(Root) = None THEN tree ELSE [tree EXCEPT ![At(Root)] = None]
  /\ UNCHANGED <<name, marker, sidecar, stray, written, lock, session, cleaner, recent>>

KillExport(e) ==
  /\ exporter[e].pc \notin {"new", "done", "failed"}
  /\ exporter' = [exporter EXCEPT ![e].pc = "failed"]
  /\ UNCHANGED <<files, lock, session, cleaner, recent>>

\* The long-lived owner ends.
SessionEnds ==
  /\ session
  /\ session' = FALSE
  /\ UNCHANGED <<files, lock, cleaner, exporter, recent>>

\* A stray child of a benchmark run writes into a directory it still has.
LateWrite(d) ==
  /\ written < Late
  /\ ~Gone(d) /\ ~stray[d]
  /\ written' = written + 1
  /\ stray' = [stray EXCEPT ![d] = TRUE]
  /\ UNCHANGED <<name, marker, tree, sidecar, lock, session, cleaner, exporter, recent>>

-----------------------------------------------------------------------------

\* What a cleanup does by itself.
Progress(p) ==
  \/ Look(p) \/ Open(p) \/ TakeLock(p) \/ WaitTooLong(p) \/ Moved(p) \/ Owns(p)
  \/ Refuse(p) \/ Claim(p) \/ Finish(p) \/ RemoveOne(p) \/ RemoveStray(p) \/ RemoveFails(p)
  \/ UnlinkMarker(p) \/ Rmdir(p) \/ RmdirFails(p)
  \/ RestoreMarker(p) \/ RefillMarker(p) \/ NothingToKeep(p) \/ RenameBack(p)
  \/ Scan(p) \/ Conclude(p)
  \/ \E c \in Claims : NextLeftover(p, c)

Next ==
  \/ \E p \in Cleaner :
       \/ Start(p) \/ Progress(p)
       \/ InterruptEarly(p) \/ InterruptFinish(p) \/ InterruptPutBack(p) \/ Kill(p)
  \/ \E e \in Exporter :
       \/ \E owner \in {e, Session} : Create(e, owner)
       \/ Reuse(e) \/ Mkdir(e) \/ Checkout(e) \/ CheckoutFails(e)
       \/ WriteSidecar(e) \/ Undo(e) \/ KillExport(e)
  \/ SessionEnds
  \/ \E d \in Dirs : LateWrite(d)

Spec == Init /\ [][Next]_vars

-----------------------------------------------------------------------------

\* The ownership rule: while a cleanup finishes a directory it holds the
\* lock and the directory stays under its claim; nobody else moves it.
Working(p) == cleaner[p].pc \in {"finish", "remove", "rmdir", "restore", "refill", "rename"}

OwnershipRule ==
  \A p \in Cleaner : Working(p) => /\ lock[cleaner[p].fd] = p
                                   /\ name[cleaner[p].fd] = cleaner[p].held
                                   /\ cleaner[p].held # Root

\* A claim with anything of an export in it has its marker, wherever its
\* cleanup is killed or interrupted: the next one can finish it.
ContentsKeepMarker ==
  \A d \in Dirs : name[d] \in Claims /\ (tree[d] # None \/ sidecar[d] # None) => marker[d] \in Owner

\* The docstring: an interrupted cleanup puts the tree back, marker included.
PutBackHasMarker ==
  [][\A d \in Dirs : name[d] \in Claims /\ name'[d] = Root => marker[d] \in Owner]_vars

\* ABSENT means that nothing is left: the path is gone, and every leftover
\* there is was claimed after this call listed the parent.
AbsentIsTrue ==
  [][\A p \in Cleaner :
       At_pc(p, "next") /\ cleaner'[p].absent =>
         \A d \in Dirs : Gone(d) \/ (name[d] # Root /\ d \in recent[p])]_vars

\* The docstring's own words, without that exception.
AbsentMeansGone ==
  [][\A p \in Cleaner :
       At_pc(p, "next") /\ cleaner'[p].absent =>
         \A d \in Dirs : Gone(d)]_vars

\* A cleanup removes nothing of a root whose owner is alive.
LiveOwnerKept ==
  [][\A d \in Dirs : (tree[d] # None /\ tree'[d] = None /\ exporter' = exporter) => ~Alive(marker[d])]_vars

\* A failed export removes what it created, and no other export.
FailedExportRemovesOnlyItsOwn ==
  [][\A e \in Exporter, d \in Dirs :
       exporter[e].pc = "undo" /\ exporter'[e].pc = "failed" /\ tree'[d] # tree[d] => tree[d] = e]_vars

=============================================================================
