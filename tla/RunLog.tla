-------------------------------- MODULE RunLog --------------------------------
(***************************************************************************)
(* The run log of loop-task-implementer: orchestrator sessions that follow *)
(* section 20 of workflow/orchestrator.md, and the processes of            *)
(* scripts/run_log.py append that they start.                              *)
(*                                                                         *)
(* A session saves a call and the head it sends it with, starts a process  *)
(* for it, and on the receipt stores the new head.  When it dies, or gives *)
(* up on an answer, the process it started lives on; the next session to   *)
(* run from the same saved state repeats the call.  A second session may   *)
(* be started from a copy of that state.                                   *)
(***************************************************************************)
EXTENDS RunLogFile, FiniteSets
LOCAL INSTANCE SequencesExt

CONSTANTS
  Session,   \* orchestrator sessions
  Writer,    \* processes of run_log.py append
  Earlier,   \* bound: calls that the run has behind it, unless it is new
  MaxCalls,  \* bound: calls saved in one behaviour
  MaxClock   \* bound: the latest time

VARIABLES
  log,       \* the file: what the processes see
  disk,      \* the file: what a power loss leaves
  lock,      \* the process that holds the flock
  clock,
  mode,      \* mode[s]: what session s is doing
  head,      \* run_log.chain_head of session s
  pending,   \* run_log.pending of session s
  pc,        \* pc[w]: where process w is
  owner,     \* the session that waits for process w
  call,      \* the call process w was started with
  draft,     \* the record it writes or returns
  base,      \* the file it restores when it fails
  answer,    \* how it ends
  saved,     \* history: how many calls were saved
  receipt,   \* history: the head in the last receipt a process returned
  synced,    \* history: the head in the last that followed an fsync
  upsets     \* history: what may make an honest log look strange

files    == <<log, disk, lock>>
sessions == <<mode, head, pending, saved>>
writers  == <<pc, owner, call, draft, base, answer>>
receipts == <<receipt, synced>>
vars     == <<files, clock, sessions, writers, receipts, upsets>>

Call == [id : 1 .. MaxCalls, event : Event, unanchored : BOOLEAN,
         head : Seq(Content) \cup {None}]

ASSUME LogAssumption ==
  /\ Earlier \in Nat /\ MaxCalls \in Nat /\ MaxClock \in Nat
  /\ None \notin Session \cup Writer \cup Call

\* The records of a run that went on for n calls before.
Before(n) ==
  LET content(i) == [event |-> IF i = 1 THEN "run_started" ELSE "task_selected",
                     unanchored |-> FALSE, recovered |-> FALSE, ts |-> 0]
  IN  [i \in 1 .. n |-> [event |-> content(i).event, unanchored |-> FALSE, recovered |-> FALSE, ts |-> 0,
                         seq |-> i, prev |-> [j \in 1 .. i - 1 |-> content(j)], id |-> MaxCalls + i]]

\* One session starts the run, or comes back to it, with one call fewer left.
Init ==
  /\ saved \in {0, 1}
  /\ log = [lines |-> Before(IF saved = 0 THEN 0 ELSE Earlier), rest |-> None]
  /\ disk = log
  /\ lock = None
  /\ clock = 0
  /\ \E first \in Session :
       /\ mode = [s \in Session |-> IF s = first THEN "down" ELSE "absent"]
       /\ head = [s \in Session |-> IF s = first /\ log.lines # <<>> THEN HashOfLast(log.lines) ELSE None]
  /\ pending = [s \in Session |-> None]
  /\ pc      = [w \in Writer |-> "idle"]
  /\ owner   = [w \in Writer |-> None]
  /\ call    = [w \in Writer |-> None]
  /\ draft   = [w \in Writer |-> None]
  /\ base    = [w \in Writer |-> None]
  /\ answer  = [w \in Writer |-> "none"]
  /\ receipt = HashOfLast(log.lines)
  /\ synced = HashOfLast(log.lines)
  /\ upsets = {}

-----------------------------------------------------------------------------
(* Sessions.                                                               *)

\* Save a call and the head it will be sent with.
Save(s, event, h) ==
  /\ saved < MaxCalls
  /\ saved' = saved + 1
  /\ pending' = [pending EXCEPT ![s] =
       [id |-> saved + 1, event |-> event,
        unanchored |-> event = "run_resumed" /\ h = None, head |-> h]]
  /\ mode' = [mode EXCEPT ![s] = "ready"]
  /\ UNCHANGED <<files, clock, writers, receipts, head, upsets>>

\* A saved call whose receipt never arrived is repeated before anything else.
Repeatable(s) == pending[s] # None /\ pending[s].head # None

\* Start process w for the saved call.
Send(s, w) ==
  /\ \/ mode[s] = "ready" /\ mode' = [mode EXCEPT ![s] = "waiting"]
     \/ mode[s] = "down" /\ Repeatable(s) /\ mode' = [mode EXCEPT ![s] = "repeating"]
  /\ pc[w] = "idle"
  /\ pc'    = [pc EXCEPT ![w] = "locking"]
  /\ owner' = [owner EXCEPT ![w] = s]
  /\ call'  = [call EXCEPT ![w] = pending[s]]
  /\ UNCHANGED <<files, clock, head, pending, saved, draft, base, answer, receipts,
                 upsets>>

\* verify, under a shared lock: it accepts the log, but for a torn end, and the
\* log ends at the head the session holds, if it holds one.
Verifies(s) ==
  /\ mode[s] = "down"
  /\ ~Repeatable(s)
  /\ lock = None

Records == Parsed(log)

Accepted(s) ==
  /\ Verdict(log, clock) \in {"ok", "recoverable"}
  /\ head[s] # None => head[s] = HashOfLast(Records)

NewRun(s) == head[s] = None /\ Records = <<>>

OnlyStarted == Len(Records) = 1 /\ Records[1].event = "run_started"

Begin(s) ==
  /\ Verifies(s)
  /\ NewRun(s)
  /\ Save(s, "run_started", None)

\* The receipt of run_started, or the next call, was lost.
Rejoin(s) ==
  /\ Verifies(s)
  /\ Accepted(s) /\ OnlyStarted
  /\ head' = [head EXCEPT ![s] = HashOfLast(Records)]
  /\ mode' = [mode EXCEPT ![s] = "up"]
  /\ UNCHANGED <<files, clock, writers, receipts, pending, saved, upsets>>

Resume(s) ==
  /\ Verifies(s)
  /\ Accepted(s) /\ ~OnlyStarted /\ head[s] # None
  /\ Save(s, "run_resumed", head[s])

\* Anything else is an integrity finding.
StopAtVerify(s) ==
  /\ Verifies(s)
  /\ ~NewRun(s)
  /\ ~(Accepted(s) /\ (OnlyStarted \/ head[s] # None))
  /\ mode' = [mode EXCEPT ![s] = "stopped"]
  /\ UNCHANGED <<files, clock, writers, receipts, head, pending, saved, upsets>>

\* A person has inspected the log.
ResumeUnanchored(s) ==
  /\ mode[s] = "stopped"
  /\ Save(s, "run_resumed", None)

LogEvent(s) ==
  /\ mode[s] = "up"
  /\ \E event \in {"task_selected", "run_completed"} : Save(s, event, head[s])

\* The session dies, or stops waiting: the outcome of its call is unknown.
Die(s) ==
  /\ mode[s] \in {"up", "ready", "waiting", "repeating"}
  /\ mode'  = [mode EXCEPT ![s] = "down"]
  /\ owner' = [w \in Writer |-> IF owner[w] = s THEN None ELSE owner[w]]
  /\ UNCHANGED <<files, clock, head, pending, saved, pc, call, draft, base, answer,
                 receipts, upsets>>

\* A second session is started from a copy of t's saved state.
Adopt(s, t) ==
  /\ mode[s] = "absent" /\ mode[t] # "absent"
  /\ mode'    = [mode EXCEPT ![s] = "down"]
  /\ head'    = [head EXCEPT ![s] = head[t]]
  /\ pending' = [pending EXCEPT ![s] = pending[t]]
  /\ upsets'  = upsets \cup {"second session"}
  /\ UNCHANGED <<files, clock, saved, writers, receipts>>

\* The modes a session goes to: after a repeated call it goes on to verify, but
\* for a resumption, which it does not repeat, and for the end of the run.
AfterReceipt(s) ==
  IF \/ pending[s].event = "run_completed"
     \/ mode[s] = "repeating" /\ pending[s].event # "run_resumed"
  THEN "down"
  ELSE "up"

Receive(s, w) ==
  /\ pc[w] = "answering" /\ owner[w] = s
  /\ pc'    = [pc EXCEPT ![w] = "idle"]
  /\ owner' = [owner EXCEPT ![w] = None]
  /\ \/ /\ answer[w] = "receipt"
        /\ head'    = [head EXCEPT ![s] = Hash(draft[w])]
        /\ pending' = [pending EXCEPT ![s] = None]
        /\ mode'    = [mode EXCEPT ![s] = AfterReceipt(s)]
     \/ /\ answer[w] = "integrity"
        /\ mode' = [mode EXCEPT ![s] = "stopped"]
        /\ UNCHANGED <<head, pending>>
     \/ /\ answer[w] = "refused"        \* LOG_UNAVAILABLE
        /\ mode' = [mode EXCEPT ![s] = "down"]
        /\ UNCHANGED <<head, pending>>
  /\ draft'  = [draft EXCEPT ![w] = None]
  /\ answer' = [answer EXCEPT ![w] = "none"]
  /\ UNCHANGED <<files, clock, saved, call, base, receipts, upsets>>

-----------------------------------------------------------------------------
(* Processes.                                                              *)

\* The same request, committed before its receipt was lost.
Repeats(c, tail) ==
  /\ tail.last.prev = c.head
  /\ tail.last.ts <= clock + Skew
  /\ tail.last.event = c.event /\ tail.last.unanchored = c.unanchored

\* The clock and the order of events, for a call whose head is right.
JudgedByOrder(c, tail) ==
  CASE tail.ts > clock + Forged                            -> "integrity"
    [] tail.ts <= clock + Forged /\ tail.ts > clock + Skew -> "refused"
    [] OTHER -> IF Follows(tail.seq + 1, c.event, tail.completed)
                THEN "append" ELSE "refused"

\* Mutant: the head the caller sends is not compared.
JudgedUnheaded(c, tail) ==
  IF c.head = None /\ tail.seq > 0 /\ ~c.unanchored THEN "refused"
                                                   ELSE JudgedByOrder(c, tail)

\* What an append does about call c.
Judged(c, tail) ==
  CASE c.head = None /\ tail.seq > 0 /\ ~c.unanchored         -> "refused"
    [] c.head # None /\ tail.seq = 0                          -> "integrity"
    [] c.head # None /\ tail.seq > 0 /\ tail.head # c.head    ->
         IF Repeats(c, tail) THEN "repeat" ELSE "integrity"
    [] OTHER                                                  ->
         JudgedByOrder(c, tail)

\* Mutant: the time of the last record is not taken into account.
NextRecordByClock(c, tail) ==
  [event |-> c.event, unanchored |-> c.unanchored, recovered |-> tail.cut,
   ts |-> clock, seq |-> tail.seq + 1, prev |-> tail.head, id |-> c.id]

\* _make_record.
NextRecord(c, tail) ==
  [event |-> c.event, unanchored |-> c.unanchored, recovered |-> tail.cut,
   ts |-> IF tail.ts > clock THEN tail.ts ELSE clock,
   seq |-> tail.seq + 1, prev |-> tail.head, id |-> c.id]

\* Process w ends: with an answer and what it returns, if anybody waits for it.
Return(w, kind, record) ==
  LET heard == owner[w] # None
  IN  /\ pc'     = [pc EXCEPT ![w] = IF heard THEN "answering" ELSE "idle"]
      /\ answer' = [answer EXCEPT ![w] = IF heard THEN kind ELSE "none"]
      /\ draft'  = [draft EXCEPT ![w] = IF heard THEN record ELSE None]
      /\ call'   = [call EXCEPT ![w] = None]
      /\ base'   = [base EXCEPT ![w] = None]
      /\ UNCHANGED owner

\* The lock's timeout.
GiveUp(w) ==
  /\ pc[w] = "locking" /\ lock # None
  /\ Return(w, "refused", None)
  /\ UNCHANGED <<files, clock, sessions, receipts, upsets>>

\* Process w has the lock and reads the end of the log.
Refuse(w) ==
  /\ pc[w] = "locking" /\ lock = None
  /\ LET verdict == Judged(call[w], TailState(log))
     IN  verdict \in {"refused", "integrity"} /\ Return(w, verdict, None)
  /\ UNCHANGED <<files, clock, sessions, receipts, upsets>>

\* The record is there: return it,
Repeat(w) ==
  /\ pc[w] = "locking" /\ lock = None
  /\ Judged(call[w], TailState(log)) = "repeat"
  /\ ~Unterminated(log)
  /\ Return(w, "receipt", TailState(log).last)
  /\ receipt' = TailState(log).head
  /\ UNCHANGED <<files, clock, sessions, synced, upsets>>

\* but first its newline, if that was lost.
RepeatUnterminated(w) ==
  /\ pc[w] = "locking" /\ lock = None
  /\ Judged(call[w], TailState(log)) = "repeat"
  /\ Unterminated(log)
  /\ draft' = [draft EXCEPT ![w] = log.rest]
  /\ lock' = w
  /\ pc'   = [pc EXCEPT ![w] = "finishing"]
  /\ UNCHANGED <<log, disk, clock, sessions, owner, call, base, answer, receipts,
                 upsets>>

Finish(w) ==
  /\ pc[w] = "finishing"
  /\ log' = [lines |-> Readable(log), rest |-> None]
  /\ pc'  = [pc EXCEPT ![w] = "syncing"]
  /\ UNCHANGED <<disk, lock, clock, sessions, owner, call, draft, base, answer,
                 receipts, upsets>>

Prepare(w) ==
  /\ pc[w] = "locking" /\ lock = None
  /\ LET tail == TailState(log)
     IN  /\ Judged(call[w], tail) = "append"
         /\ draft' = [draft EXCEPT ![w] = NextRecord(call[w], tail)]
         /\ pc' = [pc EXCEPT ![w] = IF tail.cut THEN "cutting" ELSE "writing"]
  /\ base' = [base EXCEPT ![w] = log]
  /\ lock' = w
  /\ UNCHANGED <<log, disk, clock, sessions, owner, call, answer, receipts, upsets>>

\* Mutant: the fragment is taken to start one line too early.
CutRecord(w) ==
  /\ pc[w] = "cutting"
  /\ log'  = [lines |-> SubSeq(log.lines, 1, Len(log.lines) - 1), rest |-> None]
  /\ base' = [base EXCEPT ![w] = log']
  /\ pc'   = [pc EXCEPT ![w] = "writing"]
  /\ UNCHANGED <<disk, lock, clock, sessions, owner, call, draft, answer, receipts,
                 upsets>>

\* ftruncate to the end of the last record.
Cut(w) ==
  /\ pc[w] = "cutting"
  /\ log'  = [log EXCEPT !.rest = None]
  /\ base' = [base EXCEPT ![w] = log']
  /\ pc'   = [pc EXCEPT ![w] = "writing"]
  /\ UNCHANGED <<disk, lock, clock, sessions, owner, call, draft, answer, receipts,
                 upsets>>

\* write may come to a halt anywhere: after a missing newline, within the
\* record, before the record's own newline.
WritePart(w) ==
  /\ pc[w] = "writing"
  /\ \E rest \in {None, Torn, draft[w]} :
       log' = [lines |-> Readable(base[w]), rest |-> rest]
  /\ log' # log
  /\ pc' = [pc EXCEPT ![w] = "torn"]
  /\ UNCHANGED <<disk, lock, clock, sessions, owner, call, draft, base, answer,
                 receipts, upsets>>

Write(w) ==
  /\ pc[w] \in {"writing", "torn"}
  /\ log' = [lines |-> Append(Readable(base[w]), draft[w]), rest |-> None]
  /\ pc'  = [pc EXCEPT ![w] = "syncing"]
  /\ UNCHANGED <<disk, lock, clock, sessions, owner, call, draft, base, answer,
                 receipts, upsets>>

Sync(w) ==
  /\ pc[w] = "syncing"
  /\ disk' = log
  /\ lock' = None
  /\ Return(w, "receipt", draft[w])
  /\ receipt' = Hash(draft[w])
  /\ synced'  = Hash(draft[w])
  /\ UNCHANGED <<log, clock, sessions, upsets>>

\* ftruncate, write or fsync fails: an append takes back what it wrote, if it
\* can; a repeated call that was to finish a record does not.
Fail(w) ==
  /\ pc[w] \in {"finishing", "cutting", "writing", "torn", "syncing"}
  /\ \/ base[w] # None /\ log' = base[w]
     \/ UNCHANGED log
  /\ lock' = None
  /\ Return(w, "refused", None)
  /\ UNCHANGED <<disk, clock, sessions, receipts, upsets>>

\* Process w is killed; its session, if it still waits, does not know the outcome.
Kill(w) ==
  /\ pc[w] # "idle"
  /\ pc'     = [pc EXCEPT ![w] = "idle"]
  /\ lock'   = IF lock = w THEN None ELSE lock
  /\ mode'   = [s \in Session |-> IF owner[w] = s THEN "down" ELSE mode[s]]
  /\ owner'  = [owner EXCEPT ![w] = None]
  /\ call'   = [call EXCEPT ![w] = None]
  /\ draft'  = [draft EXCEPT ![w] = None]
  /\ base'   = [base EXCEPT ![w] = None]
  /\ answer' = [answer EXCEPT ![w] = "none"]
  /\ UNCHANGED <<log, disk, clock, head, pending, saved, receipts, upsets>>

-----------------------------------------------------------------------------
(* The machine.                                                            *)

Drafted == {draft[w] : w \in {v \in Writer : draft[v] # None}}

\* The records that have a timestamp: in a copy of the file, or drafted.
Dated ==
  ToSet(Parsed(log)) \cup ToSet(Parsed(disk)) \cup Drafted
  \cup UNION {ToSet(Parsed(base[w])) : w \in {v \in Writer : base[v] # None}}

\* A timestamp that is given already is ahead of time t by more than Skew.
Behind(t) == \E r \in Dated : r.ts > t + Skew

\* The clock is set.
SetClock ==
  /\ \E t \in 0 .. MaxClock :
       /\ t # clock
       /\ clock' = t
       /\ upsets' = IF Behind(t) THEN upsets \cup {"clock"} ELSE upsets
  /\ UNCHANGED <<files, sessions, writers, receipts>>

\* What was not synced since the last fsync is there, gone or torn.
PowerLoss ==
  /\ "power" \notin upsets
  /\ log' \in {log, disk, [disk EXCEPT !.rest = IF log = disk THEN @ ELSE Torn]}
  /\ disk' = log'
  /\ lock' = None
  /\ mode' = [s \in Session |-> IF mode[s] \in {"absent", "stopped"} THEN mode[s]
                                                                 ELSE "down"]
  /\ pc'     = [w \in Writer |-> "idle"]
  /\ owner'  = [w \in Writer |-> None]
  /\ call'   = [w \in Writer |-> None]
  /\ draft'  = [w \in Writer |-> None]
  /\ base'   = [w \in Writer |-> None]
  /\ answer' = [w \in Writer |-> "none"]
  /\ upsets' = upsets \cup {"power"}
  /\ UNCHANGED <<clock, head, pending, saved, receipts>>

-----------------------------------------------------------------------------
SessionStep(s) ==
  \/ Begin(s) \/ Rejoin(s) \/ Resume(s) \/ StopAtVerify(s)
  \/ ResumeUnanchored(s) \/ LogEvent(s) \/ Die(s)
  \/ \E t \in Session : Adopt(s, t)
  \/ \E w \in Writer : Send(s, w) \/ Receive(s, w)

WriterStep(w) ==
  \/ GiveUp(w) \/ Refuse(w) \/ Repeat(w) \/ RepeatUnterminated(w) \/ Finish(w)
  \/ Prepare(w) \/ Cut(w) \/ WritePart(w) \/ Write(w) \/ Sync(w) \/ Fail(w) \/ Kill(w)

Next ==
  \/ \E s \in Session : SessionStep(s)
  \/ \E w \in Writer : WriterStep(w)
  \/ SetClock \/ PowerLoss

Spec == Init /\ [][Next]_vars

-----------------------------------------------------------------------------
(* Properties.                                                             *)

\* Whatever calls failed and whatever was killed between two steps, however long
\* the run goes on, verify calls the log broken for one reason only: the clock was
\* set back to more than a day (Forged) before a record.  Otherwise at worst its end
\* is torn, which the next append repairs; and once the clock is right again, the
\* same log verifies.
VerifyAccepts ==
  lock = None =>
    /\ Verdict(log, clock) = "broken" => "clock" \in upsets
    /\ \A t \in 0 .. MaxClock :
         Verdict(log, t) = "broken" => \E r \in ToSet(Parsed(log)) : r.ts > t + Forged

\* What the next append would chain from.
Chain == HashOfLast(Readable(log))

\* The log always extends what it was when the last receipt was returned: no
\* repair, no restore after a failed write and no other process takes an
\* acknowledged record away.  After a power loss this holds of the last receipt
\* that followed an fsync.
AckedStays ==
  /\ "power" \notin upsets => IsPrefix(receipt, Chain)
  /\ IsPrefix(synced, Chain)

\* A saved call is logged at most once, however often it is repeated and however
\* late the processes run that were started for it.
LoggedOnce ==
  \A i, j \in 1 .. Len(Parsed(log)) :
    Parsed(log)[i].id = Parsed(log)[j].id => i = j

\* A session that is alone, with a sane clock and without a power loss, is never
\* told that its log was tampered with, whatever deaths, lost receipts and late
\* processes of its own it has to recover from.
NeverAccused ==
  upsets = {} => \A s \in Session : mode[s] # "stopped"

\* What reference/run-log.md says of a call whose outcome is unknown: it is safe
\* to repeat exactly, also when the clock was set back meanwhile.
SafeToRepeat ==
  upsets \subseteq {"clock"} => \A s \in Session : mode[s] # "stopped"

\* What append_event says of a torn write: nothing acknowledged is lost.
AckedSurvivesPowerLoss == IsPrefix(receipt, Chain)
=============================================================================
