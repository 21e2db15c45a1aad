------------------------------ MODULE RunLogFile ------------------------------
(***************************************************************************)
(* The file of skills/loop-task-implementer/scripts/run_log.py and the two *)
(* ways the script reads it: _tail_state, which an append chains from, and *)
(* _full_check, which verify applies to every record.                      *)
(*                                                                         *)
(* A file is a sequence of lines and what follows the last newline.  A     *)
(* digest is injective and covers prev_hash, so the digest of a record is  *)
(* the sequence of the contents up to it.  An event stands for what the    *)
(* caller logs with it, its actor, data and usage; "task_selected" for     *)
(* every event that is not a start, a resumption or a completion.          *)
(***************************************************************************)
EXTENDS Naturals, Sequences

CONSTANTS
  Skew,    \* CLOCK_SKEW_SECONDS
  Forged,  \* FORGED_CLOCK_SECONDS
  None,    \* nothing: no head, no fragment, no call
  Torn     \* a final fragment that is no record

Event == {"run_started", "run_resumed", "task_selected", "run_completed"}

Content == [event : Event, unanchored : BOOLEAN, recovered : BOOLEAN, ts : Nat]

\* prev is prev_hash.  id is not in the file: it numbers the caller's calls.
Record == [event : Event, unanchored : BOOLEAN, recovered : BOOLEAN, ts : Nat,
           seq : Nat \ {0}, prev : Seq(Content), id : Nat \ {0}]

File == [lines : Seq(Record), rest : Record \cup {None, Torn}]

ASSUME FileAssumption ==
  /\ Skew \in Nat /\ Forged \in Nat /\ Skew <= Forged
  /\ Torn \notin Record /\ None \notin Record \cup File \cup Seq(Content) \cup {Torn}

ZeroHash == <<>>

\* _record_hash.
Hash(record) ==
  Append(record.prev,
         [event |-> record.event, unanchored |-> record.unanchored,
          recovered |-> record.recovered, ts |-> record.ts])

HashOfLast(records) ==
  IF records = <<>> THEN ZeroHash ELSE Hash(records[Len(records)])

\* _transition_error reports nothing.
Follows(seq, event, completed) ==
  /\ (seq = 1) <=> (event = "run_started")
  /\ completed => event = "run_resumed"

-----------------------------------------------------------------------------
\* The final fragment is the next record of the chain, only its newline is lost.
Unterminated(file) ==
  /\ file.rest \notin {None, Torn}
  /\ file.rest.seq = Len(file.lines) + 1
  /\ file.rest.prev = HashOfLast(file.lines)

\* Mutant: a record without its newline is cut like any other fragment.
ReadableTerminated(file) == file.lines

\* The records an append finds, such a fragment among them.
Readable(file) ==
  IF Unterminated(file) THEN Append(file.lines, file.rest) ELSE file.lines

\* _tail_state: what the next record has to follow, and how the end of the file
\* has to be repaired first.
TailState(file) ==
  LET records == Readable(file)
      empty   == records = <<>>
      last    == IF empty THEN None ELSE records[Len(records)]
  IN  [seq       |-> IF empty THEN 0 ELSE last.seq,
       head      |-> HashOfLast(records),
       ts        |-> IF empty THEN 0 ELSE last.ts,
       completed |-> ~empty /\ last.event = "run_completed",
       cut       |-> file.rest # None /\ records = file.lines,
       last      |-> last]

-----------------------------------------------------------------------------
\* The records verify can read: it keeps a final fragment that is a record.
Parsed(file) ==
  IF file.rest \in {None, Torn} THEN file.lines
                                ELSE Append(file.lines, file.rest)

CompletedBefore(records, i) ==
  \E j \in 1 .. i - 1 :
    /\ records[j].event = "run_completed"
    /\ \A k \in j + 1 .. i - 1 : records[k].event # "run_resumed"

\* _full_check finds no fault in the records.
Chained(records, now) ==
  \A i \in 1 .. Len(records) :
    LET r == records[i]
    IN  /\ r.seq = i
        /\ r.prev = HashOfLast(SubSeq(records, 1, i - 1))
        /\ i > 1 => records[i - 1].ts <= r.ts
        /\ r.ts <= now + Forged
        /\ Follows(i, r.event, CompletedBefore(records, i))

\* What verify prints: "ok", "recoverable" (only the end is torn), "no_log" or
\* "broken".
Verdict(file, now) ==
  CASE ~Chained(Parsed(file), now)           -> "broken"
    [] file.rest # None                      -> "recoverable"
    [] file.rest = None /\ file.lines = <<>> -> "no_log"
    [] OTHER                                 -> "ok"
=============================================================================
