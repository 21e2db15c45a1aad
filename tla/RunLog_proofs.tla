---------------------------- MODULE RunLog_proofs ----------------------------
(***************************************************************************)
(* Theorems about the run log for any number of sessions, append processes *)
(* and calls.  The inductive invariant has four layers.  Base: what an     *)
(* append has read and drafted at each step (Phase), and what the failed   *)
(* and killed ones before it may have left in the file (FilesOK).          *)
(* Numbered: which calls and records a number can stand for, from which    *)
(* LoggedOnce follows.  Alone: where the log of a session that nobody      *)
(* disturbs is, relative to the head and the call it saved.  InTime: how   *)
(* far the records may be ahead of a clock that was not set back.          *)
(***************************************************************************)
EXTENDS RunLog, SequenceTheorems, TLAPS
LOCAL INSTANCE SequencesExt

-----------------------------------------------------------------------------
(* Files.                                                                  *)

\* The records chain, are in order of time, and are no later than any clock; the
\* digest before the i-th is that of i - 1 records.
Good(rs) ==
  /\ Chained(rs, MaxClock)
  /\ \A i \in 1 .. Len(rs) : rs[i].ts <= MaxClock /\ Len(rs[i].prev) = i - 1

\* r is the next record of rs.
NextOf(r, rs) ==
  /\ r \in Record
  /\ r.seq = Len(rs) + 1 /\ r.prev = HashOfLast(rs) /\ r.ts <= MaxClock
  /\ rs # <<>> => rs[Len(rs)].ts <= r.ts
  /\ Follows(Len(rs) + 1, r.event, rs # <<>> /\ rs[Len(rs)].event = "run_completed")

\* A file that killed and failed appends may leave: a final record without its
\* newline is the next of the chain.
GoodFile(f) ==
  /\ f \in File
  /\ Good(f.lines)
  /\ f.rest \notin {None, Torn} => NextOf(f.rest, f.lines)

-----------------------------------------------------------------------------
(* The invariant.                                                          *)

Modes   == {"absent", "down", "up", "ready", "waiting", "repeating", "stopped"}
Holding == {"finishing", "cutting", "writing", "torn", "syncing"}

TypeOK ==
  /\ log \in File /\ disk \in File
  /\ lock \in Writer \cup {None}
  /\ clock \in 0 .. MaxClock
  /\ mode \in [Session -> Modes]
  /\ head \in [Session -> Seq(Content) \cup {None}]
  /\ pending \in [Session -> Call \cup {None}]
  /\ pc \in [Writer -> {"idle", "locking", "answering"} \cup Holding]
  /\ owner \in [Writer -> Session \cup {None}]
  /\ call \in [Writer -> Call \cup {None}]
  /\ draft \in [Writer -> Record \cup {None}]
  /\ base \in [Writer -> File \cup {None}]
  /\ answer \in [Writer -> {"none", "receipt", "refused", "integrity"}]
  /\ saved \in Nat
  /\ receipt \in Seq(Content) /\ synced \in Seq(Content)
  /\ upsets \subseteq {"second session", "clock", "power"}
  /\ \A s \in Session : mode[s] = "ready" => pending[s] # None

\* What a process has at each step: whoever writes has read the log (base) under
\* the lock, and drafted the record that is next in it.
Phase(w) ==
  /\ pc[w] \in Holding <=> lock = w
  /\ pc[w] \in {"idle", "answering"} <=> call[w] = None
  /\ pc[w] \notin Holding => base[w] = None
  /\ pc[w] \in {"idle", "locking"} => draft[w] = None
  /\ pc[w] = "idle" => owner[w] = None
  /\ pc[w] = "answering" => answer[w] # "none"
  /\ pc[w] = "answering" /\ answer[w] = "receipt" => draft[w] # None
  /\ pc[w] \in Holding => draft[w] # None /\ (call[w].head # None => draft[w].prev = call[w].head)
  /\ pc[w] = "finishing" => base[w] = None /\ log.rest = draft[w]
  /\ pc[w] \in {"cutting", "writing"} => base[w] = log
  /\ pc[w] = "cutting" => log.rest = Torn
  /\ pc[w] \in {"writing", "torn"} => base[w] # None /\ base[w].rest # Torn
  /\ pc[w] = "torn" => log.lines = Readable(base[w]) /\ log.rest \in {None, Torn, draft[w]}
  /\ pc[w] = "syncing" => log.rest = None /\ log.lines # <<>> /\ draft[w] = log.lines[Len(log.lines)]
  /\ pc[w] = "syncing" /\ base[w] # None => log.lines = Append(Readable(base[w]), draft[w])
  /\ base[w] # None => GoodFile(base[w]) /\ NextOf(draft[w], Readable(base[w])) /\ draft[w].id = call[w].id
                       /\ draft[w].event = call[w].event /\ draft[w].unanchored = call[w].unanchored

\* The chain of file f has what was acknowledged.
Acked(f) ==
  /\ "power" \notin upsets => IsPrefix(receipt, HashOfLast(Readable(f)))
  /\ IsPrefix(synced, HashOfLast(Readable(f)))

FilesOK ==
  /\ GoodFile(log) /\ GoodFile(disk)
  /\ Acked(log) /\ \A w \in Writer : base[w] # None => Acked(base[w])
  /\ "power" \notin upsets => IsPrefix(synced, HashOfLast(disk.lines))

\* Everything that was made of calls, and the calls there are.
RecordsOf(f) == {f.lines[i] : i \in 1 .. Len(f.lines)} \cup ({f.rest} \ {None, Torn})
MadeOf(l, d, bases, drafts) ==
  RecordsOf(l) \cup RecordsOf(d) \cup (UNION {RecordsOf(bases[w]) : w \in {v \in Writer : bases[v] # None}})
  \cup {drafts[w] : w \in {v \in Writer : drafts[v] # None}}
Made  == MadeOf(log, disk, base, draft)
Calls == ({pending[s] : s \in Session} \cup {call[w] : w \in Writer}) \ {None}

\* A call that can still be sent, or was sent, without a head.
Headless(c) == c # None /\ c.head = None

\* The number of a call is one call's, and a record with that number continues
\* the head the call was sent with.  A call without a head is sent once: until its
\* process drafts, no record has its number and nobody else has the call.
Numbered ==
  /\ \A r, t \in Made : r.id = t.id => r.prev = t.prev
  /\ \A r \in Made : r.id > MaxCalls \/ r.id <= saved
  /\ \A c \in Calls : c.id <= saved
  /\ \A c, d \in Calls : c.id = d.id => c = d
  /\ \A r \in Made, c \in Calls : r.id = c.id /\ c.head # None => r.prev = c.head
  /\ \A w \in Writer : pc[w] = "locking" /\ call[w].head = None =>
       /\ \A r \in Made : r.id # call[w].id
       /\ \A v \in Writer \ {w} : call[v] # call[w]
  /\ \A s \in Session : mode[s] = "ready" /\ pending[s].head = None =>
       /\ \A r \in Made : r.id # pending[s].id
       /\ \A w \in Writer : call[w] # pending[s]
       /\ \A t \in Session \ {s} : mode[t] = "ready" => pending[t] # pending[s]

-----------------------------------------------------------------------------
(* One session whose log nothing upset.                                    *)

\* What is left of the log from a session that holds head h and saved call c.
Placed(rs, h, c) ==
  /\ c = None /\ h = None => rs = <<>>
  /\ (c = None \/ Headless(c)) /\ h # None => HashOfLast(rs) = h
  /\ Headless(c) /\ h = None => Len(rs) <= 1
  /\ c # None /\ ~Headless(c) =>
       \/ HashOfLast(rs) = h
       \/ /\ rs # <<>>
          /\ rs[Len(rs)].prev = h /\ rs[Len(rs)].event = c.event /\ rs[Len(rs)].unanchored = c.unanchored

\* Such a session anchors every call; only its first has no head.
Plain(c) == ~c.unanchored /\ (c.head = None => c.event = "run_started")

\* What the session knows of its own log.
Owns(s) ==
  /\ mode[s] # "stopped"
  /\ head[s] # <<>>
  /\ pending[s] # None => Plain(pending[s]) /\ pending[s].head \in {None, head[s]}
  /\ mode[s] \in {"ready", "waiting", "repeating"} => pending[s] # None
  /\ mode[s] = "repeating" => pending[s].head # None
  /\ mode[s] = "up" => head[s] # None /\ (pending[s] = None \/ Headless(pending[s]))
  /\ Placed(Readable(log), head[s], pending[s])

\* What process w has to do with session s.
Serves(s, w) ==
  /\ owner[w] \in {None, s}
  /\ owner[w] = s => /\ mode[s] \in {"waiting", "repeating"}
                     /\ call[w] # None => call[w] = pending[s]
                     /\ \A v \in Writer \ {w} : owner[v] # s
  /\ call[w] # None => /\ Plain(call[w]) /\ (head[s] = None => pending[s] # None)
                       /\ call[w].head # None => /\ head[s] # None
                                                 /\ call[w] = pending[s] \/ Len(call[w].head) < Len(head[s])
  /\ base[w] # None =>
       /\ Placed(Readable(base[w]), head[s], pending[s])
       /\ call[w].head = None => Readable(base[w]) = <<>> /\ head[s] = None /\ Headless(pending[s])
       /\ call[w].head # None => call[w] = pending[s]
  /\ pc[w] = "answering" /\ owner[w] = s =>
       /\ answer[w] # "integrity"
       /\ answer[w] = "receipt" => /\ HashOfLast(Readable(log)) = Hash(draft[w])
                                   /\ \A v \in Writer : base[v] = None
                                   /\ pending[s].head # None => draft[w].prev = pending[s].head

\* No record is ahead of the clock.
Sane == /\ \A i \in 1 .. Len(Readable(log)) : Readable(log)[i].ts <= clock + Skew
        /\ \A w \in Writer : draft[w] # None => draft[w].ts <= clock + Skew

\* No record is ahead of the clock by more than the skew, unless it was set back.
InTime == "clock" \notin upsets => \A r \in Made : r.ts <= clock + Skew

Alone ==
  /\ Sane
  /\ \A s, t \in Session : mode[s] # "absent" /\ mode[t] # "absent" => s = t
  /\ \A s \in Session : mode[s] # "absent" => Owns(s) /\ \A w \in Writer : Serves(s, w)
  /\ \A s \in Session : mode[s] = "absent" => \A w \in Writer : owner[w] # s

IInv ==
  /\ TypeOK /\ FilesOK
  /\ \A w \in Writer : Phase(w)
  /\ Numbered
  /\ upsets = {} => Alone
  /\ InTime
-----------------------------------------------------------------------------
(* Sequences of records.                                                   *)

LEMMA HashIs ==
  ASSUME NEW r \in Record
  PROVE  Hash(r) \in Seq(Content) /\ Len(Hash(r)) = Len(r.prev) + 1 /\ r.prev \in Seq(Content)
         /\ Hash(r) # <<>> /\ \A i \in 1 .. Len(r.prev) : Hash(r)[i] = r.prev[i]
<1>1. r.prev \in Seq(Content)
  BY DEF Record
<1>2. [event |-> r.event, unanchored |-> r.unanchored, recovered |-> r.recovered, ts |-> r.ts] \in Content
  BY DEF Record, Content
<1>3. QED
  BY <1>1, <1>2, AppendProperties DEF Hash

LEMMA LastIs ==
  ASSUME NEW rs \in Seq(Record)
  PROVE  /\ HashOfLast(rs) \in Seq(Content)
         /\ rs # <<>> => Len(rs) \in 1 .. Len(rs) /\ rs[Len(rs)] \in Record /\ HashOfLast(rs) = Hash(rs[Len(rs)])
         /\ rs = <<>> => HashOfLast(rs) = <<>> /\ Len(rs) = 0
         /\ HashOfLast(rs) # <<>> <=> rs # <<>>
  BY HashIs, EmptySeq, LenProperties DEF HashOfLast, ZeroHash

LEMMA AppendIs ==
  ASSUME NEW rs \in Seq(Record), NEW r \in Record
  PROVE  /\ Append(rs, r) \in Seq(Record) /\ Append(rs, r) # <<>> /\ Len(Append(rs, r)) = Len(rs) + 1
         /\ Len(rs) \in Nat
         /\ Append(rs, r)[Len(rs) + 1] = r
         /\ \A i \in 1 .. Len(rs) : Append(rs, r)[i] = rs[i]
         /\ HashOfLast(Append(rs, r)) = Hash(r)
  BY AppendProperties, LenProperties DEF HashOfLast

LEMMA PrefixIs ==
  ASSUME NEW s \in Seq(Content), NEW t \in Seq(Content)
  PROVE  IsPrefix(s, t) <=> Len(s) <= Len(t) /\ \A i \in 1 .. Len(s) : s[i] = t[i]
<1>1. Len(s) \in Nat /\ Len(t) \in Nat
  BY LenProperties
<1>2. CASE Len(s) <= Len(t)
  <2>1. /\ SubSeq(s, 1, Len(s)) = s
        /\ SubSeq(t, 1, Len(s)) \in Seq(Content)
        /\ Len(SubSeq(t, 1, Len(s))) = Len(s)
        /\ \A i \in 1 .. Len(s) : SubSeq(t, 1, Len(s))[i] = t[i]
    BY <1>1, <1>2, SubSeqFull, SubSeqProperties, LenProperties
  <2>2. (\A i \in 1 .. Len(s) : s[i] = t[i]) => s = SubSeq(t, 1, Len(s))
    BY <2>1, SeqEqual
  <2>3. QED
    BY <1>2, <2>1, <2>2 DEF IsPrefix
<1>3. CASE ~(Len(s) <= Len(t))
  BY <1>3 DEF IsPrefix
<1>4. QED
  BY <1>2, <1>3

LEMMA PrefixSelf ==
  ASSUME NEW s \in Seq(Content) PROVE IsPrefix(s, s)
  BY PrefixIs, LenProperties

\* What a chain extends, the chain with one more record extends.
LEMMA PrefixGrows ==
  ASSUME NEW s \in Seq(Content), NEW r \in Record, IsPrefix(s, r.prev)
  PROVE  IsPrefix(s, Hash(r))
<1>1. Len(s) \in Nat /\ Len(r.prev) \in Nat /\ r.prev \in Seq(Content) /\ Hash(r) \in Seq(Content)
  BY HashIs, LenProperties
<1>2. Len(s) <= Len(r.prev) /\ \A i \in 1 .. Len(s) : s[i] = r.prev[i]
  BY <1>1, PrefixIs
<1>3. Len(s) <= Len(Hash(r)) /\ \A i \in 1 .. Len(s) : s[i] = Hash(r)[i]
  BY <1>1, <1>2, HashIs
<1>4. QED
  BY <1>1, <1>3, PrefixIs

\* Records before the i-th.
LEMMA BeforeIs ==
  ASSUME NEW rs \in Seq(Record), NEW r \in Record, NEW i \in 1 .. Len(rs) + 1
  PROVE  SubSeq(Append(rs, r), 1, i - 1) = SubSeq(rs, 1, i - 1)
<1>1. Len(rs) \in Nat /\ i - 1 \in 0 .. Len(rs)
  BY LenProperties
<1>2. \A j \in 1 .. i - 1 : rs[j] \in Record /\ Append(rs, r)[j] = rs[j]
  BY <1>1, AppendIs, ElementOfSeq
<1>3. /\ SubSeq(rs, 1, i - 1) \in Seq(Record) /\ SubSeq(Append(rs, r), 1, i - 1) \in Seq(Record)
      /\ Len(SubSeq(rs, 1, i - 1)) = i - 1 /\ Len(SubSeq(Append(rs, r), 1, i - 1)) = i - 1
      /\ \A j \in 1 .. i - 1 : SubSeq(rs, 1, i - 1)[j] = rs[j] /\ SubSeq(Append(rs, r), 1, i - 1)[j] = Append(rs, r)[j]
  BY <1>1, <1>2, SubSeqProperties
<1>4. QED
  BY <1>2, <1>3, SeqEqual
LEMMA PrefixOfRecords ==
  ASSUME NEW rs \in Seq(Record), NEW i \in 1 .. Len(rs)
  PROVE  /\ SubSeq(rs, 1, i - 1) \in Seq(Record) /\ Len(SubSeq(rs, 1, i - 1)) = i - 1
         /\ \A j \in 1 .. i - 1 : SubSeq(rs, 1, i - 1)[j] = rs[j]
         /\ i = 1 => HashOfLast(SubSeq(rs, 1, i - 1)) = <<>>
         /\ i > 1 => HashOfLast(SubSeq(rs, 1, i - 1)) = Hash(rs[i - 1])
<1>1. Len(rs) \in Nat /\ i - 1 \in 0 .. Len(rs)
  BY LenProperties
<1>2. \A j \in 1 .. i - 1 : rs[j] \in Record
  BY <1>1, ElementOfSeq
<1>3. /\ SubSeq(rs, 1, i - 1) \in Seq(Record) /\ Len(SubSeq(rs, 1, i - 1)) = i - 1
      /\ \A j \in 1 .. i - 1 : SubSeq(rs, 1, i - 1)[j] = rs[j]
  BY <1>1, <1>2, SubSeqProperties
<1> DEFINE s == SubSeq(rs, 1, i - 1)
<1>4. CASE i = 1
  <2>1. s = <<>>
    BY <1>3, <1>4, EmptySeq
  <2>2. HashOfLast(s) = <<>>
    BY <2>1 DEF HashOfLast, ZeroHash
  <2>3. QED
    BY <1>3, <1>4, <2>2
<1>5. CASE i > 1
  <2>1. s # <<>> /\ s[i - 1] = rs[i - 1] /\ Len(s) = i - 1
    BY <1>1, <1>3, <1>5, EmptySeq
  <2>2. HashOfLast(s) = Hash(rs[i - 1])
    BY <1>3, <2>1, LastIs
  <2>3. QED
    BY <1>3, <1>5, <2>2
<1>6. QED
  BY <1>1, <1>4, <1>5

\* A completed run is one whose last record says so: only a resumption follows.
LEMMA CompletedIs ==
  ASSUME NEW rs \in Seq(Record), NEW r \in Record, Chained(rs, MaxClock)
  PROVE  CompletedBefore(Append(rs, r), Len(rs) + 1) <=> rs # <<>> /\ rs[Len(rs)].event = "run_completed"
<1> DEFINE n == Len(rs)
           all == Append(rs, r)
<1>1. n \in Nat /\ (rs # <<>> <=> n > 0) /\ \A j \in 1 .. n : all[j] = rs[j]
  BY AppendIs, LastIs, EmptySeq
<1>2. CompletedBefore(all, n + 1) <=>
        \E j \in 1 .. n : rs[j].event = "run_completed" /\ \A k \in j + 1 .. n : rs[k].event # "run_resumed"
  BY <1>1 DEF CompletedBefore
<1>3. ASSUME NEW j \in 1 .. n, rs[j].event = "run_completed", \A k \in j + 1 .. n : rs[k].event # "run_resumed"
      PROVE  j = n
  <2> SUFFICES ASSUME j < n PROVE FALSE
    BY <1>1
  <2>1. j + 1 \in 1 .. n
    BY <1>1
  <2>2. CompletedBefore(rs, j + 1)
    BY <1>1, <1>3 DEF CompletedBefore
  <2>3. Follows(j + 1, rs[j + 1].event, CompletedBefore(rs, j + 1))
    BY <2>1 DEF Chained
  <2>4. QED
    BY <1>1, <1>3, <2>1, <2>2, <2>3 DEF Follows
<1>4. n > 0 /\ rs[n].event = "run_completed" => CompletedBefore(all, n + 1)
  BY <1>1, <1>2
<1>5. QED
  BY <1>1, <1>2, <1>3, <1>4

LEMMA GoodLength ==
  ASSUME NEW rs \in Seq(Record), Good(rs)
  PROVE  Len(HashOfLast(rs)) = Len(rs)
<1>1. CASE rs = <<>>
  BY <1>1, LastIs, EmptySeq
<1>2. CASE rs # <<>>
  <2>1. Len(rs) \in 1 .. Len(rs) /\ rs[Len(rs)] \in Record /\ HashOfLast(rs) = Hash(rs[Len(rs)]) /\ Len(rs) \in Nat
    BY <1>2, LastIs, LenProperties
  <2>2. Len(rs[Len(rs)].prev) = Len(rs) - 1
    BY <2>1 DEF Good
  <2>3. QED
    BY <2>1, <2>2, HashIs
<1>3. QED
  BY <1>1, <1>2

LEMMA GoodAppend ==
  ASSUME NEW rs \in Seq(Record), NEW r, NextOf(r, rs), Good(rs)
  PROVE  Good(Append(rs, r)) /\ Append(rs, r) \in Seq(Record)
<1> DEFINE n == Len(rs)
           all == Append(rs, r)
<1>1. /\ r \in Record /\ n \in Nat /\ all \in Seq(Record) /\ Len(all) = n + 1 /\ all[n + 1] = r
      /\ \A i \in 1 .. n : all[i] = rs[i]
  BY AppendIs DEF NextOf
<1>2. ASSUME NEW i \in 1 .. n + 1
      PROVE  /\ all[i].seq = i
             /\ all[i].prev = HashOfLast(SubSeq(all, 1, i - 1))
             /\ i > 1 => all[i - 1].ts <= all[i].ts
             /\ all[i].ts <= MaxClock + Forged
             /\ Follows(i, all[i].event, CompletedBefore(all, i))
             /\ all[i].ts <= MaxClock /\ Len(all[i].prev) = i - 1
  <2>1. CASE i \in 1 .. n
    <3>1. /\ rs[i].seq = i
          /\ rs[i].prev = HashOfLast(SubSeq(rs, 1, i - 1))
          /\ i > 1 => rs[i - 1].ts <= rs[i].ts
          /\ rs[i].ts <= MaxClock + Forged
          /\ Follows(i, rs[i].event, CompletedBefore(rs, i))
          /\ rs[i].ts <= MaxClock /\ Len(rs[i].prev) = i - 1
      BY <2>1 DEF Good, Chained
    <3>2. CompletedBefore(all, i) <=> CompletedBefore(rs, i)
      BY <1>1, <2>1 DEF CompletedBefore
    <3>3. SubSeq(all, 1, i - 1) = SubSeq(rs, 1, i - 1)
      BY <1>1, BeforeIs
    <3>4. i > 1 => all[i - 1] = rs[i - 1]
      BY <1>1, <2>1
    <3>5. Follows(i, all[i].event, CompletedBefore(all, i))
      BY <1>1, <2>1, <3>1, <3>2 DEF Follows
    <3>6. all[i] = rs[i]
      BY <1>1, <2>1
    <3>7. QED
      BY <3>1, <3>3, <3>4, <3>5, <3>6
  <2>2. CASE i = n + 1
    <3>1. SubSeq(all, 1, n) = rs
      <4>1. SubSeq(all, 1, (n + 1) - 1) = SubSeq(rs, 1, (n + 1) - 1)
        BY <1>1, BeforeIs
      <4>2. QED
        BY <1>1, <4>1, SubSeqFull
    <3>2. CompletedBefore(all, n + 1) <=> rs # <<>> /\ rs[n].event = "run_completed"
      BY <1>1, CompletedIs DEF Good
    <3>3. Follows(n + 1, r.event, CompletedBefore(all, n + 1))
      BY <3>2 DEF NextOf, Follows
    <3>4. r.seq = n + 1 /\ r.prev = HashOfLast(rs) /\ r.ts <= MaxClock /\ (n > 0 => rs[n].ts <= r.ts)
      BY <1>1, EmptySeq DEF NextOf
    <3>5. Len(HashOfLast(rs)) = n
      BY GoodLength
    <3>6. r.ts <= MaxClock + Forged
      <4>1. r.ts \in Nat /\ MaxClock \in Nat /\ Forged \in Nat
        BY <1>1, LogAssumption, FileAssumption DEF Record
      <4>2. QED
        BY <3>4, <4>1
    <3>7. all[i] = r /\ i - 1 = n /\ (i > 1 => n > 0 /\ all[i - 1] = rs[n])
      BY <1>1, <2>2
    <3>8. QED
      BY <2>2, <3>1, <3>3, <3>4, <3>5, <3>6, <3>7
  <2>3. QED
    BY <1>1, <2>1, <2>2
<1>3. QED
  BY <1>1, <1>2 DEF Good, Chained

\* Only a clock that is far behind finds fault with good records.
LEMMA GoodInTime ==
  ASSUME NEW rs \in Seq(Record), Good(rs), NEW now, \A i \in 1 .. Len(rs) : rs[i].ts <= now + Forged
  PROVE  Chained(rs, now)
  BY DEF Good, Chained

LEMMA GoodEmpty == Good(<<>>) /\ <<>> \in Seq(Record)
  BY EmptySeq DEF Good, Chained

-----------------------------------------------------------------------------
(* Files.                                                                  *)

LEMMA FileIs ==
  ASSUME NEW f, GoodFile(f)
  PROVE  /\ f \in File /\ f.lines \in Seq(Record) /\ f.rest \in Record \cup {None, Torn}
         /\ Readable(f) \in Seq(Record) /\ Good(Readable(f)) /\ Parsed(f) = Readable(f)
         /\ Unterminated(f) <=> f.rest \notin {None, Torn}
         /\ f.rest \in {None, Torn} => Readable(f) = f.lines
         /\ f.rest \notin {None, Torn} => Readable(f) = Append(f.lines, f.rest) /\ Readable(f) # f.lines
<1>1. f \in File /\ f.lines \in Seq(Record) /\ f.rest \in Record \cup {None, Torn} /\ Good(f.lines)
  BY DEF GoodFile, File
<1>2. Unterminated(f) <=> f.rest \notin {None, Torn}
  BY <1>1 DEF GoodFile, NextOf, Unterminated
<1>3. CASE f.rest \in {None, Torn}
  BY <1>1, <1>2, <1>3 DEF Readable, Parsed
<1>4. CASE f.rest \notin {None, Torn}
  <2>1. NextOf(f.rest, f.lines) /\ f.rest \in Record
    BY <1>1, <1>4 DEF GoodFile
  <2>2. Good(Append(f.lines, f.rest)) /\ Append(f.lines, f.rest) \in Seq(Record)
    BY <1>1, <2>1, GoodAppend
  <2>3. Append(f.lines, f.rest) # f.lines
    BY <1>1, <2>1, AppendIs
  <2>4. QED
    BY <1>1, <1>2, <1>4, <2>2, <2>3 DEF Readable, Parsed
<1>5. QED
  BY <1>3, <1>4

LEMMA PlainFile ==
  ASSUME NEW rs \in Seq(Record), Good(rs), NEW rest \in {None, Torn}
  PROVE  GoodFile([lines |-> rs, rest |-> rest]) /\ Readable([lines |-> rs, rest |-> rest]) = rs
<1>1. GoodFile([lines |-> rs, rest |-> rest])
  BY DEF GoodFile, File
<1>2. QED
  BY <1>1, FileIs

LEMMA LongerFile ==
  ASSUME NEW rs \in Seq(Record), Good(rs), NEW r, NextOf(r, rs)
  PROVE  /\ GoodFile([lines |-> rs, rest |-> r]) /\ Readable([lines |-> rs, rest |-> r]) = Append(rs, r)
         /\ GoodFile([lines |-> Append(rs, r), rest |-> None])
         /\ Readable([lines |-> Append(rs, r), rest |-> None]) = Append(rs, r)
         /\ HashOfLast(Append(rs, r)) = Hash(r) /\ r.prev = HashOfLast(rs)
<1>1. r \in Record /\ r \notin {None, Torn} /\ r.prev = HashOfLast(rs)
  BY FileAssumption DEF NextOf
<1>2. GoodFile([lines |-> rs, rest |-> r])
  BY <1>1 DEF GoodFile, File
<1>3. Readable([lines |-> rs, rest |-> r]) = Append(rs, r)
  BY <1>1, <1>2, FileIs
<1>4. Good(Append(rs, r)) /\ Append(rs, r) \in Seq(Record)
  BY GoodAppend
<1>5. QED
  BY <1>1, <1>2, <1>3, <1>4, PlainFile, AppendIs

\* What an append reads.
LEMMA TailIs ==
  ASSUME NEW f, GoodFile(f)
  PROVE  LET rs == Readable(f)
             n  == Len(rs)
             t  == TailState(f)
         IN  /\ n \in Nat
             /\ t.seq = n /\ t.head = HashOfLast(rs) /\ t.ts \in Nat /\ t.ts <= MaxClock
             /\ t.completed <=> rs # <<>> /\ rs[n].event = "run_completed"
             /\ t.cut <=> f.rest = Torn
             /\ rs # <<>> => t.last = rs[n] /\ t.ts = rs[n].ts /\ t.head = Hash(t.last) /\ t.last \in Record
<1> DEFINE rs == Readable(f)
           n  == Len(rs)
           t  == TailState(f)
<1>1. rs \in Seq(Record) /\ Good(rs) /\ n \in Nat /\ (rs = <<>> <=> n = 0)
  BY FileIs, LastIs, LenProperties, EmptySeq
<1>2. rs # <<>> => n \in 1 .. n /\ rs[n] \in Record /\ rs[n].ts \in Nat /\ rs[n].ts <= MaxClock /\ rs[n].seq = n
                   /\ HashOfLast(rs) = Hash(rs[n])
  BY <1>1, LastIs DEF Good, Chained, Record
<1>3. t.cut <=> f.rest = Torn
  BY FileIs, FileAssumption DEF TailState
<1>4. /\ t.seq = (IF rs = <<>> THEN 0 ELSE rs[n].seq) /\ t.head = HashOfLast(rs)
      /\ t.ts = (IF rs = <<>> THEN 0 ELSE rs[n].ts)
      /\ t.completed <=> (rs # <<>> /\ rs[n].event = "run_completed")
      /\ rs # <<>> => t.last = rs[n]
  BY DEF TailState
<1>5. MaxClock \in Nat
  BY LogAssumption, FileAssumption
<1>6. t.ts \in Nat /\ t.ts <= MaxClock /\ t.seq = n
  BY <1>1, <1>2, <1>4, <1>5
<1>7. rs # <<>> => t.last = rs[n] /\ t.ts = rs[n].ts /\ t.head = Hash(t.last) /\ t.last \in Record
  BY <1>2, <1>4
<1>8. QED
  BY <1>1, <1>3, <1>4, <1>6, <1>7
-----------------------------------------------------------------------------
(* The base: types, files, and what each process has.                      *)

Base == TypeOK /\ FilesOK /\ \A w \in Writer : Phase(w)

LEMMA NoneIs == /\ None \notin Session /\ None \notin Writer /\ None \notin Call /\ None \notin Record /\ None \notin File
                /\ None \notin Seq(Content) /\ None # Torn /\ Torn \notin Record
  BY FileAssumption, LogAssumption

LEMMA LogIs ==
  ASSUME Base
  PROVE  GoodFile(log) /\ GoodFile(disk) /\ Readable(log) \in Seq(Record) /\ Good(Readable(log)) /\ Parsed(log) = Readable(log)
  BY FileIs DEF Base, FilesOK

\* A step of process w alone.
By(w) ==
  \A v \in Writer \ {w} :
    /\ pc'[v] = pc[v] /\ owner'[v] = owner[v] /\ call'[v] = call[v] /\ draft'[v] = draft[v] /\ base'[v] = base[v]
    /\ answer'[v] = answer[v]

LEMMA BaseStep ==
  ASSUME Base, NEW w \in Writer, By(w), TypeOK', FilesOK', Phase(w)',
         log' = log \/ lock = w,
         lock' = lock \/ (lock = None /\ lock' = w) \/ (lock = w /\ lock' = None)
  PROVE  Base'
<1>1. ASSUME NEW v \in Writer \ {w} PROVE Phase(v)'
  <2>1. /\ pc'[v] = pc[v] /\ owner'[v] = owner[v] /\ call'[v] = call[v] /\ draft'[v] = draft[v] /\ base'[v] = base[v]
        /\ answer'[v] = answer[v]
    BY DEF By
  <2>2. Phase(v)
    BY DEF Base
  <2>3. lock' = v <=> lock = v
    BY NoneIs
  <2>4. CASE pc[v] \in Holding
    <3>1. log' = log
      BY <2>2, <2>4 DEF Phase
    <3>2. QED
      BY <2>1, <2>2, <2>3, <3>1 DEF Phase
  <2>5. CASE pc[v] \notin Holding
    <3>1. pc[v] \notin {"finishing", "cutting", "writing", "torn", "syncing"}
      BY <2>5 DEF Holding
    <3>2. QED
      BY <2>1, <2>2, <2>3, <2>5, <3>1 DEF Phase
  <2>6. QED
    BY <2>4, <2>5
<1>2. QED
  BY <1>1 DEF Base

\* Files that no step touches.
LEMMA FilesStep ==
  ASSUME Base, UNCHANGED <<log, disk, receipt, synced, upsets>>,
         \A w \in Writer : base'[w] \in {base[w], None, log}
  PROVE  FilesOK'
<1>1. ASSUME NEW w \in Writer, base'[w] # None PROVE Acked(base[w])'
  <2>1. Acked(base'[w])
    BY <1>1 DEF Base, FilesOK
  <2>2. QED
    BY <2>1 DEF Acked
<1>2. QED
  BY <1>1 DEF Base, FilesOK, Acked

\* What a process that ends with an answer looks like.
LEMMA ReturnIs ==
  ASSUME TypeOK, NEW w \in Writer, NEW kind \in {"receipt", "refused", "integrity"}, NEW r \in Record \cup {None},
         Return(w, kind, r)
  PROVE  /\ By(w)
         /\ pc'[w] = (IF owner[w] # None THEN "answering" ELSE "idle")
         /\ answer'[w] = (IF owner[w] # None THEN kind ELSE "none")
         /\ draft'[w] = (IF owner[w] # None THEN r ELSE None)
         /\ call'[w] = None /\ base'[w] = None /\ owner' = owner
         /\ pc' \in [Writer -> {"idle", "locking", "answering"} \cup Holding]
         /\ call' \in [Writer -> Call \cup {None}] /\ draft' \in [Writer -> Record \cup {None}]
         /\ base' \in [Writer -> File \cup {None}]
         /\ answer' \in [Writer -> {"none", "receipt", "refused", "integrity"}]
  BY DEF Return, TypeOK, By

LEMMA ReturnPhase ==
  ASSUME Base, NEW w \in Writer, NEW kind \in {"receipt", "refused", "integrity"}, NEW r \in Record \cup {None},
         Return(w, kind, r), kind = "receipt" => r # None, lock' # w
  PROVE  Phase(w)'
<1>1. TypeOK
  BY DEF Base
<1>2. /\ pc'[w] \in {"answering", "idle"} /\ call'[w] = None /\ base'[w] = None
      /\ pc'[w] = "idle" => draft'[w] = None /\ owner'[w] = None
      /\ pc'[w] = "answering" => answer'[w] = kind /\ draft'[w] = r
  BY <1>1, ReturnIs
<1>3. QED
  BY <1>2 DEF Phase, Holding

LEMMA SaveType ==
  ASSUME TypeOK, NEW s \in Session, NEW event \in Event, NEW h \in Seq(Content) \cup {None}, Save(s, event, h)
  PROVE  TypeOK'
<1>1. saved + 1 \in 1 .. MaxCalls
  <2>1. saved \in Nat /\ saved < MaxCalls
    BY DEF Save, TypeOK
  <2>2. MaxCalls \in Nat
    BY LogAssumption
  <2>3. QED
    BY <2>1, <2>2
<1>2. [id |-> saved + 1, event |-> event, unanchored |-> event = "run_resumed" /\ h = None, head |-> h] \in Call
  BY <1>1 DEF Call
<1>3. saved' \in Nat
  <2>1. saved' = saved + 1
    BY DEF Save
  <2>2. QED
    BY <1>1, <2>1
<1>4. mode' \in [Session -> Modes] /\ pending' \in [Session -> Call \cup {None}]
  BY <1>2 DEF Save, TypeOK, Modes
<1>5. \A t \in Session : mode'[t] = "ready" => pending'[t] # None
  BY <1>2, NoneIs DEF Save, TypeOK
<1>6. UNCHANGED <<files, clock, writers, receipts, head, upsets>>
  BY DEF Save
<1>7. QED
  BY <1>3, <1>4, <1>5, <1>6 DEF TypeOK, files, writers, receipts

LEMMA SessionBase ==
  ASSUME Base, TypeOK', UNCHANGED <<files, writers, receipts>>, upsets' = upsets \/ upsets' = upsets \cup {"second session"}
  PROVE  Base'
<1>1. "power" \in upsets' <=> "power" \in upsets
  OBVIOUS
<1>2. FilesOK'
  BY <1>1 DEF Base, FilesOK, Acked, files, writers, receipts
<1>3. \A w \in Writer : Phase(w)'
  BY DEF Base, Phase, files, writers
<1>4. QED
  BY <1>2, <1>3 DEF Base

LEMMA SaveBase ==
  ASSUME Base, NEW s \in Session, NEW event \in Event, NEW h \in Seq(Content) \cup {None}, Save(s, event, h)
  PROVE  Base'
  BY SaveType, SessionBase DEF Save, Base

LEMMA BeginBase == ASSUME Base, NEW s \in Session, Begin(s) PROVE Base'
  BY SaveBase DEF Begin, Event
LEMMA ResumeBase == ASSUME Base, NEW s \in Session, Resume(s) PROVE Base'
  BY SaveBase DEF Resume, Event, Base, TypeOK
LEMMA ResumeUnanchoredBase == ASSUME Base, NEW s \in Session, ResumeUnanchored(s) PROVE Base'
  BY SaveBase DEF ResumeUnanchored, Event
LEMMA LogEventBase == ASSUME Base, NEW s \in Session, LogEvent(s) PROVE Base'
  BY SaveBase DEF LogEvent, Event, Base, TypeOK
LEMMA RejoinBase == ASSUME Base, NEW s \in Session, Rejoin(s) PROVE Base'
<1>1. HashOfLast(Records) \in Seq(Content)
  BY LogIs, LastIs DEF Records
<1>2. TypeOK'
  BY <1>1 DEF Rejoin, Base, TypeOK, Modes, files, writers, receipts
<1>3. QED
  BY <1>2, SessionBase DEF Rejoin
LEMMA StopAtVerifyBase == ASSUME Base, NEW s \in Session, StopAtVerify(s) PROVE Base'
<1>1. TypeOK'
  BY DEF StopAtVerify, Base, TypeOK, Modes, files, writers, receipts
<1>2. QED
  BY <1>1, SessionBase DEF StopAtVerify
LEMMA AdoptBase == ASSUME Base, NEW s \in Session, NEW t \in Session, Adopt(s, t) PROVE Base'
<1>1. TypeOK'
  BY DEF Adopt, Base, TypeOK, Modes, files, writers, receipts
<1>2. QED
  BY <1>1, SessionBase DEF Adopt
LEMMA DieBase == ASSUME Base, NEW s \in Session, Die(s) PROVE Base'
<1>1. TypeOK'
  BY DEF Die, Base, TypeOK, Modes, files, receipts
<1>2. FilesOK'
  BY FilesStep DEF Die, files, receipts
<1>3. \A w \in Writer : Phase(w)'
  BY DEF Die, Base, Phase, files, TypeOK
<1>4. QED
  BY <1>1, <1>2, <1>3 DEF Base

LEMMA SendIs ==
  ASSUME Base, NEW s \in Session, NEW w \in Writer, Send(s, w)
  PROVE  /\ By(w) /\ pc[w] = "idle" /\ pc'[w] = "locking" /\ owner'[w] = s /\ call'[w] = pending[s]
         /\ draft'[w] = draft[w] /\ base'[w] = base[w]
         /\ UNCHANGED <<log, disk, lock, clock, head, pending, saved, draft, base, answer, receipt, synced, upsets>>
  BY DEF Send, Base, TypeOK, By, files, receipts

LEMMA SendBase == ASSUME Base, NEW s \in Session, NEW w \in Writer, Send(s, w) PROVE Base'
<1>1. pending[s] \in Call
  BY NoneIs DEF Send, Repeatable, Base, TypeOK
<1>2. By(w) /\ pc[w] = "idle" /\ pc'[w] = "locking" /\ lock # w
  BY SendIs DEF Base, Phase, Holding
<1>3. TypeOK'
  <2>1. pc' \in [Writer -> {"idle", "locking", "answering"} \cup Holding] /\ owner' \in [Writer -> Session \cup {None}]
        /\ call' \in [Writer -> Call \cup {None}] /\ mode' \in [Session -> Modes]
    BY <1>1 DEF Send, Base, TypeOK, Modes
  <2>2. \A t \in Session : mode'[t] = "ready" => mode[t] = "ready"
    BY DEF Send, Base, TypeOK
  <2>3. \A t \in Session : mode'[t] = "ready" => pending'[t] # None
    <3>1. pending' = pending
      BY SendIs
    <3>2. \A t \in Session : mode[t] = "ready" => pending[t] # None
      BY DEF Base, TypeOK
    <3>3. QED
      BY <2>2, <3>1, <3>2
  <2>4. UNCHANGED <<log, disk, lock, clock, head, pending, saved, draft, base, answer, receipt, synced, upsets>>
    BY SendIs
  <2>5. QED
    BY <2>1, <2>3, <2>4 DEF Base, TypeOK
<1>4. FilesOK'
  BY SendIs, FilesStep
<1>5. Phase(w)'
  BY <1>1, <1>2, SendIs, NoneIs DEF Base, Phase, Holding
<1>6. QED
  BY <1>2, <1>3, <1>4, <1>5, SendIs, BaseStep

LEMMA ReceiveBase == ASSUME Base, NEW s \in Session, NEW w \in Writer, Receive(s, w) PROVE Base'
<1>1. By(w) /\ pc[w] = "answering" /\ pc'[w] = "idle" /\ owner'[w] = None /\ draft'[w] = None /\ call'[w] = call[w]
      /\ base'[w] = base[w] /\ UNCHANGED <<log, disk, lock, receipt, synced, upsets, base>>
  BY DEF Receive, Base, TypeOK, By, files, receipts
<1>2. call[w] = None /\ base[w] = None /\ (answer[w] = "receipt" => draft[w] \in Record)
  BY <1>1 DEF Base, Phase, Holding, TypeOK
<1>3. answer[w] = "receipt" => Hash(draft[w]) \in Seq(Content)
  BY <1>2, HashIs
<1>4. AfterReceipt(s) \in Modes
  BY DEF AfterReceipt, Modes
<1>5. TypeOK'
  <2>1. /\ UNCHANGED <<log, disk, lock, clock, saved, call, base, receipt, synced, upsets>>
        /\ pc' = [pc EXCEPT ![w] = "idle"] /\ owner' = [owner EXCEPT ![w] = None]
        /\ draft' = [draft EXCEPT ![w] = None] /\ answer' = [answer EXCEPT ![w] = "none"]
    BY DEF Receive, files, receipts
  <2>2. /\ head' \in [Session -> Seq(Content) \cup {None}] /\ mode' \in [Session -> Modes]
        /\ pending' \in [Session -> Call \cup {None}]
        /\ \A t \in Session : mode'[t] = "ready" => pending'[t] # None
    <3>1. CASE answer[w] = "receipt"
      <4>1. /\ head' = [head EXCEPT ![s] = Hash(draft[w])] /\ pending' = [pending EXCEPT ![s] = None]
            /\ mode' = [mode EXCEPT ![s] = AfterReceipt(s)]
        BY <3>1 DEF Receive
      <4>2. AfterReceipt(s) # "ready"
        BY DEF AfterReceipt
      <4>3. QED
        BY <1>3, <1>4, <3>1, <4>1, <4>2 DEF Base, TypeOK
    <3>2. CASE answer[w] # "receipt"
      <4>1. /\ head' = head /\ pending' = pending
            /\ mode' = [mode EXCEPT ![s] = "stopped"] \/ mode' = [mode EXCEPT ![s] = "down"]
        BY <3>2 DEF Receive
      <4>2. QED
        BY <4>1 DEF Base, TypeOK, Modes
    <3>3. QED
      BY <3>1, <3>2
  <2>3. QED
    BY <2>1, <2>2 DEF Base, TypeOK
<1>6. FilesOK'
  BY <1>1, FilesStep
<1>7. Phase(w)'
  BY <1>1, <1>2 DEF Base, Phase, Holding
<1>8. QED
  BY <1>1, <1>5, <1>6, <1>7, BaseStep

\* A process that ends without having had the lock.
LEMMA AnswerBase ==
  ASSUME Base, NEW w \in Writer, pc[w] = "locking", NEW kind \in {"receipt", "refused", "integrity"},
         NEW r \in Record \cup {None}, Return(w, kind, r), kind = "receipt" => r # None,
         UNCHANGED <<log, disk, lock, clock, mode, head, pending, saved, synced, upsets>>,
         receipt' = receipt \/ (receipt' = HashOfLast(Readable(log)) /\ lock = None)
  PROVE  Base'
<1>1. TypeOK /\ lock # w
  BY DEF Base, Phase, Holding
<1>2. receipt' \in Seq(Content)
  BY LogIs, LastIs DEF Base, TypeOK
<1>3. TypeOK'
  BY <1>1, <1>2, ReturnIs DEF TypeOK
<1>4. FilesOK'
  <2>1. \A v \in Writer : base'[v] \in {base[v], None}
    BY <1>1, ReturnIs DEF By
  <2>2. CASE receipt' = receipt
    BY <2>1, <2>2, FilesStep
  <2>3. CASE receipt' = HashOfLast(Readable(log)) /\ lock = None
    <3>1. \A v \in Writer : base'[v] = None
      BY <2>1, <2>3, NoneIs DEF Base, Phase
    <3>2. Acked(log)'
      BY <2>3, LogIs, LastIs, PrefixSelf DEF Base, FilesOK, Acked
    <3>3. QED
      BY <3>1, <3>2 DEF Base, FilesOK
  <2>4. QED
    BY <2>2, <2>3
<1>5. Phase(w)'
  BY <1>1, ReturnPhase
<1>6. QED
  BY <1>1, <1>3, <1>4, <1>5, ReturnIs, BaseStep

LEMMA GiveUpBase == ASSUME Base, NEW w \in Writer, GiveUp(w) PROVE Base'
  BY AnswerBase DEF GiveUp, files, sessions, receipts
LEMMA RefuseBase == ASSUME Base, NEW w \in Writer, Refuse(w) PROVE Base'
  BY AnswerBase DEF Refuse, files, sessions, receipts

\* A call that is judged to repeat finds its record last.
LEMMA RepeatIs ==
  ASSUME Base, NEW w \in Writer, pc[w] = "locking", Judged(call[w], TailState(log)) = "repeat"
  PROVE  LET rs == Readable(log)
             t  == TailState(log)
         IN  /\ call[w] \in Call /\ call[w].head \in Seq(Content)
             /\ rs # <<>> /\ t.last = rs[Len(rs)] /\ t.last \in Record /\ t.head = HashOfLast(rs)
             /\ HashOfLast(rs) = Hash(rs[Len(rs)])
             /\ t.head # call[w].head /\ t.last.prev = call[w].head
             /\ t.last.event = call[w].event /\ t.last.unanchored = call[w].unanchored
<1> DEFINE rs == Readable(log)
           t  == TailState(log)
           c  == call[w]
<1>1. c \in Call /\ c.head \in Seq(Content) \cup {None}
  <2>1. call[w] # None
    BY DEF Base, Phase
  <2>2. c \in Call
    BY <2>1 DEF Base, TypeOK
  <2>3. QED
    BY <2>2 DEF Call
<1>2. c.head # None /\ t.seq > 0 /\ t.head # c.head /\ Repeats(c, t)
  BY DEF Judged, JudgedByOrder
<1>3. t.seq = Len(rs) /\ rs \in Seq(Record) /\ t.head = HashOfLast(rs)
      /\ (rs # <<>> => t.last = rs[Len(rs)] /\ t.last \in Record)
  BY LogIs, TailIs
<1>4. rs # <<>>
  BY <1>2, <1>3, EmptySeq
<1>5. HashOfLast(rs) = Hash(rs[Len(rs)])
  BY <1>3, <1>4, LastIs
<1>6. QED
  BY <1>1, <1>2, <1>3, <1>4, <1>5 DEF Repeats

LEMMA RepeatBase == ASSUME Base, NEW w \in Writer, Repeat(w) PROVE Base'
<1>1. TailState(log).last \in Record /\ TailState(log).head = HashOfLast(Readable(log))
  BY RepeatIs DEF Repeat
<1>2. QED
  BY <1>1, NoneIs, AnswerBase DEF Repeat, files, sessions

LEMMA RepeatUnterminatedIs ==
  ASSUME Base, NEW w \in Writer, RepeatUnterminated(w)
  PROVE  /\ By(w) /\ pc[w] = "locking" /\ pc'[w] = "finishing" /\ lock = None /\ lock' = w
         /\ log.rest \in Record /\ draft'[w] = log.rest /\ Readable(log) = Append(log.lines, log.rest)
         /\ log.rest.prev = call[w].head /\ call[w] \in Call
         /\ log.rest.event = call[w].event /\ log.rest.unanchored = call[w].unanchored
         /\ UNCHANGED <<log, disk, clock, mode, head, pending, saved, owner, call, base, answer, receipt, synced, upsets>>
<1>1. log.rest \in Record /\ Readable(log) = Append(log.lines, log.rest) /\ log.lines \in Seq(Record)
  BY LogIs, FileIs DEF RepeatUnterminated
<1>2. Readable(log)[Len(Readable(log))] = log.rest
  BY <1>1, AppendIs
<1>3. log.rest.prev = call[w].head /\ call[w] \in Call /\ log.rest.event = call[w].event
      /\ log.rest.unanchored = call[w].unanchored
  BY <1>2, RepeatIs DEF RepeatUnterminated
<1>4. QED
  BY <1>1, <1>3 DEF RepeatUnterminated, Base, TypeOK, By, sessions, receipts

LEMMA RepeatUnterminatedBase == ASSUME Base, NEW w \in Writer, RepeatUnterminated(w) PROVE Base'
<1>1. TypeOK'
  BY RepeatUnterminatedIs DEF RepeatUnterminated, Base, TypeOK, Holding, sessions, receipts
<1>2. FilesOK'
  BY RepeatUnterminatedIs, FilesStep
<1>3. Phase(w)'
  BY RepeatUnterminatedIs, NoneIs DEF Base, Phase, Holding
<1>4. QED
  BY <1>1, <1>2, <1>3, RepeatUnterminatedIs, BaseStep

-----------------------------------------------------------------------------
(* Steps of the process that has the lock, and of the machine.             *)

LEMMA HolderIs ==
  ASSUME Base, NEW w \in Writer, pc[w] \in Holding
  PROVE  /\ lock = w /\ call[w] \in Call /\ draft[w] \in Record
         /\ \A v \in Writer \ {w} : lock # v /\ base[v] = None
         /\ call[w].head # None => draft[w].prev = call[w].head
         /\ base[w] # None => /\ GoodFile(base[w]) /\ NextOf(draft[w], Readable(base[w])) /\ Acked(base[w])
                              /\ Readable(base[w]) \in Seq(Record) /\ Good(Readable(base[w]))
<1>1. lock = w /\ call[w] # None /\ draft[w] # None /\ (call[w].head # None => draft[w].prev = call[w].head)
      /\ (base[w] # None => GoodFile(base[w]) /\ NextOf(draft[w], Readable(base[w])))
  BY DEF Base, Phase, Holding
<1>2. call[w] \in Call /\ draft[w] \in Record
  BY <1>1 DEF Base, TypeOK
<1>3. \A v \in Writer \ {w} : lock # v /\ base[v] = None
  BY <1>1 DEF Base, Phase
<1>4. base[w] # None => Acked(base[w])
  BY DEF Base, FilesOK
<1>5. QED
  BY <1>1, <1>2, <1>3, <1>4, FileIs

\* A step that writes the log.
LEMMA LogStep ==
  ASSUME Base, UNCHANGED <<disk, receipt, synced, upsets>>, GoodFile(log)', Acked(log)',
         \A w \in Writer : base'[w] \in {base[w], None, log, log'}
  PROVE  FilesOK'
<1>1. ASSUME NEW w \in Writer, base'[w] # None PROVE Acked(base[w])'
  <2>1. CASE base'[w] \in {base[w], log}
    <3>1. Acked(base[w]) \/ base[w] = None
      BY DEF Base, FilesOK
    <3>2. Acked(log)
      BY DEF Base, FilesOK
    <3>3. QED
      BY <1>1, <2>1, <3>1, <3>2 DEF Acked
  <2>2. CASE base'[w] = log'
    BY <2>2 DEF Acked
  <2>3. QED
    BY <1>1, <2>1, <2>2
<1>2. QED
  BY <1>1 DEF Base, FilesOK

\* One more record takes nothing away.
LEMMA AckedGrows ==
  ASSUME TypeOK, NEW rs \in Seq(Record), NEW r, NextOf(r, rs), NEW x \in Seq(Content), IsPrefix(x, HashOfLast(rs)),
         NEW h, h = HashOfLast(rs) \/ h = Hash(r)
  PROVE  IsPrefix(x, h)
  BY PrefixGrows DEF NextOf

LEMMA FinishBase == ASSUME Base, NEW w \in Writer, Finish(w) PROVE Base'
<1>1. pc[w] \in Holding /\ pc[w] = "finishing"
  BY DEF Finish, Holding
<1>2. base[w] = None /\ log.rest = draft[w] /\ draft[w] \in Record /\ log.rest \notin {None, Torn} /\ lock = w
  BY <1>1, HolderIs, NoneIs DEF Base, Phase
<1>3. Readable(log) = Append(log.lines, log.rest) /\ log.lines \in Seq(Record)
  BY <1>2, LogIs, FileIs
<1>4. log'.lines = Readable(log) /\ log'.rest = None /\ GoodFile(log)' /\ Readable(log)' = Readable(log)
  BY LogIs, PlainFile DEF Finish
<1>5. Acked(log)'
  BY <1>4 DEF Base, FilesOK, Acked, Finish, receipts
<1>6. By(w) /\ pc'[w] = "syncing" /\ UNCHANGED <<disk, lock, receipt, synced, upsets, base, draft, call, owner, answer>>
  BY DEF Finish, Base, TypeOK, By, receipts
<1>7. FilesOK'
  BY <1>4, <1>5, <1>6, LogStep
<1>8. TypeOK'
  <2>1. pc' \in [Writer -> {"idle", "locking", "answering"} \cup Holding]
    BY DEF Finish, Base, TypeOK, Holding
  <2>2. log' \in File
    BY <1>4, FileIs
  <2>3. QED
    BY <2>1, <2>2 DEF Finish, Base, TypeOK, sessions, receipts
<1>9. Phase(w)'
  <2>1. log'.lines # <<>> /\ draft[w] = log'.lines[Len(log'.lines)]
    BY <1>2, <1>3, <1>4, AppendIs
  <2>2. QED
    BY <1>1, <1>2, <1>4, <1>6, <2>1, NoneIs DEF Base, Phase, Holding
<1>10. QED
  BY <1>2, <1>6, <1>7, <1>8, <1>9, BaseStep

\* A call that is judged to be appended follows the last record.
LEMMA PrepareIs ==
  ASSUME Base, NEW w \in Writer, Prepare(w)
  PROVE  /\ By(w) /\ pc[w] = "locking" /\ lock = None /\ lock' = w /\ base'[w] = log /\ call[w] \in Call
         /\ pc'[w] = (IF log.rest = Torn THEN "cutting" ELSE "writing")
         /\ draft'[w] \in Record /\ NextOf(draft'[w], Readable(log))
         /\ draft'[w].id = call[w].id /\ draft'[w].event = call[w].event /\ draft'[w].unanchored = call[w].unanchored
         /\ draft'[w].prev = HashOfLast(Readable(log))
         /\ call[w].head # None => HashOfLast(Readable(log)) = call[w].head /\ Readable(log) # <<>>
         /\ call[w].head = None => Readable(log) = <<>> \/ call[w].unanchored
         /\ Follows(Len(Readable(log)) + 1, call[w].event,
                    Readable(log) # <<>> /\ Readable(log)[Len(Readable(log))].event = "run_completed")
         /\ draft'[w].ts = clock \/ (Readable(log) # <<>> /\ draft'[w].ts = Readable(log)[Len(Readable(log))].ts)
         /\ draft' = [draft EXCEPT ![w] = draft'[w]] /\ base' = [base EXCEPT ![w] = log]
         /\ UNCHANGED <<log, disk, clock, mode, head, pending, saved, owner, call, answer, receipt, synced, upsets>>
<1> DEFINE rs == Readable(log)
           n  == Len(rs)
           t  == TailState(log)
           c  == call[w]
           d  == NextRecord(c, t)
<1>1. c \in Call /\ c.event \in Event /\ c.unanchored \in BOOLEAN /\ c.id \in 1 .. MaxCalls
      /\ c.head \in Seq(Content) \cup {None}
  <2>1. call[w] # None
    BY DEF Base, Phase, Prepare
  <2>2. c \in Call
    BY <2>1 DEF Base, TypeOK
  <2>3. QED
    BY <2>2 DEF Call
<1>2. rs \in Seq(Record) /\ n \in Nat /\ (rs = <<>> <=> n = 0)
  BY LogIs, LenProperties, EmptySeq
<1>3. /\ t.seq = n /\ t.head = HashOfLast(rs) /\ t.ts \in Nat /\ t.ts <= MaxClock
      /\ t.completed <=> rs # <<>> /\ rs[n].event = "run_completed"
      /\ t.cut <=> log.rest = Torn
      /\ rs # <<>> => t.last = rs[n] /\ t.ts = rs[n].ts
  BY LogIs, TailIs
<1>4. /\ ~(c.head = None /\ t.seq > 0 /\ ~c.unanchored)
      /\ ~(c.head # None /\ t.seq = 0)
      /\ ~(c.head # None /\ t.seq > 0 /\ t.head # c.head)
      /\ JudgedByOrder(c, t) = "append"
  BY DEF Prepare, Judged
<1>5. Follows(t.seq + 1, c.event, t.completed)
  BY <1>4 DEF JudgedByOrder
<1>6. Follows(n + 1, c.event, rs # <<>> /\ rs[n].event = "run_completed")
  BY <1>3, <1>5 DEF Follows
<1>7. clock \in Nat /\ clock <= MaxClock /\ MaxClock \in Nat
  <2>1. MaxClock \in Nat
    BY LogAssumption, FileAssumption
  <2>2. clock \in 0 .. MaxClock
    BY DEF Base, TypeOK
  <2>3. QED
    BY <2>1, <2>2
<1>8. /\ d.event = c.event /\ d.unanchored = c.unanchored /\ d.seq = n + 1 /\ d.prev = HashOfLast(rs)
      /\ d.id = c.id /\ d.recovered = t.cut /\ d.ts = (IF t.ts > clock THEN t.ts ELSE clock)
  BY <1>3 DEF NextRecord
<1>9. d.ts \in Nat /\ d.ts <= MaxClock /\ t.ts <= d.ts
  BY <1>3, <1>7, <1>8
<1>10. d.recovered \in BOOLEAN
  BY <1>8 DEF TailState
<1>11. d \in Record
  <2>1. HashOfLast(rs) \in Seq(Content) /\ n + 1 \in Nat \ {0}
    BY <1>2, LastIs
  <2>2. c.id \in Nat \ {0}
    BY <1>1, LogAssumption
  <2>3. t.head \in Seq(Content) /\ t.seq + 1 \in Nat \ {0} /\ t.cut \in BOOLEAN
    BY <1>3, <1>8, <1>10, <2>1
  <2>4. (IF t.ts > clock THEN t.ts ELSE clock) \in Nat
    BY <1>3, <1>7
  <2>5. QED
    BY <1>1, <2>2, <2>3, <2>4 DEF NextRecord, Record
<1>12. NextOf(d, rs)
  <2>1. Follows(n + 1, d.event, rs # <<>> /\ rs[n].event = "run_completed")
    BY <1>6, <1>8
  <2>2. rs # <<>> => rs[n].ts <= d.ts
    BY <1>3, <1>9
  <2>3. QED
    BY <1>8, <1>9, <1>11, <2>1, <2>2 DEF NextOf
<1>13. /\ c.head # None => HashOfLast(rs) = c.head /\ rs # <<>>
       /\ c.head = None => rs = <<>> \/ c.unanchored
  BY <1>2, <1>3, <1>4
<1>14. d.ts = clock \/ (rs # <<>> /\ d.ts = rs[n].ts)
  <2>1. CASE t.ts > clock
    <3>1. rs # <<>>
      BY <1>7, <2>1 DEF TailState
    <3>2. QED
      BY <1>3, <1>8, <2>1, <3>1
  <2>2. QED
    BY <1>8, <2>1
<1>15. draft' = [draft EXCEPT ![w] = d] /\ draft'[w] = d
  BY DEF Prepare, Base, TypeOK
<1>16. pc' = [pc EXCEPT ![w] = IF t.cut THEN "cutting" ELSE "writing"]
  BY DEF Prepare
<1>17. /\ By(w) /\ base'[w] = log /\ pc[w] = "locking" /\ lock = None /\ lock' = w
       /\ base' = [base EXCEPT ![w] = log]
       /\ UNCHANGED <<log, disk, clock, mode, head, pending, saved, owner, call, answer, receipt, synced, upsets>>
  BY <1>15, <1>16 DEF Prepare, Base, TypeOK, By, sessions, receipts
<1>18. pc'[w] = (IF log.rest = Torn THEN "cutting" ELSE "writing")
  BY <1>3, <1>16 DEF Base, TypeOK
<1>19. QED
  BY <1>1, <1>6, <1>8, <1>11, <1>12, <1>13, <1>14, <1>15, <1>17, <1>18

LEMMA PrepareBase == ASSUME Base, NEW w \in Writer, Prepare(w) PROVE Base'
<1>1. FilesOK'
  <2>1. \A v \in Writer : base'[v] \in {base[v], None, log}
    BY PrepareIs DEF By
  <2>2. QED
    BY <2>1, PrepareIs, FilesStep
<1>2. TypeOK'
  <2>1. pc' \in [Writer -> {"idle", "locking", "answering"} \cup Holding]
    BY DEF Prepare, Base, TypeOK, Holding
  <2>2. PICK d \in Record : draft' = [draft EXCEPT ![w] = d]
    BY PrepareIs
  <2>3. base' = [base EXCEPT ![w] = log] /\ log \in File /\ lock' \in Writer
    BY PrepareIs, LogIs DEF GoodFile
  <2>4. draft' \in [Writer -> Record \cup {None}] /\ base' \in [Writer -> File \cup {None}]
    BY <2>2, <2>3 DEF Base, TypeOK
  <2>5. UNCHANGED <<log, disk, clock, mode, head, pending, saved, owner, call, answer, receipt, synced, upsets>>
    BY PrepareIs
  <2>6. QED
    BY <2>1, <2>3, <2>4, <2>5 DEF Base, TypeOK
<1>3. Phase(w)'
  <2>1. GoodFile(log) /\ log # None /\ draft'[w] # None /\ call'[w] = call[w] /\ call[w] # None
    BY PrepareIs, LogIs, NoneIs DEF GoodFile
  <2>2. call'[w].head # None => draft'[w].prev = call'[w].head
    BY PrepareIs
  <2>3. QED
    BY <2>1, <2>2, PrepareIs DEF Phase, Holding
<1>4. QED
  BY <1>1, <1>2, <1>3, PrepareIs, BaseStep

LEMMA CutIs ==
  ASSUME Base, NEW w \in Writer, Cut(w)
  PROVE  /\ By(w) /\ pc[w] = "cutting" /\ pc'[w] = "writing" /\ lock = w /\ base[w] = log /\ base'[w] = log'
         /\ log' = [lines |-> log.lines, rest |-> None] /\ GoodFile(log)' /\ Readable(log') = Readable(log)
         /\ Readable(log) = log.lines /\ log.rest = Torn /\ base' = [base EXCEPT ![w] = log']
         /\ UNCHANGED <<disk, lock, clock, mode, head, pending, saved, owner, call, draft, answer, receipt, synced, upsets>>
<1>1. pc[w] = "cutting" /\ lock = w /\ base[w] = log /\ log.rest = Torn
  BY DEF Cut, Base, Phase, Holding
<1>2. log' = [lines |-> log.lines, rest |-> None]
  BY DEF Cut, Base, TypeOK, File
<1>3. log.lines \in Seq(Record) /\ Good(log.lines) /\ Readable(log) = log.lines
  BY <1>1, LogIs, FileIs
<1>4. GoodFile(log)' /\ Readable(log') = log.lines
  BY <1>2, <1>3, PlainFile
<1>5. QED
  BY <1>1, <1>2, <1>3, <1>4 DEF Cut, By, Base, TypeOK, sessions, receipts

LEMMA CutBase == ASSUME Base, NEW w \in Writer, Cut(w) PROVE Base'
<1>1. FilesOK'
  <2>1. Acked(log)'
    BY CutIs DEF Base, FilesOK, Acked
  <2>2. \A v \in Writer : base'[v] \in {base[v], None, log, log'}
    BY CutIs DEF By
  <2>3. QED
    BY <2>1, <2>2, CutIs, LogStep
<1>2. TypeOK'
  <2>1. pc' \in [Writer -> {"idle", "locking", "answering"} \cup Holding]
    BY DEF Cut, Base, TypeOK, Holding
  <2>2. log' \in File /\ base' = [base EXCEPT ![w] = log']
    BY CutIs DEF GoodFile
  <2>3. base' \in [Writer -> File \cup {None}]
    BY <2>2 DEF Base, TypeOK
  <2>4. UNCHANGED <<disk, lock, clock, mode, head, pending, saved, owner, call, draft, answer, receipt, synced, upsets>>
    BY CutIs
  <2>5. QED
    BY <2>1, <2>2, <2>3, <2>4 DEF Base, TypeOK
<1>3. Phase(w)'
  <2>1. base[w] # None /\ base'[w] # None /\ base'[w].rest # Torn /\ pc[w] \in Holding
    <3>1. log \in File /\ log' \in File /\ log'.rest = None
      BY CutIs, LogIs DEF GoodFile
    <3>2. base[w] = log /\ base'[w] = log' /\ pc[w] = "cutting"
      BY CutIs
    <3>3. QED
      BY <3>1, <3>2, NoneIs DEF Holding
  <2>2. Phase(w)
    BY DEF Base
  <2>3. QED
    BY <2>1, <2>2, CutIs DEF Phase, Holding
<1>4. QED
  BY <1>1, <1>2, <1>3, CutIs, BaseStep

\* The record is written, or a part of it.
LEMMA WritingIs ==
  ASSUME Base, NEW w \in Writer, WritePart(w) \/ Write(w)
  PROVE  /\ By(w) /\ pc[w] \in {"writing", "torn"} /\ lock = w /\ base[w] # None /\ GoodFile(log)' /\ Acked(log)'
         /\ pc[w] \in Holding
         /\ \/ pc'[w] = "torn" /\ log'.lines = Readable(base[w]) /\ log'.rest \in {None, Torn, draft[w]}
               /\ \/ log'.rest \in {None, Torn} /\ Readable(log') = Readable(base[w])
                  \/ log'.rest = draft[w] /\ Readable(log') = Append(Readable(base[w]), draft[w])
            \/ pc'[w] = "syncing" /\ log'.lines = Append(Readable(base[w]), draft[w]) /\ log'.rest = None
               /\ Readable(log') = Append(Readable(base[w]), draft[w])
         /\ UNCHANGED <<disk, lock, clock, mode, head, pending, saved, owner, call, draft, base, answer, receipt, synced,
                        upsets>>
<1>1. pc[w] \in Holding /\ pc[w] \in {"writing", "torn"}
  BY DEF WritePart, Write, Holding
<1>2. base[w] # None
  BY <1>1 DEF Base, Phase
<1> DEFINE rs == Readable(base[w])
           r  == draft[w]
<1>3. lock = w /\ GoodFile(base[w]) /\ NextOf(r, rs) /\ Acked(base[w]) /\ rs \in Seq(Record) /\ Good(rs)
  BY <1>1, <1>2, HolderIs
<1>4. /\ By(w) /\ UNCHANGED <<disk, lock, clock, mode, head, pending, saved, owner, call, draft, base, answer, receipt,
                              synced, upsets>>
  BY DEF WritePart, Write, By, Base, TypeOK, sessions, receipts
<1>8. /\ "power" \notin upsets => IsPrefix(receipt, Hash(r))
      /\ IsPrefix(synced, Hash(r))
  <2>1. TypeOK /\ receipt \in Seq(Content) /\ synced \in Seq(Content)
    BY DEF Base, TypeOK
  <2>2. IsPrefix(synced, HashOfLast(rs)) /\ ("power" \notin upsets => IsPrefix(receipt, HashOfLast(rs)))
    BY <1>3 DEF Acked
  <2>3. QED
    BY <1>3, <2>1, <2>2, AckedGrows
<1>5. CASE WritePart(w)
  <2>1. PICK rest \in {None, Torn, r} : log' = [lines |-> rs, rest |-> rest]
    BY <1>5 DEF WritePart
  <2>2. pc'[w] = "torn"
    BY <1>5 DEF WritePart, Base, TypeOK
  <2>3. CASE rest \in {None, Torn}
    <3>1. GoodFile(log') /\ Readable(log') = rs
      BY <1>3, <2>1, <2>3, PlainFile
    <3>2. log'.lines = rs /\ log'.rest = rest
      BY <2>1
    <3>3. Acked(log)'
      BY <1>3, <1>4, <3>1 DEF Acked
    <3>4. /\ pc'[w] = "torn" /\ log'.lines = Readable(base[w]) /\ log'.rest \in {None, Torn, draft[w]}
          /\ log'.rest \in {None, Torn} /\ Readable(log') = Readable(base[w])
      BY <2>2, <2>3, <3>1, <3>2
    <3>5. GoodFile(log)' /\ Acked(log)'
      BY <3>1, <3>3
    <3>6. QED
      BY <1>1, <1>2, <1>3, <1>4, <3>4, <3>5
  <2>4. CASE rest = r
    <3>1. GoodFile(log') /\ Readable(log') = Append(rs, r) /\ HashOfLast(Append(rs, r)) = Hash(r)
      BY <1>3, <2>1, <2>4, LongerFile
    <3>2. log'.lines = rs /\ log'.rest = r
      BY <2>1, <2>4
    <3>3. Acked(log)'
      BY <1>3, <1>4, <1>8, <3>1 DEF Acked
    <3>4. QED
      BY <1>1, <1>2, <1>3, <1>4, <2>2, <3>1, <3>2, <3>3
  <2>5. QED
    BY <2>1, <2>3, <2>4
<1>6. CASE Write(w)
  <2>1. log' = [lines |-> Append(rs, r), rest |-> None]
    BY <1>6 DEF Write
  <2>2. pc'[w] = "syncing"
    BY <1>6 DEF Write, Base, TypeOK
  <2>3. GoodFile(log') /\ Readable(log') = Append(rs, r) /\ HashOfLast(Append(rs, r)) = Hash(r)
    BY <1>3, <2>1, LongerFile
  <2>4. log'.lines = Append(rs, r) /\ log'.rest = None
    BY <2>1
  <2>5. Acked(log)'
    BY <1>3, <1>4, <1>8, <2>3 DEF Acked
  <2>6. QED
    BY <1>1, <1>2, <1>3, <1>4, <2>2, <2>3, <2>4, <2>5
<1>7. QED
  BY <1>5, <1>6

LEMMA WritingBase == ASSUME Base, NEW w \in Writer, WritePart(w) \/ Write(w) PROVE Base'
<1>1. FilesOK'
  BY WritingIs, LogStep
<1>2. TypeOK'
  <2>1. pc' \in [Writer -> {"idle", "locking", "answering"} \cup Holding]
    BY DEF WritePart, Write, Base, TypeOK, Holding
  <2>2. log' \in File
    BY WritingIs DEF GoodFile
  <2>3. QED
    BY <2>1, <2>2, WritingIs DEF Base, TypeOK
<1>3. Phase(w)'
  <2>1. /\ pc'[w] \in {"torn", "syncing"} /\ UNCHANGED <<lock, owner, call, draft, base, answer>>
        /\ base[w] # None /\ pc[w] \in Holding /\ pc'[w] \in Holding /\ draft[w] \in Record
        /\ pc[w] \in {"writing", "torn"} /\ Phase(w) /\ Readable(base[w]) \in Seq(Record)
    BY WritingIs, HolderIs DEF Base, Holding
  <2>2. pc'[w] = "torn" => log'.lines = Readable(base[w]) /\ log'.rest \in {None, Torn, draft[w]}
    BY WritingIs
  <2>3. pc'[w] = "syncing" => /\ log'.rest = None /\ log'.lines # <<>> /\ draft[w] = log'.lines[Len(log'.lines)]
                              /\ log'.lines = Append(Readable(base[w]), draft[w])
    BY <2>1, WritingIs, AppendIs
  <2>4. QED
    BY <2>1, <2>2, <2>3 DEF Phase
<1>4. QED
  BY <1>1, <1>2, <1>3, WritingIs, BaseStep

LEMMA SyncIs ==
  ASSUME Base, NEW w \in Writer, Sync(w)
  PROVE  /\ pc[w] = "syncing" /\ pc[w] \in Holding /\ lock = w /\ Return(w, "receipt", draft[w])
         /\ draft[w] \in Record /\ log.rest = None /\ Readable(log) = log.lines /\ log.lines \in Seq(Record)
         /\ log.lines # <<>> /\ draft[w] = log.lines[Len(log.lines)] /\ HashOfLast(Readable(log)) = Hash(draft[w])
         /\ disk' = log /\ lock' = None /\ receipt' = Hash(draft[w]) /\ synced' = Hash(draft[w])
         /\ \A v \in Writer : base'[v] = None
         /\ UNCHANGED <<log, clock, mode, head, pending, saved, upsets>>
<1>1. pc[w] = "syncing" /\ pc[w] \in Holding
  BY DEF Sync, Holding
<1>2. /\ draft[w] \in Record /\ lock = w /\ log.rest = None /\ log.lines # <<>> /\ draft[w] = log.lines[Len(log.lines)]
      /\ \A v \in Writer \ {w} : base[v] = None
  BY <1>1, HolderIs DEF Base, Phase
<1>3. Readable(log) = log.lines /\ log.lines \in Seq(Record)
  BY <1>2, LogIs, FileIs
<1>4. HashOfLast(log.lines) = Hash(draft[w])
  BY <1>2, <1>3, LastIs
<1>5. By(w) /\ base'[w] = None
  BY <1>2, ReturnIs DEF Sync, Base
<1>6. \A v \in Writer : base'[v] = None
  BY <1>2, <1>5 DEF By
<1>7. QED
  BY <1>1, <1>2, <1>3, <1>4, <1>6 DEF Sync, sessions

LEMMA SyncBase == ASSUME Base, NEW w \in Writer, Sync(w) PROVE Base'
<1>1. Hash(draft[w]) \in Seq(Content)
  BY SyncIs, HashIs
<1>2. TypeOK
  BY DEF Base
<1>3. TypeOK'
  <2>1. UNCHANGED <<log, clock, mode, head, pending, saved, upsets, owner>> /\ disk' = log /\ lock' = None
        /\ receipt' \in Seq(Content) /\ synced' \in Seq(Content)
    BY <1>1, SyncIs DEF Return
  <2>2. /\ pc' \in [Writer -> {"idle", "locking", "answering"} \cup Holding]
        /\ call' \in [Writer -> Call \cup {None}] /\ draft' \in [Writer -> Record \cup {None}]
        /\ base' \in [Writer -> File \cup {None}]
        /\ answer' \in [Writer -> {"none", "receipt", "refused", "integrity"}]
    BY <1>2, SyncIs, ReturnIs
  <2>3. QED
    BY <1>2, <2>1, <2>2 DEF TypeOK
<1>4. FilesOK'
  <2>1. Acked(log)'
    BY <1>1, SyncIs, PrefixSelf DEF Acked
  <2>2. IsPrefix(synced, HashOfLast(disk.lines))'
    BY <1>1, SyncIs, PrefixSelf
  <2>3. GoodFile(log)' /\ GoodFile(disk)'
    BY SyncIs, LogIs
  <2>4. QED
    BY <2>1, <2>2, <2>3, SyncIs DEF FilesOK
<1>5. Phase(w)'
  BY SyncIs, ReturnPhase, NoneIs
<1>6. By(w)
  BY <1>2, SyncIs, ReturnIs
<1>7. QED
  BY <1>3, <1>4, <1>5, <1>6, SyncIs, BaseStep

LEMMA FailIs ==
  ASSUME Base, NEW w \in Writer, Fail(w)
  PROVE  /\ pc[w] \in Holding /\ lock = w /\ Return(w, "refused", None) /\ lock' = None
         /\ log' = log \/ (base[w] # None /\ log' = base[w])
         /\ GoodFile(log)' /\ Acked(log)' /\ \A v \in Writer : base'[v] = None
         /\ UNCHANGED <<disk, clock, mode, head, pending, saved, receipt, synced, upsets>>
<1>1. pc[w] \in Holding
  BY DEF Fail, Holding
<1>2. /\ lock = w /\ \A v \in Writer \ {w} : base[v] = None
      /\ base[w] # None => GoodFile(base[w]) /\ Acked(base[w])
  BY <1>1, HolderIs
<1>3. /\ log' = log \/ (base[w] # None /\ log' = base[w])
      /\ UNCHANGED <<disk, clock, mode, head, pending, saved, receipt, synced, upsets>>
      /\ lock' = None /\ Return(w, "refused", None)
  BY DEF Fail, sessions, receipts
<1>4. GoodFile(log')
  BY <1>2, <1>3, LogIs
<1>5. Acked(log)'
  BY <1>2, <1>3 DEF Base, FilesOK, Acked
<1>6. By(w) /\ base'[w] = None
  BY <1>3, ReturnIs DEF Base
<1>7. \A v \in Writer : base'[v] = None
  BY <1>2, <1>6 DEF By
<1>8. QED
  BY <1>1, <1>2, <1>3, <1>4, <1>5, <1>7

LEMMA FailBase == ASSUME Base, NEW w \in Writer, Fail(w) PROVE Base'
<1>1. TypeOK
  BY DEF Base
<1>2. TypeOK'
  <2>1. UNCHANGED <<disk, clock, mode, head, pending, saved, receipt, synced, upsets, owner>> /\ lock' = None
        /\ log' \in File
    BY FailIs DEF Return, GoodFile
  <2>2. /\ pc' \in [Writer -> {"idle", "locking", "answering"} \cup Holding]
        /\ call' \in [Writer -> Call \cup {None}] /\ draft' \in [Writer -> Record \cup {None}]
        /\ base' \in [Writer -> File \cup {None}]
        /\ answer' \in [Writer -> {"none", "receipt", "refused", "integrity"}]
    BY <1>1, FailIs, ReturnIs
  <2>3. QED
    BY <1>1, <2>1, <2>2 DEF TypeOK
<1>3. FilesOK'
  BY FailIs, LogStep
<1>4. Phase(w)'
  BY FailIs, ReturnPhase, NoneIs
<1>5. By(w)
  BY <1>1, FailIs, ReturnIs
<1>6. QED
  BY <1>2, <1>3, <1>4, <1>5, FailIs, BaseStep

LEMMA KillIs ==
  ASSUME Base, NEW w \in Writer, Kill(w)
  PROVE  /\ By(w) /\ pc[w] # "idle" /\ pc'[w] = "idle" /\ owner'[w] = None /\ call'[w] = None /\ draft'[w] = None
         /\ base'[w] = None /\ answer'[w] = "none" /\ lock' = (IF lock = w THEN None ELSE lock)
         /\ \A v \in Writer : base'[v] \in {base[v], None}
         /\ UNCHANGED <<log, disk, clock, head, pending, saved, receipt, synced, upsets>>
  BY DEF Kill, Base, TypeOK, By, receipts

LEMMA KillBase == ASSUME Base, NEW w \in Writer, Kill(w) PROVE Base'
<1>1. TypeOK'
  <2>1. /\ pc' \in [Writer -> {"idle", "locking", "answering"} \cup Holding] /\ owner' \in [Writer -> Session \cup {None}]
        /\ call' \in [Writer -> Call \cup {None}] /\ draft' \in [Writer -> Record \cup {None}]
        /\ base' \in [Writer -> File \cup {None}]
        /\ answer' \in [Writer -> {"none", "receipt", "refused", "integrity"}]
    BY DEF Kill, Base, TypeOK
  <2>2. mode' \in [Session -> Modes] /\ \A s \in Session : mode'[s] = "ready" => mode[s] = "ready"
    BY DEF Kill, Base, TypeOK, Modes
  <2>3. lock' \in Writer \cup {None}
    BY KillIs DEF Base, TypeOK
  <2>4. UNCHANGED <<log, disk, clock, head, pending, saved, receipt, synced, upsets>>
    BY KillIs
  <2>5. QED
    BY <2>1, <2>2, <2>3, <2>4 DEF Base, TypeOK
<1>2. FilesOK'
  BY KillIs, FilesStep
<1>3. Phase(w)'
  BY KillIs, NoneIs DEF Phase, Holding
<1>4. lock' = lock \/ (lock = w /\ lock' = None)
  BY KillIs
<1>5. QED
  BY <1>1, <1>2, <1>3, <1>4, KillIs, BaseStep

LEMMA SetClockBase == ASSUME Base, SetClock PROVE Base'
<1>1. TypeOK'
  BY DEF SetClock, Base, TypeOK, files, sessions, writers, receipts
<1>2. "power" \in upsets' <=> "power" \in upsets
  BY DEF SetClock
<1>3. FilesOK'
  BY <1>2 DEF SetClock, Base, FilesOK, Acked, files, writers, receipts
<1>4. \A w \in Writer : Phase(w)'
  BY DEF SetClock, Base, Phase, files, writers
<1>5. QED
  BY <1>1, <1>3, <1>4 DEF Base

\* What a power loss leaves: the log, or what was synced.
LEMMA PowerLossIs ==
  ASSUME Base, PowerLoss
  PROVE  /\ GoodFile(log)' /\ disk' = log' /\ lock' = None /\ "power" \notin upsets /\ upsets' = upsets \cup {"power"}
         /\ IsPrefix(synced, HashOfLast(Readable(log')))
         /\ \/ log' \in {log, disk}
            \/ log'.lines = disk.lines /\ log'.rest = Torn /\ Readable(log') = disk.lines
         /\ pc' = [w \in Writer |-> "idle"] /\ owner' = [w \in Writer |-> None] /\ call' = [w \in Writer |-> None]
         /\ draft' = [w \in Writer |-> None] /\ base' = [w \in Writer |-> None] /\ answer' = [w \in Writer |-> "none"]
         /\ UNCHANGED <<clock, head, pending, saved, receipt, synced>>
<1>1. /\ disk' = log' /\ lock' = None /\ "power" \notin upsets /\ upsets' = upsets \cup {"power"}
      /\ log' \in {log, disk, [disk EXCEPT !.rest = IF log = disk THEN @ ELSE Torn]}
      /\ pc' = [w \in Writer |-> "idle"] /\ owner' = [w \in Writer |-> None] /\ call' = [w \in Writer |-> None]
      /\ draft' = [w \in Writer |-> None] /\ base' = [w \in Writer |-> None] /\ answer' = [w \in Writer |-> "none"]
      /\ UNCHANGED <<clock, head, pending, saved, receipt, synced>>
  BY DEF PowerLoss, receipts
<1>2. /\ disk \in File /\ disk.lines \in Seq(Record) /\ Good(disk.lines) /\ synced \in Seq(Content)
      /\ IsPrefix(synced, HashOfLast(disk.lines)) /\ IsPrefix(synced, HashOfLast(Readable(log)))
  BY <1>1, LogIs, FileIs DEF GoodFile, Base, TypeOK, FilesOK, Acked
<1>3. IsPrefix(synced, HashOfLast(Readable(disk)))
  <2>1. CASE disk.rest \in {None, Torn}
    BY <1>2, <2>1, LogIs, FileIs
  <2>2. CASE disk.rest \notin {None, Torn}
    <3>1. Readable(disk) = Append(disk.lines, disk.rest) /\ NextOf(disk.rest, disk.lines)
      BY <2>2, LogIs, FileIs DEF GoodFile
    <3>2. HashOfLast(Readable(disk)) = Hash(disk.rest)
      BY <1>2, <3>1, AppendIs DEF NextOf
    <3>3. QED
      BY <1>2, <3>1, <3>2, AckedGrows DEF Base
  <2>3. QED
    BY <2>1, <2>2
<1>4. CASE log' \in {log, disk}
  BY <1>1, <1>2, <1>3, <1>4, LogIs
<1>5. CASE log' = [disk EXCEPT !.rest = Torn]
  <2>1. log' = [lines |-> disk.lines, rest |-> Torn]
    BY <1>2, <1>5 DEF File
  <2>2. GoodFile(log') /\ Readable(log') = disk.lines
    BY <1>2, <2>1, PlainFile
  <2>3. log'.lines = disk.lines /\ log'.rest = Torn
    BY <2>1
  <2>4. QED
    BY <1>1, <1>2, <2>2, <2>3
<1>6. log' \in {log, disk} \/ log' = [disk EXCEPT !.rest = Torn]
  <2>1. disk = [disk EXCEPT !.rest = disk.rest]
    BY <1>2 DEF File
  <2>2. QED
    BY <1>1, <2>1
<1>7. QED
  BY <1>4, <1>5, <1>6

LEMMA PowerLossBase == ASSUME Base, PowerLoss PROVE Base'
<1>1. log' \in File
  BY PowerLossIs DEF GoodFile
<1>2. TypeOK'
  <2>1. mode' \in [Session -> Modes] /\ \A s \in Session : mode'[s] # "ready"
    BY DEF PowerLoss, Base, TypeOK, Modes
  <2>2. /\ pc' \in [Writer -> {"idle", "locking", "answering"} \cup Holding] /\ owner' \in [Writer -> Session \cup {None}]
        /\ call' \in [Writer -> Call \cup {None}] /\ draft' \in [Writer -> Record \cup {None}]
        /\ base' \in [Writer -> File \cup {None}]
        /\ answer' \in [Writer -> {"none", "receipt", "refused", "integrity"}]
    BY PowerLossIs
  <2>3. UNCHANGED <<clock, head, pending, saved, receipt, synced>> /\ disk' = log' /\ lock' = None
        /\ upsets' = upsets \cup {"power"}
    BY PowerLossIs
  <2>4. QED
    BY <1>1, <2>1, <2>2, <2>3 DEF Base, TypeOK
<1>3. FilesOK'
  BY PowerLossIs DEF FilesOK, Acked
<1>4. \A w \in Writer : Phase(w)'
  <2>1. ASSUME NEW w \in Writer PROVE Phase(w)'
    <3>1. pc'[w] = "idle" /\ owner'[w] = None /\ call'[w] = None /\ draft'[w] = None /\ base'[w] = None /\ lock' # w
      BY PowerLossIs, NoneIs
    <3>2. QED
      BY <3>1 DEF Phase, Holding
  <2>2. QED
    BY <2>1
<1>5. QED
  BY <1>2, <1>3, <1>4 DEF Base

-----------------------------------------------------------------------------
(* The first state, and every step.                                        *)

LEMMA EarlierIs ==
  ASSUME NEW n \in Nat
  PROVE  /\ Before(n) \in Seq(Record) /\ Len(Before(n)) = n /\ Good(Before(n))
         /\ \A i \in 1 .. n : Before(n)[i].id = MaxCalls + i
         /\ \A i \in 1 .. n : Before(n)[i].ts = 0 /\ Before(n)[i].event # "run_completed"
         /\ n = 0 => Before(n) = <<>>
<1> DEFINE content(i) == [event |-> IF i = 1 THEN "run_started" ELSE "task_selected",
                          unanchored |-> FALSE, recovered |-> FALSE, ts |-> 0]
           prev(i)    == [j \in 1 .. i - 1 |-> content(j)]
           rs         == Before(n)
<1>1. rs = [i \in 1 .. n |-> [event |-> content(i).event, unanchored |-> FALSE, recovered |-> FALSE, ts |-> 0,
                              seq |-> i, prev |-> prev(i), id |-> MaxCalls + i]]
  BY DEF Before
<1>2. ASSUME NEW i \in 1 .. n
      PROVE  /\ rs[i].event = content(i).event /\ rs[i].unanchored = FALSE /\ rs[i].recovered = FALSE /\ rs[i].ts = 0
             /\ rs[i].seq = i /\ rs[i].prev = prev(i) /\ rs[i].id = MaxCalls + i
  <2>1. rs[i] = [event |-> content(i).event, unanchored |-> FALSE, recovered |-> FALSE, ts |-> 0,
                 seq |-> i, prev |-> prev(i), id |-> MaxCalls + i]
    BY <1>1
  <2> HIDE DEF prev, content, rs
  <2>2. QED
    BY <2>1
<1>3. MaxCalls \in Nat /\ MaxClock \in Nat /\ Forged \in Nat
  BY LogAssumption, FileAssumption
<1>4. ASSUME NEW i \in Nat PROVE content(i) \in Content
  BY DEF Content, Event
<1>5. ASSUME NEW i \in 1 .. n PROVE prev(i) \in Seq(Content) /\ Len(prev(i)) = i - 1
  <2>1. i - 1 \in Nat /\ prev(i) \in [1 .. i - 1 -> Content]
    BY <1>4
  <2> HIDE DEF prev
  <2>2. QED
    BY <2>1, IsASeq, LenProperties
<1>6. ASSUME NEW i \in 1 .. n PROVE rs[i] \in Record
  <2>1. prev(i) \in Seq(Content)
    BY <1>5
  <2>2. MaxCalls + i \in Nat \ {0} /\ i \in Nat \ {0} /\ content(i).event \in Event
    BY <1>3 DEF Event
  <2> HIDE DEF prev
  <2>3. rs[i] = [event |-> content(i).event, unanchored |-> FALSE, recovered |-> FALSE, ts |-> 0,
                 seq |-> i, prev |-> prev(i), id |-> MaxCalls + i]
    BY <1>1
  <2> HIDE DEF content, rs
  <2>4. QED
    BY <2>1, <2>2, <2>3 DEF Record
<1>7. rs \in Seq(Record) /\ Len(rs) = n
  <2>1. rs \in [1 .. n -> Record]
    <3>1. DOMAIN rs = 1 .. n /\ rs = [i \in 1 .. n |-> rs[i]]
      BY <1>1
    <3>2. QED
      BY <1>6, <3>1
  <2> HIDE DEF rs
  <2>2. QED
    BY <2>1, IsASeq, LenProperties
<1>8. ASSUME NEW i \in 1 .. n
      PROVE  rs[i].prev = HashOfLast(SubSeq(rs, 1, i - 1))
  <2>1. CASE i = 1
    <3>1. Len(prev(i)) = 0 /\ prev(i) \in Seq(Content)
      BY <1>5, <2>1
    <3>2. prev(i) = <<>>
      BY <3>1, EmptySeq
    <3>3. HashOfLast(SubSeq(rs, 1, i - 1)) = <<>>
      BY <1>7, <2>1, PrefixOfRecords
    <3>4. QED
      BY <1>2, <3>2, <3>3
  <2>2. CASE i > 1
    <3>1. i - 1 \in 1 .. n /\ i - 2 \in Nat /\ (i - 1) - 1 = i - 2
      BY <2>2
    <3>2. Hash(rs[i - 1]) = Append(prev(i - 1), content(i - 1))
      BY <1>2, <3>1 DEF Hash
    <3>3. prev(i - 1) \in Seq(Content) /\ Len(prev(i - 1)) = i - 2 /\ content(i - 1) \in Content
          /\ prev(i) \in Seq(Content) /\ Len(prev(i)) = i - 1
      <4>1. prev(i - 1) \in Seq(Content) /\ Len(prev(i - 1)) = i - 2
        BY <1>5, <3>1
      <4>2. content(i - 1) \in Content
        BY <1>4, <3>1
      <4>3. prev(i) \in Seq(Content) /\ Len(prev(i)) = i - 1
        BY <1>5
      <4>4. QED
        BY <4>1, <4>2, <4>3
    <3>4. ASSUME NEW j \in 1 .. i - 1 PROVE Append(prev(i - 1), content(i - 1))[j] = prev(i)[j]
      <4>1. prev(i)[j] = content(j)
        OBVIOUS
      <4>2. CASE j = i - 1
        <5>1. Append(prev(i - 1), content(i - 1))[Len(prev(i - 1)) + 1] = content(i - 1)
          BY <3>3, AppendProperties
        <5>2. QED
          BY <3>1, <3>3, <4>1, <4>2, <5>1
      <4>3. CASE j # i - 1
        <5>1. j \in 1 .. Len(prev(i - 1)) /\ j \in 1 .. (i - 1) - 1
          BY <3>1, <3>3, <4>3
        <5>2. prev(i - 1)[j] = content(j)
          BY <5>1
        <5>3. Append(prev(i - 1), content(i - 1))[j] = prev(i - 1)[j]
          BY <3>3, <5>1, AppendProperties
        <5>4. QED
          BY <4>1, <5>2, <5>3
      <4>4. QED
        BY <4>2, <4>3
    <3>5. Append(prev(i - 1), content(i - 1)) \in Seq(Content) /\ Len(Append(prev(i - 1), content(i - 1))) = i - 1
      BY <3>1, <3>3, AppendProperties
    <3>6. Append(prev(i - 1), content(i - 1)) = prev(i)
      <4> HIDE DEF prev, content
      <4>1. QED
        BY <3>3, <3>4, <3>5, SeqEqual
    <3>7. HashOfLast(SubSeq(rs, 1, i - 1)) = Hash(rs[i - 1])
      BY <1>7, <2>2, PrefixOfRecords
    <3>8. rs[i].prev = prev(i)
      BY <1>2
    <3>9. QED
      <4> HIDE DEF prev, content, rs
      <4>1. QED
        BY <3>2, <3>6, <3>7, <3>8
  <2>3. QED
    BY <2>1, <2>2
<1>9. ASSUME NEW i \in 1 .. n PROVE rs[i].event # "run_completed" /\ (i = 1 <=> rs[i].event = "run_started")
  BY <1>2
<1>10. ASSUME NEW i \in 1 .. n PROVE Follows(i, rs[i].event, CompletedBefore(rs, i))
  <2>1. ~CompletedBefore(rs, i)
    BY <1>9 DEF CompletedBefore
  <2>2. QED
    BY <1>9, <2>1 DEF Follows
<1>11. ASSUME NEW i \in 1 .. n
       PROVE  rs[i].ts = 0 /\ rs[i].seq = i /\ Len(rs[i].prev) = i - 1 /\ (i > 1 => rs[i - 1].ts = 0)
  <2>1. rs[i].ts = 0 /\ rs[i].seq = i /\ rs[i].prev = prev(i)
    BY <1>2
  <2>2. Len(prev(i)) = i - 1
    BY <1>5
  <2>3. ASSUME i > 1 PROVE rs[i - 1].ts = 0
    <3>1. i - 1 \in 1 .. n
      BY <2>3
    <3>2. QED
      BY <1>2, <3>1
  <2> HIDE DEF prev, content, rs
  <2>4. QED
    BY <2>1, <2>2, <2>3
<1>12. Good(rs)
  <2> HIDE DEF rs
  <2>1. QED
    BY <1>3, <1>7, <1>8, <1>10, <1>11 DEF Good, Chained
<1>13. n = 0 => rs = <<>>
  BY <1>7, EmptySeq
<1>14. QED
  BY <1>2, <1>7, <1>9, <1>12, <1>13

LEMMA InitIs ==
  ASSUME Init
  PROVE  \E n \in Nat : log = [lines |-> Before(n), rest |-> None] /\ GoodFile(log) /\ Readable(log) = Before(n)
<1>1. \E n \in Nat : log = [lines |-> Before(n), rest |-> None]
  BY LogAssumption DEF Init
<1>2. QED
  BY <1>1, EarlierIs, PlainFile

LEMMA BaseInit == ASSUME Init PROVE Base
<1>1. GoodFile(log) /\ log \in File /\ Readable(log) \in Seq(Record) /\ HashOfLast(Readable(log)) \in Seq(Content)
      /\ log.lines \in Seq(Record) /\ Readable(log) = log.lines /\ disk = log
  <2>1. GoodFile(log) /\ Readable(log) = log.lines
    BY InitIs
  <2>2. QED
    BY <2>1, FileIs, LastIs DEF Init
<1>2. receipt = HashOfLast(Readable(log)) /\ synced = receipt
  BY <1>1 DEF Init
<1>3. TypeOK
  <2>1. PICK first \in Session :
          /\ mode = [s \in Session |-> IF s = first THEN "down" ELSE "absent"]
          /\ head = [s \in Session |-> IF s = first /\ log.lines # <<>> THEN HashOfLast(log.lines) ELSE None]
    BY DEF Init
  <2>2. mode \in [Session -> Modes] /\ head \in [Session -> Seq(Content) \cup {None}]
        /\ \A s \in Session : mode[s] # "ready"
    BY <1>1, <2>1 DEF Modes
  <2>3. clock \in 0 .. MaxClock
    BY LogAssumption, FileAssumption DEF Init
  <2>4. QED
    BY <1>1, <1>2, <2>2, <2>3 DEF Init, TypeOK
<1>4. FilesOK
  <2>1. Acked(log) /\ IsPrefix(synced, HashOfLast(disk.lines))
    BY <1>1, <1>2, PrefixSelf DEF Acked
  <2>2. \A w \in Writer : base[w] = None
    BY DEF Init
  <2>3. QED
    BY <1>1, <2>1, <2>2 DEF FilesOK
<1>5. ASSUME NEW w \in Writer PROVE Phase(w)
  BY NoneIs DEF Init, Phase, Holding
<1>6. QED
  BY <1>3, <1>4, <1>5 DEF Base

LEMMA BaseNext == ASSUME Base, [Next]_vars PROVE Base'
<1>1. ASSUME NEW s \in Session, SessionStep(s) PROVE Base'
  <2>1. CASE Begin(s) \/ Rejoin(s) \/ Resume(s) \/ StopAtVerify(s)
    BY <2>1, BeginBase, RejoinBase, ResumeBase, StopAtVerifyBase
  <2>2. CASE ResumeUnanchored(s) \/ LogEvent(s) \/ Die(s)
    BY <2>2, ResumeUnanchoredBase, LogEventBase, DieBase
  <2>3. CASE \E t \in Session : Adopt(s, t)
    BY <2>3, AdoptBase
  <2>4. CASE \E w \in Writer : Send(s, w) \/ Receive(s, w)
    BY <2>4, SendBase, ReceiveBase
  <2>5. QED
    BY <1>1, <2>1, <2>2, <2>3, <2>4 DEF SessionStep
<1>2. ASSUME NEW w \in Writer, WriterStep(w) PROVE Base'
  <2>1. CASE GiveUp(w) \/ Refuse(w) \/ Repeat(w) \/ RepeatUnterminated(w)
    BY <2>1, GiveUpBase, RefuseBase, RepeatBase, RepeatUnterminatedBase
  <2>2. CASE Finish(w) \/ Prepare(w) \/ Cut(w) \/ WritePart(w) \/ Write(w)
    BY <2>2, FinishBase, PrepareBase, CutBase, WritingBase
  <2>3. CASE Sync(w) \/ Fail(w) \/ Kill(w)
    BY <2>3, SyncBase, FailBase, KillBase
  <2>4. QED
    BY <1>2, <2>1, <2>2, <2>3 DEF WriterStep
<1>3. CASE UNCHANGED vars
  <2>1. UNCHANGED <<files, sessions, writers, receipts, clock, upsets>>
    BY <1>3 DEF vars
  <2>2. UNCHANGED <<mode, head, pending, saved>>
    BY <2>1 DEF sessions
  <2>3. TypeOK'
    BY <2>1, <2>2 DEF Base, TypeOK, files, writers, receipts
  <2>4. QED
    BY <2>1, <2>3, SessionBase
<1>4. QED
  BY <1>1, <1>2, <1>3, SetClockBase, PowerLossBase DEF Next

-----------------------------------------------------------------------------
(* Calls and the records that were made of them.                           *)

LEMMA RecordsAre ==
  ASSUME NEW f, GoodFile(f)
  PROVE  /\ RecordsOf(f) = {Readable(f)[i] : i \in 1 .. Len(Readable(f))}
         /\ RecordsOf(f) \subseteq Record
<1>1. f.lines \in Seq(Record) /\ Readable(f) \in Seq(Record) /\ f.rest \in Record \cup {None, Torn} /\ Len(f.lines) \in Nat
  BY FileIs, LenProperties
<1>2. ASSUME f.rest \in {None, Torn} PROVE RecordsOf(f) = {Readable(f)[i] : i \in 1 .. Len(Readable(f))}
  BY <1>2, FileIs DEF RecordsOf
<1>3. ASSUME f.rest \notin {None, Torn} PROVE RecordsOf(f) = {Readable(f)[i] : i \in 1 .. Len(Readable(f))}
  <2>1. Readable(f) = Append(f.lines, f.rest) /\ f.rest \in Record
    BY <1>1, <1>3, FileIs
  <2>2. /\ Len(Readable(f)) = Len(f.lines) + 1 /\ Readable(f)[Len(f.lines) + 1] = f.rest
        /\ \A i \in 1 .. Len(f.lines) : Readable(f)[i] = f.lines[i]
    BY <1>1, <2>1, AppendIs
  <2>3. RecordsOf(f) = {f.lines[i] : i \in 1 .. Len(f.lines)} \cup {f.rest}
    BY <1>3 DEF RecordsOf
  <2>4. ASSUME NEW i \in 1 .. Len(Readable(f)) PROVE i = Len(f.lines) + 1 \/ i \in 1 .. Len(f.lines)
    BY <1>1, <2>2
  <2>5. Len(f.lines) + 1 \in 1 .. Len(Readable(f)) /\ \A i \in 1 .. Len(f.lines) : i \in 1 .. Len(Readable(f))
    BY <1>1, <2>2
  <2>6. ASSUME NEW i \in 1 .. Len(Readable(f)) PROVE Readable(f)[i] \in RecordsOf(f)
    BY <2>2, <2>3, <2>4
  <2>7. ASSUME NEW i \in 1 .. Len(f.lines) PROVE f.lines[i] \in {Readable(f)[j] : j \in 1 .. Len(Readable(f))}
    <3>1. i \in 1 .. Len(Readable(f)) /\ Readable(f)[i] = f.lines[i]
      BY <2>2, <2>5
    <3>2. QED
      BY <3>1
  <2>8. f.rest \in {Readable(f)[j] : j \in 1 .. Len(Readable(f))}
    <3>1. Len(f.lines) + 1 \in 1 .. Len(Readable(f)) /\ Readable(f)[Len(f.lines) + 1] = f.rest
      BY <2>2, <2>5
    <3>2. QED
      BY <3>1
  <2> DEFINE S == {Readable(f)[j] : j \in 1 .. Len(Readable(f))}
             L == {f.lines[i] : i \in 1 .. Len(f.lines)}
  <2>9. RecordsOf(f) \subseteq S
    <3>1. L \subseteq S
      BY <2>7
    <3> HIDE DEF S, L
    <3>2. f.rest \in S /\ RecordsOf(f) = L \cup {f.rest}
      BY <2>3, <2>8 DEF S, L
    <3>3. QED
      BY <3>1, <3>2
  <2>10. S \subseteq RecordsOf(f)
    BY <2>6
  <2>11. QED
    BY <2>9, <2>10
<1>4. RecordsOf(f) = {Readable(f)[i] : i \in 1 .. Len(Readable(f))}
  BY <1>2, <1>3
<1>5. \A i \in 1 .. Len(Readable(f)) : Readable(f)[i] \in Record
  BY <1>1, ElementOfSeq
<1>6. QED
  BY <1>4, <1>5

\* One more record.
LEMMA RecordsGrow ==
  ASSUME NEW f, GoodFile(f), NEW rs \in Seq(Record), NEW r \in Record, Readable(f) = Append(rs, r)
  PROVE  \A x \in RecordsOf(f) : x = r \/ \E i \in 1 .. Len(rs) : x = rs[i]
<1>1. ASSUME NEW x \in RecordsOf(f) PROVE x = r \/ \E i \in 1 .. Len(rs) : x = rs[i]
  <2>1. PICK i \in 1 .. Len(Readable(f)) : x = Readable(f)[i]
    BY RecordsAre
  <2>2. Len(Readable(f)) = Len(rs) + 1 /\ Len(rs) \in Nat
    BY AppendIs
  <2>3. i = Len(rs) + 1 \/ i \in 1 .. Len(rs)
    BY <2>1, <2>2
  <2>4. QED
    BY <2>1, <2>3, AppendIs
<1>2. QED
  BY <1>1

LEMMA MadeOfIs ==
  ASSUME NEW l, NEW d, NEW bases, NEW drafts, NEW r
  PROVE  r \in MadeOf(l, d, bases, drafts) <=>
           \/ r \in RecordsOf(l) \/ r \in RecordsOf(d)
           \/ \E w \in Writer : bases[w] # None /\ r \in RecordsOf(bases[w])
           \/ \E w \in Writer : drafts[w] # None /\ r = drafts[w]
<1>1. r \in UNION {RecordsOf(bases[w]) : w \in {v \in Writer : bases[v] # None}}
        <=> \E w \in Writer : bases[w] # None /\ r \in RecordsOf(bases[w])
  <2> HIDE DEF RecordsOf
  <2>1. QED
    OBVIOUS
<1>2. r \in {drafts[w] : w \in {v \in Writer : drafts[v] # None}} <=> \E w \in Writer : drafts[w] # None /\ r = drafts[w]
  OBVIOUS
<1> DEFINE C == UNION {RecordsOf(bases[w]) : w \in {v \in Writer : bases[v] # None}}
           D == {drafts[w] : w \in {v \in Writer : drafts[v] # None}}
<1>3. MadeOf(l, d, bases, drafts) = RecordsOf(l) \cup RecordsOf(d) \cup C \cup D
  BY DEF MadeOf
<1>4. /\ r \in C <=> \E w \in Writer : bases[w] # None /\ r \in RecordsOf(bases[w])
      /\ r \in D <=> \E w \in Writer : drafts[w] # None /\ r = drafts[w]
  BY <1>1, <1>2
<1> HIDE DEF C, D
<1>5. QED
  BY <1>3, <1>4

LEMMA MadeIs ==
  ASSUME NEW r
  PROVE  r \in Made <=> \/ r \in RecordsOf(log) \/ r \in RecordsOf(disk)
                        \/ \E w \in Writer : base[w] # None /\ r \in RecordsOf(base[w])
                        \/ \E w \in Writer : draft[w] # None /\ r = draft[w]
  BY MadeOfIs DEF Made

LEMMA CallsAre ==
  ASSUME NEW c
  PROVE  c \in Calls <=> c # None /\ \/ \E s \in Session : c = pending[s]
                                     \/ \E w \in Writer : c = call[w]
  BY DEF Calls

LEMMA MadeType == ASSUME Base PROVE Made \subseteq Record /\ \A r \in Made : r.id \in Nat
<1>1. ASSUME NEW r \in Made PROVE r \in Record
  <2>1. RecordsOf(log) \subseteq Record /\ RecordsOf(disk) \subseteq Record
    BY LogIs, RecordsAre
  <2>2. ASSUME NEW w \in Writer, base[w] # None PROVE RecordsOf(base[w]) \subseteq Record
    <3>1. GoodFile(base[w])
      BY <2>2 DEF Base, Phase
    <3>2. QED
      BY <3>1, RecordsAre
  <2>3. \A w \in Writer : draft[w] # None => draft[w] \in Record
    BY DEF Base, TypeOK
  <2>4. QED
    BY <2>1, <2>2, <2>3, MadeIs
<1>2. QED
  BY <1>1 DEF Record

LEMMA CallsType == ASSUME Base PROVE Calls \subseteq Call /\ \A c \in Calls : c.id \in 1 .. MaxCalls
<1>1. Calls \subseteq Call
  <2>1. \A s \in Session : pending[s] \in Call \cup {None}
    BY DEF Base, TypeOK
  <2>2. \A w \in Writer : call[w] \in Call \cup {None}
    BY DEF Base, TypeOK
  <2>3. QED
    BY <2>1, <2>2 DEF Calls
<1>2. QED
  BY <1>1 DEF Call

\* What a step adds to the records has the time of the clock, or of a record there is.
Timed == \A r \in Made' : r.ts = clock \/ \E x \in Made : r.ts = x.ts

\* A step that makes no record and no call.
LEMMA Kept ==
  ASSUME Base, Numbered, saved' = saved,
         \A r \in RecordsOf(log)' : r \in Made,
         \A r \in RecordsOf(disk)' : r \in Made,
         \A w \in Writer : base'[w] # None => \A r \in RecordsOf(base'[w]) : r \in Made,
         \A w \in Writer : draft'[w] # None => draft'[w] \in Made,
         \A w \in Writer : call'[w] \in {call[w], None},
         \A w \in Writer : pc'[w] = "locking" => pc[w] = "locking" /\ call'[w] = call[w],
         \A s \in Session : pending'[s] = None \/ \E t \in Session : pending'[s] = pending[t],
         \A s \in Session : mode'[s] = "ready" => mode[s] = "ready" /\ pending'[s] = pending[s]
  PROVE  Numbered' /\ Timed
<1>1. Made' \subseteq Made
  <2>1. ASSUME NEW r \in MadeOf(log', disk', base', draft') PROVE r \in Made
    <3>1. \/ r \in RecordsOf(log') \/ r \in RecordsOf(disk')
          \/ \E w \in Writer : base'[w] # None /\ r \in RecordsOf(base'[w])
          \/ \E w \in Writer : draft'[w] # None /\ r = draft'[w]
      BY <2>1, MadeOfIs
    <3>2. QED
      BY <3>1 DEF RecordsOf
  <2>2. QED
    BY <2>1 DEF Made
<1>2. Calls' \subseteq Calls
  BY DEF Calls
<1>3. ASSUME NEW w \in Writer, pc'[w] = "locking" PROVE call[w] # None
  BY <1>3 DEF Base, Phase
<1>4. ASSUME NEW s \in Session, mode'[s] = "ready" PROVE pending[s] # None
  BY <1>4 DEF Base, TypeOK
<1>5. /\ \A r, t \in Made' : r.id = t.id => r.prev = t.prev
      /\ \A r \in Made' : r.id > MaxCalls \/ r.id <= saved'
      /\ \A c \in Calls' : c.id <= saved'
      /\ \A c, d \in Calls' : c.id = d.id => c = d
      /\ \A r \in Made', c \in Calls' : r.id = c.id /\ c.head # None => r.prev = c.head
  BY <1>1, <1>2 DEF Numbered
<1>6. ASSUME NEW w \in Writer, pc'[w] = "locking", call'[w].head = None
      PROVE  /\ \A r \in Made' : r.id # call'[w].id
             /\ \A v \in Writer \ {w} : call'[v] # call'[w]
  BY <1>1, <1>3, <1>6 DEF Numbered
<1>7. ASSUME NEW s \in Session, mode'[s] = "ready", pending'[s].head = None
      PROVE  /\ \A r \in Made' : r.id # pending'[s].id
             /\ \A w \in Writer : call'[w] # pending'[s]
             /\ \A t \in Session \ {s} : mode'[t] = "ready" => pending'[t] # pending'[s]
  BY <1>1, <1>4, <1>7 DEF Numbered
<1>8. QED
  BY <1>1, <1>5, <1>6, <1>7 DEF Numbered, Timed

\* A step of a session that saves no call.
LEMMA KeptBySession ==
  ASSUME Base, Numbered, UNCHANGED <<log, disk, saved, base, call>>,
         \A w \in Writer : draft'[w] \in {draft[w], None},
         \A w \in Writer : pc'[w] \in {pc[w], "idle"},
         \A s \in Session : pending'[s] = None \/ \E t \in Session : pending'[s] = pending[t],
         \A s \in Session : mode'[s] = "ready" => mode[s] = "ready" /\ pending'[s] = pending[s]
  PROVE  Numbered' /\ Timed
<1>1. /\ \A r \in RecordsOf(log)' : r \in Made
      /\ \A r \in RecordsOf(disk)' : r \in Made
      /\ \A w \in Writer : base'[w] # None => \A r \in RecordsOf(base'[w]) : r \in Made
  BY MadeIs DEF RecordsOf
<1>2. \A w \in Writer : draft'[w] # None => draft'[w] \in Made
  BY MadeIs
<1>3. \A w \in Writer : pc'[w] = "locking" => pc[w] = "locking" /\ call'[w] = call[w]
  OBVIOUS
<1>4. QED
  BY <1>1, <1>2, <1>3, Kept

\* A step of a process that makes no record.
LEMMA KeptByWriter ==
  ASSUME Base, Numbered, NEW w \in Writer, By(w), UNCHANGED <<mode, pending, saved>>,
         \A r \in RecordsOf(log)' : r \in Made,
         disk' = disk \/ disk' = log,
         base'[w] = base[w] \/ base'[w] = None \/ base'[w] = log',
         draft'[w] = draft[w] \/ draft'[w] = None \/ draft'[w] \in Made,
         call'[w] \in {call[w], None}, pc'[w] # "locking"
  PROVE  Numbered' /\ Timed
<1>1. \A r \in RecordsOf(disk)' : r \in Made
  BY MadeIs DEF RecordsOf
<1>2. ASSUME NEW v \in Writer, base'[v] # None, NEW r \in RecordsOf(base'[v]) PROVE r \in Made
  <2>1. base'[v] = base[v] \/ base'[v] = log'
    BY <1>2 DEF By
  <2>2. CASE base'[v] = base[v]
    BY <1>2, <2>2, MadeIs
  <2>3. CASE base'[v] = log'
    <3>1. r \in RecordsOf(log)'
      BY <1>2, <2>3 DEF RecordsOf
    <3>2. QED
      BY <3>1
  <2>4. QED
    BY <2>1, <2>2, <2>3
<1>3. \A v \in Writer : draft'[v] # None => draft'[v] \in Made
  BY MadeIs DEF By
<1>4. \A v \in Writer : call'[v] \in {call[v], None}
  BY DEF By
<1>5. \A v \in Writer : pc'[v] = "locking" => pc[v] = "locking" /\ call'[v] = call[v]
  BY DEF By
<1>6. QED
  BY <1>1, <1>2, <1>3, <1>4, <1>5, Kept

\* A call is saved under a number that no call had.
LEMMA SaveNumbered ==
  ASSUME Base, Numbered, NEW s \in Session, NEW event \in Event, NEW h \in Seq(Content) \cup {None}, Save(s, event, h)
  PROVE  Numbered' /\ Timed
<1> DEFINE c == [id |-> saved + 1, event |-> event, unanchored |-> event = "run_resumed" /\ h = None, head |-> h]
<1>1. /\ saved \in Nat /\ saved + 1 <= MaxCalls /\ MaxCalls \in Nat /\ saved' = saved + 1
      /\ pending' = [pending EXCEPT ![s] = c] /\ mode' = [mode EXCEPT ![s] = "ready"]
      /\ UNCHANGED <<log, disk, base, draft, call, pc>>
  <2>1. saved \in Nat /\ MaxCalls \in Nat
    BY LogAssumption DEF Base, TypeOK
  <2>2. saved < MaxCalls
    BY DEF Save
  <2>3. QED
    BY <2>1, <2>2 DEF Save, files, writers
<1>2. Made' = Made
  BY <1>1 DEF Made
<1>3. /\ pending'[s] = c /\ mode'[s] = "ready" /\ c.id = saved + 1 /\ c.head = h
      /\ \A t \in Session \ {s} : pending'[t] = pending[t] /\ mode'[t] = mode[t]
  BY <1>1 DEF Base, TypeOK
<1> HIDE DEF c
<1>4. ASSUME NEW d \in Calls' PROVE d = c \/ d \in Calls
  <2>1. d # None /\ ((\E t \in Session : d = pending'[t]) \/ (\E w \in Writer : d = call[w]))
    BY <1>1 DEF Calls
  <2>2. QED
    BY <1>3, <2>1, CallsAre
<1>5. \A d \in Calls : d.id \in Nat /\ d.id <= saved
  BY CallsType, LogAssumption DEF Numbered
<1>6. \A r \in Made : r.id \in Nat /\ (r.id > MaxCalls \/ r.id <= saved)
  BY MadeType DEF Numbered
<1>7. \A r \in Made : r.id # c.id /\ (r.id > MaxCalls \/ r.id <= saved')
  BY <1>1, <1>3, <1>6
<1>8. \A d \in Calls : d.id # c.id /\ d # c /\ d.id <= saved'
  BY <1>1, <1>3, <1>5
<1>9. c.id <= saved'
  BY <1>1, <1>3
<1>10. \A d \in Calls' : d.id <= saved'
  BY <1>4, <1>8, <1>9
<1>11. \A d, e \in Calls' : d.id = e.id => d = e
  BY <1>4, <1>8 DEF Numbered
<1>12. \A r \in Made', d \in Calls' : r.id = d.id /\ d.head # None => r.prev = d.head
  BY <1>2, <1>4, <1>7 DEF Numbered
<1>13. ASSUME NEW w \in Writer, pc'[w] = "locking", call'[w].head = None
       PROVE  /\ \A r \in Made' : r.id # call'[w].id
              /\ \A v \in Writer \ {w} : call'[v] # call'[w]
  BY <1>1, <1>2, <1>13 DEF Numbered
<1>14. ASSUME NEW t \in Session, mode'[t] = "ready", pending'[t].head = None
       PROVE  /\ \A r \in Made' : r.id # pending'[t].id
              /\ \A w \in Writer : call'[w] # pending'[t]
              /\ \A u \in Session \ {t} : mode'[u] = "ready" => pending'[u] # pending'[t]
  <2>1. \A u \in Session \ {s} : mode[u] = "ready" => pending[u] \in Calls
    BY CallsAre DEF Base, TypeOK
  <2>2. ASSUME NEW w \in Writer PROVE call[w] \in Calls \/ call[w] = None
    BY CallsAre
  <2>3. c # None
    <3>1. saved + 1 \in 1 .. MaxCalls
      BY <1>1
    <3>2. c \in Call
      BY <3>1 DEF c, Call
    <3>3. QED
      BY <3>2, NoneIs
  <2>4. CASE t = s
    BY <1>1, <1>2, <1>3, <1>7, <1>8, <2>1, <2>2, <2>3, <2>4
  <2>5. CASE t # s
    <3>1. mode[t] = "ready" /\ pending[t].head = None /\ pending'[t] = pending[t] /\ pending[t] # c
      BY <1>3, <1>8, <1>14, <2>1, <2>5
    <3>2. QED
      BY <1>1, <1>2, <1>3, <3>1, <2>5 DEF Numbered
  <2>6. QED
    BY <2>4, <2>5
<1>15. \A r, t \in Made' : r.id = t.id => r.prev = t.prev
  BY <1>2 DEF Numbered
<1>16. \A r \in Made' : r.id > MaxCalls \/ r.id <= saved'
  BY <1>2, <1>7
<1>17. QED
  BY <1>2, <1>10, <1>11, <1>12, <1>13, <1>14, <1>15, <1>16 DEF Numbered, Timed

\* A call without a head is sent once.
LEMMA SendNumbered == ASSUME Base, Numbered, NEW s \in Session, NEW w \in Writer, Send(s, w) PROVE Numbered' /\ Timed
<1>1. /\ By(w) /\ pc[w] = "idle" /\ pc'[w] = "locking" /\ call'[w] = pending[s]
      /\ UNCHANGED <<log, disk, pending, saved, draft, base>>
  BY SendIs
<1>2. Made' = Made
  BY <1>1 DEF Made
<1>3. pending[s] # None /\ (mode[s] = "ready" \/ pending[s].head # None)
  BY DEF Send, Repeatable, Base, TypeOK
<1>4. Calls' \subseteq Calls
  <2>1. \A v \in Writer : call'[v] = call[v] \/ call'[v] = pending[s]
    BY <1>1 DEF By
  <2>2. QED
    BY <1>1, <2>1 DEF Calls
<1>5. \A t \in Session : mode'[t] = "ready" => mode[t] = "ready" /\ t # s
  BY DEF Send, Base, TypeOK
<1>6. /\ \A r, t \in Made' : r.id = t.id => r.prev = t.prev
      /\ \A r \in Made' : r.id > MaxCalls \/ r.id <= saved'
      /\ \A c \in Calls' : c.id <= saved'
      /\ \A c, d \in Calls' : c.id = d.id => c = d
      /\ \A r \in Made', c \in Calls' : r.id = c.id /\ c.head # None => r.prev = c.head
  BY <1>1, <1>2, <1>4 DEF Numbered
<1>7. ASSUME NEW v \in Writer, pc'[v] = "locking", call'[v].head = None
      PROVE  /\ \A r \in Made' : r.id # call'[v].id
             /\ \A u \in Writer \ {v} : call'[u] # call'[v]
  <2>1. CASE v = w
    <3>1. mode[s] = "ready" /\ pending[s].head = None /\ call'[v] = pending[s]
      BY <1>1, <1>3, <1>7, <2>1
    <3>2. \A u \in Writer \ {v} : call'[u] = call[u]
      BY <1>1, <2>1 DEF By
    <3>3. QED
      BY <1>2, <3>1, <3>2 DEF Numbered
  <2>2. CASE v # w
    <3>1. pc[v] = "locking" /\ call'[v] = call[v] /\ call[v].head = None
      BY <1>1, <1>7, <2>2 DEF By
    <3>2. call[v] # pending[s]
      BY <1>3, <3>1 DEF Numbered
    <3>3. \A u \in Writer \ {v} : call'[u] = call[u] \/ call'[u] = pending[s]
      BY <1>1 DEF By
    <3>4. QED
      BY <1>2, <3>1, <3>2, <3>3 DEF Numbered
  <2>3. QED
    BY <2>1, <2>2
<1>8. ASSUME NEW t \in Session, mode'[t] = "ready", pending'[t].head = None
      PROVE  /\ \A r \in Made' : r.id # pending'[t].id
             /\ \A v \in Writer : call'[v] # pending'[t]
             /\ \A u \in Session \ {t} : mode'[u] = "ready" => pending'[u] # pending'[t]
  <2>1. mode[t] = "ready" /\ t # s /\ pending[t].head = None /\ pending' = pending
    BY <1>1, <1>5, <1>8
  <2>2. pending[t] # pending[s]
    BY <1>3, <2>1 DEF Numbered
  <2>3. \A v \in Writer : call'[v] = call[v] \/ call'[v] = pending[s]
    BY <1>1 DEF By
  <2>4. QED
    BY <1>2, <1>5, <2>1, <2>2, <2>3 DEF Numbered
<1>9. QED
  BY <1>2, <1>6, <1>7, <1>8 DEF Numbered, Timed

\* A record is made of a call once, or of the same call after the same record.
LEMMA PrepareNumbered == ASSUME Base, Numbered, NEW w \in Writer, Prepare(w) PROVE Numbered' /\ Timed
<1> DEFINE d == draft'[w]
           c == call[w]
<1>1. /\ By(w) /\ pc[w] = "locking" /\ base'[w] = log /\ c \in Call /\ d \in Record
      /\ pc'[w] # "locking" /\ d.id = c.id /\ d.prev = HashOfLast(Readable(log))
      /\ c.head # None => HashOfLast(Readable(log)) = c.head
      /\ UNCHANGED <<log, disk, mode, pending, saved, call>>
  BY PrepareIs
<1> HIDE DEF d
<1>2. ASSUME NEW r \in Made' PROVE r = d \/ r \in Made
  <2>1. r \in MadeOf(log', disk', base', draft')
    BY DEF Made
  <2>2. \/ r \in RecordsOf(log') \/ r \in RecordsOf(disk')
        \/ \E v \in Writer : base'[v] # None /\ r \in RecordsOf(base'[v])
        \/ \E v \in Writer : draft'[v] # None /\ r = draft'[v]
    BY <2>1, MadeOfIs
  <2>3. CASE r \in RecordsOf(log') \/ r \in RecordsOf(disk')
    BY <1>1, <2>3, MadeIs
  <2>4. ASSUME NEW v \in Writer, base'[v] # None, r \in RecordsOf(base'[v]) PROVE r \in Made
    <3>1. base'[v] = base[v] \/ base'[v] = log
      BY <1>1 DEF By
    <3>2. QED
      BY <2>4, <3>1, MadeIs
  <2>5. ASSUME NEW v \in Writer, draft'[v] # None, r = draft'[v] PROVE r = d \/ r \in Made
    <3>1. v = w \/ draft'[v] = draft[v]
      BY <1>1 DEF By
    <3>2. QED
      BY <2>5, <3>1, MadeIs DEF d
  <2>6. QED
    BY <2>2, <2>3, <2>4, <2>5
<1>3. Calls' = Calls /\ c \in Calls
  <2>1. Calls' = Calls
    BY <1>1 DEF Calls
  <2>2. QED
    BY <1>1, <2>1, CallsAre, NoneIs
<1>4. \A r \in Made : r.id = d.id => r.prev = d.prev
  BY <1>1, <1>3 DEF Numbered
<1>5. d.id <= saved
  BY <1>1, <1>3 DEF Numbered
<1>6. \A e \in Calls : e.id = d.id => e = c
  BY <1>1, <1>3 DEF Numbered
<1>7. \A r, t \in Made' : r.id = t.id => r.prev = t.prev
  BY <1>2, <1>4 DEF Numbered
<1>8. \A r \in Made' : r.id > MaxCalls \/ r.id <= saved'
  BY <1>1, <1>2, <1>5 DEF Numbered
<1>9. \A e \in Calls' : e.id <= saved'
  BY <1>1, <1>3 DEF Numbered
<1>10. \A e, x \in Calls' : e.id = x.id => e = x
  BY <1>3 DEF Numbered
<1>11. \A r \in Made', e \in Calls' : r.id = e.id /\ e.head # None => r.prev = e.head
  <2>1. ASSUME NEW e \in Calls, d.id = e.id, e.head # None PROVE d.prev = e.head
    BY <1>1, <1>6, <2>1
  <2>2. QED
    BY <1>2, <1>3, <2>1 DEF Numbered
<1>12. ASSUME NEW v \in Writer, pc'[v] = "locking", call'[v].head = None
       PROVE  /\ \A r \in Made' : r.id # call'[v].id
              /\ \A u \in Writer \ {v} : call'[u] # call'[v]
  <2>1. v # w /\ pc[v] = "locking" /\ call' = call /\ call[v].head = None
    BY <1>1, <1>12 DEF By
  <2>2. call[w] # call[v] /\ call[v] # None
    BY <2>1 DEF Numbered, Base, Phase
  <2>3. call[v] \in Calls
    BY <2>2, CallsAre
  <2>4. d.id # call[v].id
    BY <1>6, <2>2, <2>3
  <2>5. QED
    BY <1>2, <2>1, <2>4 DEF Numbered
<1>13. ASSUME NEW t \in Session, mode'[t] = "ready", pending'[t].head = None
       PROVE  /\ \A r \in Made' : r.id # pending'[t].id
              /\ \A v \in Writer : call'[v] # pending'[t]
              /\ \A u \in Session \ {t} : mode'[u] = "ready" => pending'[u] # pending'[t]
  <2>1. mode[t] = "ready" /\ pending[t].head = None /\ pending[t] # None
    BY <1>1, <1>13 DEF Base, TypeOK
  <2>2. call[w] # pending[t]
    BY <2>1 DEF Numbered
  <2>3. pending[t] \in Calls
    BY <2>1, CallsAre
  <2>4. d.id # pending[t].id
    BY <1>6, <2>2, <2>3
  <2>5. QED
    BY <1>1, <1>2, <2>1, <2>4 DEF Numbered
<1>14. Timed
  <2>1. d.ts = clock \/ (Readable(log) # <<>> /\ d.ts = Readable(log)[Len(Readable(log))].ts)
    BY PrepareIs DEF d
  <2>2. ASSUME Readable(log) # <<>> PROVE Readable(log)[Len(Readable(log))] \in Made
    <3>1. Len(Readable(log)) \in 1 .. Len(Readable(log))
      BY <2>2, LogIs, LastIs
    <3>2. Readable(log)[Len(Readable(log))] \in RecordsOf(log)
      BY <3>1, LogIs, RecordsAre
    <3>3. QED
      BY <3>2, MadeIs
  <2>3. QED
    BY <1>2, <2>1, <2>2 DEF Timed
<1>15. QED
  BY <1>7, <1>8, <1>9, <1>10, <1>11, <1>12, <1>13, <1>14 DEF Numbered

LEMMA SessionNumbered == ASSUME Base, Numbered, NEW s \in Session, SessionStep(s) PROVE Numbered' /\ Timed
<1>1. CASE Begin(s)
  BY <1>1, SaveNumbered DEF Begin, Event
<1>2. CASE Resume(s)
  BY <1>2, SaveNumbered DEF Resume, Event, Base, TypeOK
<1>3. CASE ResumeUnanchored(s)
  BY <1>3, SaveNumbered DEF ResumeUnanchored, Event
<1>4. CASE LogEvent(s)
  BY <1>4, SaveNumbered DEF LogEvent, Event, Base, TypeOK
<1>5. CASE Rejoin(s) \/ StopAtVerify(s)
  <2>1. /\ UNCHANGED <<log, disk, saved, base, call, draft, pc, pending>>
        /\ \A t \in Session : mode'[t] = "ready" => mode[t] = "ready"
    BY <1>5 DEF Rejoin, StopAtVerify, Base, TypeOK, files, writers
  <2>2. QED
    BY <2>1, KeptBySession
<1>6. CASE Die(s)
  <2>1. /\ UNCHANGED <<log, disk, saved, base, call, draft, pc, pending>>
        /\ \A t \in Session : mode'[t] = "ready" => mode[t] = "ready"
    BY <1>6 DEF Die, Base, TypeOK, files
  <2>2. QED
    BY <2>1, KeptBySession
<1>7. ASSUME NEW t \in Session, Adopt(s, t) PROVE Numbered' /\ Timed
  <2>1. /\ UNCHANGED <<log, disk, saved, base, call, draft, pc>>
        /\ \A u \in Session : pending'[u] = None \/ \E v \in Session : pending'[u] = pending[v]
        /\ \A u \in Session : mode'[u] = "ready" => mode[u] = "ready" /\ pending'[u] = pending[u]
    BY <1>7 DEF Adopt, Base, TypeOK, files, writers
  <2>2. QED
    BY <2>1, KeptBySession
<1>8. ASSUME NEW w \in Writer, Receive(s, w) PROVE Numbered' /\ Timed
  <2>1. /\ UNCHANGED <<log, disk, saved, base, call>>
        /\ pc' = [pc EXCEPT ![w] = "idle"] /\ draft' = [draft EXCEPT ![w] = None]
    BY <1>8 DEF Receive, files
  <2>2. /\ \A v \in Writer : draft'[v] \in {draft[v], None}
        /\ \A v \in Writer : pc'[v] \in {pc[v], "idle"}
    BY <2>1 DEF Base, TypeOK
  <2>3. /\ \A u \in Session : pending'[u] \in {pending[u], None}
        /\ \A u \in Session : mode'[u] = "ready" => mode[u] = "ready" /\ pending'[u] = pending[u]
    <3>1. mode'[s] # "ready" /\ \A u \in Session \ {s} : mode'[u] = mode[u] /\ pending'[u] = pending[u]
      BY <1>8 DEF Receive, AfterReceipt, Base, TypeOK
    <3>2. pending'[s] \in {pending[s], None}
      BY <1>8 DEF Receive, Base, TypeOK
    <3>3. QED
      BY <3>1, <3>2
  <2>4. \A u \in Session : pending'[u] = None \/ \E v \in Session : pending'[u] = pending[v]
    BY <2>3
  <2>5. QED
    BY <2>1, <2>2, <2>3, <2>4, KeptBySession
<1>9. ASSUME NEW w \in Writer, Send(s, w) PROVE Numbered' /\ Timed
  BY <1>9, SendNumbered
<1>10. QED
  BY <1>1, <1>2, <1>3, <1>4, <1>5, <1>6, <1>7, <1>8, <1>9 DEF SessionStep

\* What is in a file was made.
LEMMA LogMade == \A r \in RecordsOf(log) : r \in Made
  BY MadeIs

LEMMA BaseMade == \A w \in Writer : base[w] # None => \A r \in RecordsOf(base[w]) : r \in Made
  BY MadeIs

\* A step that writes the records of file g, or those and w's record.
LEMMA WrittenIsMade ==
  ASSUME Base, NEW w \in Writer, NEW g, GoodFile(g), \A r \in RecordsOf(g) : r \in Made, GoodFile(log'),
         \/ Readable(log') = Readable(g)
         \/ draft[w] \in Record /\ Readable(log') = Append(Readable(g), draft[w])
  PROVE  \A r \in RecordsOf(log)' : r \in Made
<1>1. RecordsOf(g) = {Readable(g)[i] : i \in 1 .. Len(Readable(g))} /\ Readable(g) \in Seq(Record)
  BY RecordsAre, FileIs
<1>2. CASE Readable(log') = Readable(g)
  <2>1. RecordsOf(log') = RecordsOf(g)
    BY <1>1, <1>2, RecordsAre
  <2>2. QED
    BY <2>1 DEF RecordsOf
<1>3. CASE draft[w] \in Record /\ Readable(log') = Append(Readable(g), draft[w])
  <2>1. ASSUME NEW r \in RecordsOf(log') PROVE r \in Made
    <3>1. r = draft[w] \/ \E i \in 1 .. Len(Readable(g)) : r = Readable(g)[i]
      BY <1>1, <1>3, <2>1, RecordsGrow
    <3>2. draft[w] \in Made
      BY <1>3, NoneIs, MadeIs
    <3>3. QED
      BY <1>1, <3>1, <3>2
  <2>2. QED
    BY <2>1 DEF RecordsOf
<1>4. QED
  BY <1>2, <1>3

LEMMA WriterNumbered == ASSUME Base, Numbered, NEW w \in Writer, WriterStep(w) PROVE Numbered' /\ Timed
<1>1. \A r \in RecordsOf(log) : r \in Made
  BY LogMade
<1>2. log' = log => \A r \in RecordsOf(log)' : r \in Made
  BY <1>1 DEF RecordsOf
<1>3. TypeOK
  BY DEF Base
<1>4. CASE GiveUp(w) \/ Refuse(w)
  <2>1. PICK kind \in {"refused", "integrity"} : Return(w, kind, None)
    BY <1>4 DEF GiveUp, Refuse
  <2>2. /\ By(w) /\ draft'[w] = None /\ base'[w] = None /\ call'[w] = None /\ pc'[w] # "locking"
    BY <1>3, <2>1, ReturnIs
  <2>3. UNCHANGED <<log, disk, mode, pending, saved>>
    BY <1>4 DEF GiveUp, Refuse, files, sessions
  <2>4. QED
    BY <1>2, <2>2, <2>3, KeptByWriter
<1>5. CASE Repeat(w)
  <2>1. TailState(log).last \in Record /\ TailState(log).last = Readable(log)[Len(Readable(log))] /\ Readable(log) # <<>>
    BY <1>5, RepeatIs DEF Repeat
  <2>2. TailState(log).last \in Made
    <3>1. Readable(log) \in Seq(Record) /\ Len(Readable(log)) \in 1 .. Len(Readable(log))
      BY <2>1, LogIs, LastIs
    <3>2. TailState(log).last \in RecordsOf(log)
      BY <2>1, <3>1, LogIs, RecordsAre
    <3>3. QED
      BY <1>1, <3>2
  <2>3. Return(w, "receipt", TailState(log).last) /\ UNCHANGED <<log, disk, mode, pending, saved>>
    BY <1>5 DEF Repeat, files, sessions
  <2>4. /\ By(w) /\ draft'[w] \in {TailState(log).last, None} /\ base'[w] = None /\ call'[w] = None /\ pc'[w] # "locking"
    BY <1>3, <2>1, <2>3, ReturnIs
  <2>5. QED
    BY <1>2, <2>2, <2>3, <2>4, KeptByWriter
<1>6. CASE RepeatUnterminated(w)
  <2>1. log.rest \in Made
    <3>1. log.rest \in Record
      BY <1>6, RepeatUnterminatedIs
    <3>2. log.rest \in RecordsOf(log)
      BY <3>1, NoneIs DEF RecordsOf
    <3>3. QED
      BY <1>1, <3>2
  <2>2. By(w) /\ draft'[w] = log.rest /\ pc'[w] # "locking" /\ UNCHANGED <<log, disk, mode, pending, saved, base, call>>
    BY <1>6, RepeatUnterminatedIs
  <2>3. QED
    BY <1>2, <2>1, <2>2, KeptByWriter
<1>7. CASE Finish(w)
  <2>1. log' = [lines |-> Readable(log), rest |-> None] /\ By(w) /\ pc'[w] # "locking"
        /\ UNCHANGED <<disk, mode, pending, saved, base, call, draft>>
    BY <1>7 DEF Finish, By, Base, TypeOK, sessions
  <2>2. GoodFile(log') /\ Readable(log') = Readable(log)
    BY <2>1, LogIs, PlainFile
  <2>3. \A r \in RecordsOf(log)' : r \in Made
    BY <1>1, <2>2, LogIs, WrittenIsMade
  <2>4. QED
    BY <2>1, <2>3, KeptByWriter
<1>8. CASE Prepare(w)
  BY <1>8, PrepareNumbered
<1>9. CASE Cut(w)
  <2>1. /\ By(w) /\ pc'[w] # "locking" /\ GoodFile(log') /\ Readable(log') = Readable(log) /\ base'[w] = log'
        /\ UNCHANGED <<disk, mode, pending, saved, call, draft>>
    BY <1>9, CutIs
  <2>2. \A r \in RecordsOf(log)' : r \in Made
    BY <1>1, <2>1, LogIs, WrittenIsMade
  <2>3. QED
    BY <2>1, <2>2, KeptByWriter
<1>10. CASE WritePart(w) \/ Write(w)
  <2>1. /\ By(w) /\ pc[w] \in Holding /\ base[w] # None /\ GoodFile(log') /\ pc'[w] # "locking"
        /\ Readable(log') = Readable(base[w]) \/ Readable(log') = Append(Readable(base[w]), draft[w])
        /\ UNCHANGED <<disk, mode, pending, saved, call, draft, base>>
    BY <1>10, WritingIs
  <2>2. GoodFile(base[w]) /\ draft[w] \in Record
    BY <2>1, HolderIs
  <2>3. \A r \in RecordsOf(base[w]) : r \in Made
    BY <2>1, BaseMade
  <2>4. \A r \in RecordsOf(log)' : r \in Made
    BY <2>1, <2>2, <2>3, WrittenIsMade
  <2>5. QED
    BY <2>1, <2>4, KeptByWriter
<1>11. CASE Sync(w)
  <2>1. Return(w, "receipt", draft[w]) /\ draft[w] \in Record /\ UNCHANGED <<log, mode, pending, saved>> /\ disk' = log
    BY <1>11, SyncIs
  <2>2. /\ By(w) /\ draft'[w] \in {draft[w], None} /\ base'[w] = None /\ call'[w] = None /\ pc'[w] # "locking"
    BY <1>3, <2>1, ReturnIs
  <2>3. QED
    BY <1>2, <2>1, <2>2, KeptByWriter
<1>12. CASE Fail(w)
  <2>1. Return(w, "refused", None) /\ UNCHANGED <<disk, mode, pending, saved>>
        /\ (log' = log \/ (base[w] # None /\ log' = base[w]))
    BY <1>12, FailIs
  <2>2. /\ By(w) /\ draft'[w] = None /\ base'[w] = None /\ call'[w] = None /\ pc'[w] # "locking"
    BY <1>3, <2>1, ReturnIs
  <2>3. \A r \in RecordsOf(log)' : r \in Made
    <3>1. CASE log' = log
      BY <1>2, <3>1
    <3>2. CASE base[w] # None /\ log' = base[w]
      <4>1. \A r \in RecordsOf(base[w]) : r \in Made
        BY <3>2, BaseMade
      <4>2. QED
        BY <3>2, <4>1 DEF RecordsOf
    <3>3. QED
      BY <2>1, <3>1, <3>2
  <2>4. QED
    BY <2>1, <2>2, <2>3, KeptByWriter
<1>13. CASE Kill(w)
  <2>1. /\ By(w) /\ draft'[w] = None /\ base'[w] = None /\ call'[w] = None /\ pc'[w] = "idle"
        /\ UNCHANGED <<log, disk, pending, saved>>
    BY <1>13, KillIs
  <2>2. \A s \in Session : mode'[s] = "ready" => mode[s] = "ready" /\ pending'[s] = pending[s]
    BY <1>13, <2>1 DEF Kill, Base, TypeOK
  <2>3. \A s \in Session : pending'[s] = None \/ \E t \in Session : pending'[s] = pending[t]
    BY <2>1
  <2>4. /\ \A r \in RecordsOf(log)' : r \in Made
        /\ \A r \in RecordsOf(disk)' : r \in Made
    BY <2>1, MadeIs DEF RecordsOf
  <2>5. /\ \A v \in Writer : base'[v] # None => \A r \in RecordsOf(base'[v]) : r \in Made
        /\ \A v \in Writer : draft'[v] # None => draft'[v] \in Made
        /\ \A v \in Writer : call'[v] \in {call[v], None}
        /\ \A v \in Writer : pc'[v] = "locking" => pc[v] = "locking" /\ call'[v] = call[v]
    BY <2>1, MadeIs DEF By
  <2>6. QED
    BY <2>1, <2>2, <2>3, <2>4, <2>5, Kept
<1>14. QED
  BY <1>4, <1>5, <1>6, <1>7, <1>8, <1>9, <1>10, <1>11, <1>12, <1>13 DEF WriterStep

LEMMA PowerLossNumbered == ASSUME Base, Numbered, PowerLoss PROVE Numbered' /\ Timed
<1>1. \A r \in RecordsOf(log)' : r \in Made
  <2>1. CASE log' \in {log, disk}
    BY <2>1, MadeIs DEF RecordsOf
  <2>2. CASE log'.lines = disk.lines /\ log'.rest = Torn
    BY <2>2, MadeIs DEF RecordsOf
  <2>3. QED
    BY <2>1, <2>2, PowerLossIs
<1>2. \A r \in RecordsOf(disk)' : r \in Made
  BY <1>1, PowerLossIs DEF RecordsOf
<1>3. /\ \A w \in Writer : base'[w] = None /\ draft'[w] = None /\ call'[w] = None /\ pc'[w] = "idle"
      /\ saved' = saved /\ pending' = pending
  BY PowerLossIs
<1>4. \A s \in Session : mode'[s] # "ready"
  BY DEF PowerLoss, Base, TypeOK
<1>5. \A s \in Session : pending'[s] = None \/ \E t \in Session : pending'[s] = pending[t]
  BY <1>3
<1>6. QED
  BY <1>1, <1>2, <1>3, <1>4, <1>5, Kept

LEMMA MadeInit == ASSUME Init PROVE \E n \in Nat : \A r \in Made : \E i \in 1 .. n : r = Before(n)[i]
<1>1. PICK n \in Nat : log = [lines |-> Before(n), rest |-> None]
  BY InitIs
<1>2. ASSUME NEW r \in Made PROVE \E i \in 1 .. n : r = Before(n)[i]
  <2>1. \A w \in Writer : base[w] = None /\ draft[w] = None
    BY DEF Init
  <2>2. r \in RecordsOf(log)
    BY <2>1, MadeIs DEF Init
  <2>3. QED
    BY <1>1, <2>2, EarlierIs DEF RecordsOf
<1>3. QED
  BY <1>2

LEMMA NumberedInit == ASSUME Init PROVE Numbered
<1>1. PICK n \in Nat : \A r \in Made : \E i \in 1 .. n : r = Before(n)[i]
  BY MadeInit
<1>2. ASSUME NEW r \in Made PROVE \E i \in 1 .. n : r = Before(n)[i]
  BY <1>1
<1>3. \A c \in Calls : FALSE
  BY CallsAre DEF Init
<1>4. ASSUME NEW r \in Made, NEW t \in Made, r.id = t.id PROVE r.prev = t.prev
  <2>1. PICK i \in 1 .. n : r = Before(n)[i]
    BY <1>2
  <2>2. PICK j \in 1 .. n : t = Before(n)[j]
    BY <1>2
  <2>3. MaxCalls + i = MaxCalls + j /\ MaxCalls \in Nat
    BY <1>4, <2>1, <2>2, EarlierIs, LogAssumption
  <2>4. i = j
    BY <2>3
  <2>5. QED
    BY <2>1, <2>2, <2>4
<1>5. ASSUME NEW r \in Made PROVE r.id > MaxCalls
  <2>1. PICK i \in 1 .. n : r = Before(n)[i]
    BY <1>2
  <2>2. r.id = MaxCalls + i /\ MaxCalls \in Nat
    BY <2>1, EarlierIs, LogAssumption
  <2>3. QED
    BY <2>2
<1>6. (\A w \in Writer : pc[w] = "idle") /\ \A s \in Session : mode[s] # "ready"
  BY DEF Init
<1>7. QED
  BY <1>3, <1>4, <1>5, <1>6 DEF Numbered

LEMMA NumberedNext == ASSUME Base, Numbered, [Next]_vars PROVE Numbered' /\ Timed
<1>1. CASE SetClock \/ UNCHANGED vars
  <2>1. UNCHANGED <<files, sessions, writers>>
    BY <1>1 DEF SetClock, vars
  <2>2. UNCHANGED <<log, disk, saved, mode, pending, base, call, draft, pc>>
    BY <2>1 DEF files, sessions, writers
  <2>3. QED
    BY <2>2, KeptBySession
<1>2. QED
  BY <1>1, SessionNumbered, WriterNumbered, PowerLossNumbered DEF Next

-----------------------------------------------------------------------------
(* The time of the records.                                                *)

LEMMA DatedIs == ASSUME Base PROVE Made \subseteq Dated
<1>1. ASSUME NEW f, GoodFile(f), NEW r \in RecordsOf(f) PROVE r \in ToSet(Parsed(f))
  <2>1. PICK i \in 1 .. Len(Readable(f)) : r = Readable(f)[i]
    BY <1>1, RecordsAre
  <2>2. QED
    BY <1>1, <2>1, FileIs DEF ToSet
<1>2. ASSUME NEW r \in Made PROVE r \in Dated
  <2>1. CASE r \in RecordsOf(log) \/ r \in RecordsOf(disk)
    BY <1>1, <2>1, LogIs DEF Dated
  <2>2. ASSUME NEW w \in Writer, base[w] # None, r \in RecordsOf(base[w]) PROVE r \in Dated
    <3>1. r \in ToSet(Parsed(base[w]))
      BY <1>1, <2>2 DEF Base, Phase
    <3>2. r \in UNION {ToSet(Parsed(base[v])) : v \in {u \in Writer : base[u] # None}}
      BY <2>2, <3>1
    <3>3. QED
      BY <3>2 DEF Dated
  <2>3. ASSUME NEW w \in Writer, draft[w] # None, r = draft[w] PROVE r \in Dated
    <3>1. r \in Drafted
      BY <2>3 DEF Drafted
    <3>2. QED
      BY <3>1 DEF Dated
  <2>4. QED
    BY <1>2, <2>1, <2>2, <2>3, MadeIs
<1>3. QED
  BY <1>2

LEMMA InTimeInit == ASSUME Init PROVE InTime
<1>1. PICK n \in Nat : \A r \in Made : \E i \in 1 .. n : r = Before(n)[i]
  BY MadeInit
<1>2. \A r \in Made : r.ts = 0
  BY <1>1, EarlierIs
<1>3. clock = 0 /\ Skew \in Nat
  BY FileAssumption DEF Init
<1>4. QED
  BY <1>2, <1>3 DEF InTime

LEMMA InTimeNext == ASSUME Base, Base', InTime, Timed, [Next]_vars PROVE InTime'
<1>1. clock \in Nat /\ clock' \in Nat /\ Skew \in Nat
  <2>1. clock \in 0 .. MaxClock /\ clock' \in 0 .. MaxClock
    BY DEF Base, TypeOK
  <2>2. QED
    BY <2>1, LogAssumption, FileAssumption
<1>2. \A r \in Made : r.ts \in Nat
  BY MadeType DEF Record
<1>3. CASE SetClock
  <2>1. Made' = Made
    BY <1>3 DEF SetClock, Made, files, writers
  <2>2. ASSUME "clock" \notin upsets', NEW r \in Made PROVE r.ts <= clock' + Skew
    <3>1. ~Behind(clock')
      BY <1>3, <2>2 DEF SetClock
    <3>2. ~(r.ts > clock' + Skew)
      BY <3>1, DatedIs DEF Behind
    <3>3. QED
      BY <1>1, <1>2, <3>2
  <2>3. QED
    BY <2>1, <2>2 DEF InTime
<1>4. CASE ~SetClock
  <2>1. clock' = clock
    BY <1>4 DEF Next, SessionStep, WriterStep, vars, Begin, Rejoin, Resume, StopAtVerify, ResumeUnanchored, LogEvent, Save,
                Die, Adopt, Send, Receive, GiveUp, Refuse, Repeat, RepeatUnterminated, Finish, Prepare, Cut, WritePart,
                Write, Sync, Fail, Kill, PowerLoss
  <2>2. upsets \subseteq upsets'
    BY <1>4 DEF Next, SessionStep, WriterStep, vars, Begin, Rejoin, Resume, StopAtVerify, ResumeUnanchored, LogEvent, Save,
                Die, Adopt, Send, Receive, GiveUp, Refuse, Repeat, RepeatUnterminated, Finish, Prepare, Cut, WritePart,
                Write, Sync, Fail, Kill, PowerLoss
  <2>3. ASSUME "clock" \notin upsets', NEW r \in Made' PROVE r.ts <= clock' + Skew
    <3>1. \A x \in Made : x.ts <= clock + Skew
      BY <2>2, <2>3 DEF InTime
    <3>2. r.ts = clock \/ \E x \in Made : r.ts = x.ts
      BY <2>3 DEF Timed
    <3>3. QED
      BY <1>1, <2>1, <3>1, <3>2
  <2>4. QED
    BY <2>3 DEF InTime
<1>5. QED
  BY <1>3, <1>4

-----------------------------------------------------------------------------
(* One session whose log nothing upset.                                    *)

\* A process that appends what its call asks for leaves the log where the
\* session expects it.
LEMMA PlacedAppend ==
  ASSUME NEW rs \in Seq(Record), NEW r \in Record, NEW h, NEW c,
         \/ rs = <<>> /\ h = None /\ Headless(c)
         \/ c # None /\ c.head # None /\ r.prev = h /\ r.event = c.event /\ r.unanchored = c.unanchored
  PROVE  Placed(Append(rs, r), h, c)
<1>1. /\ Append(rs, r) # <<>> /\ Append(rs, r)[Len(Append(rs, r))] = r /\ (rs = <<>> => Len(Append(rs, r)) = 1)
  BY AppendIs, EmptySeq
<1>2. QED
  BY <1>1 DEF Placed, Headless

\* The file a process has to restore is within the log.
LEMMA BaseWithin ==
  ASSUME Base, NEW w \in Writer, base[w] # None, NEW i \in 1 .. Len(Readable(base[w]))
  PROVE  i \in 1 .. Len(Readable(log)) /\ Readable(log)[i] = Readable(base[w])[i]
<1> DEFINE rs == Readable(base[w])
<1>1. pc[w] \in Holding /\ pc[w] # "finishing" /\ GoodFile(base[w]) /\ rs \in Seq(Record)
  BY FileIs DEF Base, Phase
<1>2. CASE pc[w] \in {"cutting", "writing"}
  BY <1>2 DEF Base, Phase
<1>3. CASE pc[w] = "torn"
  <2>1. log.lines = rs
    BY <1>3 DEF Base, Phase
  <2>2. CASE log.rest \in {None, Torn}
    BY <2>1, <2>2, LogIs, FileIs
  <2>3. CASE log.rest \notin {None, Torn}
    <3>1. Readable(log) = Append(rs, log.rest) /\ log.rest \in Record
      BY <2>1, <2>3, LogIs, FileIs
    <3>2. QED
      BY <1>1, <3>1, AppendIs
  <2>4. QED
    BY <2>2, <2>3
<1>4. CASE pc[w] = "syncing"
  <2>1. log.rest = None /\ log.lines = Append(rs, draft[w]) /\ draft[w] \in Record
    BY <1>1, <1>4, HolderIs DEF Base, Phase
  <2>2. Readable(log) = Append(rs, draft[w])
    BY <2>1, LogIs, FileIs
  <2>3. QED
    BY <1>1, <2>1, <2>2, AppendIs
<1>5. QED
  BY <1>1, <1>2, <1>3, <1>4 DEF Holding

\* The session that is not absent, and what Alone says of it.
LEMMA AloneIs ==
  ASSUME Alone, NEW s \in Session, mode[s] # "absent"
  PROVE  Sane /\ Owns(s) /\ (\A w \in Writer : Serves(s, w)) /\ \A t \in Session \ {s} : mode[t] = "absent"
  BY DEF Alone

\* A step of that session.
LEMMA SessionAlone ==
  ASSUME Base, Alone, NEW s \in Session, mode[s] # "absent",
         \A t \in Session \ {s} : mode'[t] = mode[t],
         Sane', Owns(s)', \A w \in Writer : Serves(s, w)'
  PROVE  Alone'
<1>1. \A t \in Session \ {s} : mode'[t] = "absent"
  BY AloneIs
<1>2. ASSUME NEW t \in Session, mode'[t] = "absent", NEW w \in Writer PROVE owner'[w] # t
  <2>1. Serves(s, w)'
    OBVIOUS
  <2>2. owner'[w] \in {None, s} /\ (owner'[w] = s => mode'[s] # "absent")
    BY <2>1 DEF Serves
  <2>3. QED
    BY <1>2, <2>2, NoneIs
<1>3. \A t, u \in Session : mode'[t] # "absent" /\ mode'[u] # "absent" => t = u
  BY <1>1
<1>4. \A t \in Session : mode'[t] # "absent" => t = s
  BY <1>1
<1>5. QED
  BY <1>2, <1>3, <1>4 DEF Alone

\* A step of a process.
LEMMA ProcessAlone ==
  ASSUME Base, Alone, NEW w \in Writer, By(w), UNCHANGED <<mode, head, pending, owner>>, Sane',
         \A s \in Session : mode[s] # "absent" =>
           /\ Placed(Readable(log'), head[s], pending[s])
           /\ Serves(s, w)'
           /\ \/ HashOfLast(Readable(log')) = HashOfLast(Readable(log)) /\ base'[w] = None
              \/ \A v \in Writer \ {w} : ~(pc[v] = "answering" /\ owner[v] = s /\ answer[v] = "receipt")
  PROVE  Alone'
<1>1. ASSUME NEW s \in Session, mode[s] # "absent", NEW v \in Writer \ {w} PROVE Serves(s, v)'
  <2>1. /\ pc'[v] = pc[v] /\ owner'[v] = owner[v] /\ call'[v] = call[v] /\ draft'[v] = draft[v] /\ base'[v] = base[v]
        /\ answer'[v] = answer[v]
    BY DEF By
  <2>2. Serves(s, v)
    BY <1>1, AloneIs
  <2>3. pc[v] = "answering" /\ owner[v] = s /\ answer[v] = "receipt" =>
          /\ HashOfLast(Readable(log')) = Hash(draft[v])
          /\ \A u \in Writer : base'[u] = None
          /\ pending[s].head # None => draft[v].prev = pending[s].head
    <3>1. ASSUME pc[v] = "answering", owner[v] = s, answer[v] = "receipt"
          PROVE  HashOfLast(Readable(log)) = Hash(draft[v]) /\ (\A u \in Writer : base[u] = None)
                 /\ (pending[s].head # None => draft[v].prev = pending[s].head)
      BY <2>2, <3>1 DEF Serves
    <3>2. \A u \in Writer \ {w} : base'[u] = base[u]
      BY DEF By
    <3>3. QED
      BY <1>1, <3>1, <3>2
  <2>4. QED
    BY <2>1, <2>2, <2>3 DEF Serves
<1>2. ASSUME NEW s \in Session, mode[s] # "absent" PROVE Owns(s)' /\ \A v \in Writer : Serves(s, v)'
  <2>1. Owns(s)
    BY <1>2, AloneIs
  <2>2. Owns(s)'
    BY <1>2, <2>1 DEF Owns
  <2>3. QED
    BY <1>1, <1>2, <2>2
<1>3. QED
  BY <1>2 DEF Alone

\* With the lock free no process has a file to restore.
LEMMA FreeIs == ASSUME Base, lock = None PROVE \A w \in Writer : base[w] = None /\ pc[w] \notin Holding
  BY NoneIs DEF Base, Phase

\* The skew is less than what passes for a forged timestamp.
LEMMA SaneIs ==
  ASSUME Base, Sane
  PROVE  \A i \in 1 .. Len(Readable(log)) : Readable(log)[i].ts <= clock + Forged
<1>1. ASSUME NEW i \in 1 .. Len(Readable(log)) PROVE Readable(log)[i].ts <= clock + Forged
  <2>1. Readable(log)[i].ts <= clock + Skew
    BY DEF Sane
  <2>2. Readable(log)[i] \in Record
    BY LogIs, ElementOfSeq
  <2>3. Skew \in Nat /\ Forged \in Nat /\ Skew <= Forged /\ MaxClock \in Nat
    BY LogAssumption, FileAssumption
  <2>4. Readable(log)[i].ts \in Nat /\ clock \in 0 .. MaxClock
    BY <2>2 DEF Record, Base, TypeOK
  <2>5. QED
    BY <2>1, <2>3, <2>4
<1>2. QED
  BY <1>1

LEMMA SameSane == ASSUME Base, Sane, UNCHANGED <<log, clock>>, \A w \in Writer : draft'[w] \in {draft[w], None}
                  PROVE Sane'
  BY DEF Sane

\* A session that saves a call, and holds none of an unknown outcome.
LEMMA SaveAlone ==
  ASSUME Base, Alone, NEW s \in Session, mode[s] \in {"down", "up"}, ~Repeatable(s),
         \A w \in Writer : base[w] = None, NEW event \in Event, Save(s, event, head[s]),
         head[s] = None => event = "run_started" /\ Readable(log) = <<>>
  PROVE  Alone'
<1> DEFINE c == [id |-> saved + 1, event |-> event, unanchored |-> event = "run_resumed" /\ head[s] = None, head |-> head[s]]
<1>1. /\ pending' = [pending EXCEPT ![s] = c] /\ mode' = [mode EXCEPT ![s] = "ready"]
      /\ UNCHANGED <<log, disk, lock, clock, pc, owner, call, draft, base, answer, head>>
  BY DEF Save, files, writers
<1>2. c.event = event /\ ~c.unanchored /\ c.head = head[s]
  OBVIOUS
<1>3. c # None
  <2>1. pending'[s] = c /\ mode'[s] = "ready"
    BY <1>1 DEF Base, TypeOK
  <2>2. TypeOK'
    BY SaveType DEF Base, TypeOK
  <2>3. QED
    BY <2>1, <2>2 DEF TypeOK
<1> HIDE DEF c
<1>4. Sane /\ Owns(s) /\ (\A w \in Writer : Serves(s, w)) /\ mode[s] # "absent"
  BY AloneIs
<1>5. pending'[s] = c /\ mode'[s] = "ready" /\ \A t \in Session \ {s} : mode'[t] = mode[t]
  BY <1>1 DEF Base, TypeOK
<1>6. pending[s] = None \/ Headless(pending[s])
  BY DEF Repeatable, Headless
<1>7. Placed(Readable(log), head[s], c)
  <2>1. CASE head[s] = None
    <3>1. Readable(log) = <<>> /\ Len(Readable(log)) = 0
      BY <2>1, EmptySeq
    <3>2. QED
      BY <1>2, <1>3, <2>1, <3>1 DEF Placed, Headless
  <2>2. CASE head[s] # None
    <3>1. HashOfLast(Readable(log)) = head[s]
      BY <1>4, <1>6, <2>2 DEF Owns, Placed
    <3>2. QED
      BY <1>2, <1>3, <2>2, <3>1 DEF Placed, Headless
  <2>3. QED
    BY <2>1, <2>2
<1>8. Owns(s)'
  <2>1. Plain(c) /\ c.head \in {None, head[s]}
    BY <1>2 DEF Plain
  <2>2. QED
    BY <1>1, <1>3, <1>4, <1>5, <1>7, <2>1 DEF Owns
<1>9. ASSUME NEW w \in Writer PROVE Serves(s, w)'
  <2>1. Serves(s, w) /\ owner[w] = None /\ base[w] = None
    BY <1>4 DEF Serves
  <2>2. call[w] # None /\ call[w].head # None => head[s] # None /\ Len(call[w].head) < Len(head[s])
    BY <1>6, <2>1 DEF Serves, Headless
  <2>3. call[w] # None => Plain(call[w])
    BY <2>1 DEF Serves
  <2>4. QED
    BY <1>1, <1>3, <1>5, <2>1, <2>2, <2>3, NoneIs DEF Serves
<1>10. Sane'
  BY <1>1, <1>4, SameSane
<1>11. QED
  BY <1>4, <1>5, <1>8, <1>9, <1>10, SessionAlone

LEMMA BeginAlone == ASSUME Base, Alone, NEW s \in Session, Begin(s) PROVE Alone'
<1>1. mode[s] = "down" /\ ~Repeatable(s) /\ lock = None /\ head[s] = None /\ Records = <<>> /\ Save(s, "run_started", head[s])
  BY DEF Begin, Verifies, NewRun
<1>2. Readable(log) = <<>>
  BY <1>1, LogIs DEF Records
<1>3. QED
  BY <1>1, <1>2, FreeIs, SaveAlone DEF Event

LEMMA ResumeAlone == ASSUME Base, Alone, NEW s \in Session, Resume(s) PROVE Alone'
<1>1. mode[s] = "down" /\ ~Repeatable(s) /\ lock = None /\ head[s] # None /\ Save(s, "run_resumed", head[s])
  BY DEF Resume, Verifies
<1>2. QED
  BY <1>1, FreeIs, SaveAlone DEF Event

LEMMA LogEventAlone == ASSUME Base, Alone, NEW s \in Session, LogEvent(s) PROVE Alone'
<1>1. mode[s] = "up" /\ Owns(s) /\ \A w \in Writer : Serves(s, w)
  BY AloneIs DEF LogEvent
<1>2. head[s] # None /\ (pending[s] = None \/ Headless(pending[s]))
  BY <1>1 DEF Owns
<1>3. ASSUME NEW w \in Writer PROVE base[w] = None
  <2>1. Serves(s, w)
    BY <1>1
  <2>2. base[w] # None => call[w] # None /\ call[w] \in Call
    BY HolderIs, NoneIs DEF Base, Phase
  <2>3. QED
    BY <1>2, <2>1, <2>2 DEF Serves, Headless
<1>4. ~Repeatable(s)
  BY <1>2 DEF Repeatable, Headless
<1>5. PICK event \in {"task_selected", "run_completed"} : Save(s, event, head[s])
  BY DEF LogEvent
<1>6. QED
  BY <1>1, <1>2, <1>3, <1>4, <1>5, SaveAlone DEF Event

LEMMA RejoinAlone == ASSUME Base, Alone, NEW s \in Session, Rejoin(s) PROVE Alone'
<1> DEFINE h == HashOfLast(Readable(log))
<1>1. mode[s] = "down" /\ ~Repeatable(s) /\ lock = None /\ Accepted(s) /\ OnlyStarted
  BY DEF Rejoin, Verifies
<1>2. head' = [head EXCEPT ![s] = h] /\ mode' = [mode EXCEPT ![s] = "up"]
      /\ UNCHANGED <<log, disk, lock, clock, pc, owner, call, draft, base, answer, pending>>
  BY LogIs DEF Rejoin, Records, files, writers
<1>3. head'[s] = h /\ mode'[s] = "up" /\ \A t \in Session \ {s} : mode'[t] = mode[t]
  BY <1>2 DEF Base, TypeOK
<1>4. h \in Seq(Content) /\ h # <<>> /\ h # None
  <2>1. Readable(log) \in Seq(Record) /\ Len(Readable(log)) = 1
    BY <1>1, LogIs DEF OnlyStarted, Records
  <2>2. Readable(log) # <<>>
    BY <2>1, LastIs
  <2>3. QED
    BY <2>1, <2>2, LastIs, NoneIs
<1>5. head[s] # None => head[s] = h
  BY <1>1, LogIs DEF Accepted, Records
<1> HIDE DEF h
<1>6. Sane /\ Owns(s) /\ (\A w \in Writer : Serves(s, w)) /\ mode[s] # "absent"
  BY <1>1, AloneIs
<1>7. pending[s] = None \/ Headless(pending[s])
  BY <1>1 DEF Repeatable, Headless
<1>8. Placed(Readable(log), h, pending[s])
  BY <1>4, <1>7 DEF Placed, Headless, h
<1>9. Owns(s)'
  <2>1. pending[s] # None => Plain(pending[s]) /\ pending[s].head \in {None, h}
    BY <1>6, <1>7 DEF Owns, Headless
  <2>2. QED
    BY <1>2, <1>3, <1>4, <1>7, <1>8, <2>1 DEF Owns, Headless
<1>10. ASSUME NEW w \in Writer PROVE Serves(s, w)'
  <2>1. Serves(s, w) /\ owner[w] = None /\ base[w] = None
    BY <1>1, <1>6, FreeIs DEF Serves
  <2>2. call[w] # None => Plain(call[w])
    BY <2>1 DEF Serves
  <2>3. call[w] # None /\ call[w].head # None => call[w] = pending[s] \/ Len(call[w].head) < Len(h)
    BY <1>5, <2>1 DEF Serves
  <2>4. QED
    BY <1>2, <1>3, <1>4, <2>1, <2>2, <2>3, NoneIs DEF Serves
<1>11. Sane'
  BY <1>2, <1>6, SameSane
<1>12. QED
  BY <1>3, <1>6, <1>9, <1>10, <1>11, SessionAlone

\* A session that is alone finds its own log.
LEMMA NeverStops == ASSUME Base, Alone, NEW s \in Session, StopAtVerify(s) PROVE FALSE
<1> DEFINE rs == Readable(log)
           h  == head[s]
<1>1. mode[s] = "down" /\ ~Repeatable(s) /\ ~NewRun(s) /\ ~(Accepted(s) /\ (OnlyStarted \/ h # None))
  BY DEF StopAtVerify, Verifies
<1>2. Owns(s)
  BY <1>1, AloneIs
<1>3. GoodFile(log) /\ rs \in Seq(Record) /\ Good(rs) /\ Parsed(log) = rs /\ clock \in Nat
  <2>1. clock \in 0 .. MaxClock
    BY DEF Base, TypeOK
  <2>2. QED
    BY <2>1, LogIs
<1>4. Chained(Parsed(log), clock)
  <2>1. \A i \in 1 .. Len(rs) : rs[i].ts <= clock + Forged
    BY <1>1, AloneIs, SaneIs
  <2>2. QED
    BY <1>3, <2>1, GoodInTime
<1>5. ~(log.rest = None /\ log.lines = <<>>) => Verdict(log, clock) \in {"ok", "recoverable"}
  BY <1>4 DEF Verdict
<1>6. rs # <<>> => Verdict(log, clock) \in {"ok", "recoverable"}
  <2>1. log.rest = None => rs = log.lines
    BY <1>3, FileIs
  <2>2. QED
    BY <1>5, <2>1
<1>7. pending[s] = None \/ Headless(pending[s])
  BY <1>1 DEF Repeatable, Headless
<1>8. CASE h # None
  <2>1. HashOfLast(rs) = h /\ h # <<>>
    BY <1>2, <1>7, <1>8 DEF Owns, Placed
  <2>2. rs # <<>>
    BY <1>3, <2>1, LastIs
  <2>3. Accepted(s)
    BY <1>3, <1>6, <2>1, <2>2 DEF Accepted, Records
  <2>4. QED
    BY <1>1, <1>8, <2>3
<1>9. CASE h = None
  <2>1. rs # <<>>
    BY <1>1, <1>3, <1>9 DEF NewRun, Records
  <2>2. Len(rs) <= 1
    BY <1>2, <1>7, <1>9, <2>1 DEF Owns, Placed
  <2>3. Len(rs) = 1
    <3>1. Len(rs) \in 1 .. Len(rs) /\ Len(rs) \in Nat
      BY <1>3, <2>1, LastIs, LenProperties
    <3>2. QED
      BY <2>2, <3>1
  <2>4. rs[1].event = "run_started"
    <3>1. Follows(1, rs[1].event, CompletedBefore(rs, 1))
      BY <1>3, <2>3 DEF Good, Chained
    <3>2. QED
      BY <3>1 DEF Follows
  <2>5. OnlyStarted
    BY <1>3, <2>3, <2>4 DEF OnlyStarted, Records
  <2>6. Accepted(s)
    BY <1>6, <1>9, <2>1 DEF Accepted
  <2>7. QED
    BY <1>1, <2>5, <2>6
<1>10. QED
  BY <1>8, <1>9

LEMMA SendAlone == ASSUME Base, Alone, NEW s \in Session, NEW w \in Writer, Send(s, w) PROVE Alone'
<1>1. /\ By(w) /\ pc[w] = "idle" /\ pc'[w] = "locking" /\ owner'[w] = s /\ call'[w] = pending[s]
      /\ draft'[w] = draft[w] /\ base'[w] = base[w]
      /\ UNCHANGED <<log, disk, lock, clock, head, pending, saved, draft, base, answer>>
  BY SendIs
<1>2. mode[s] # "absent" /\ mode[s] \in {"ready", "down"}
  BY DEF Send
<1>3. /\ mode'[s] \in {"waiting", "repeating"} /\ (mode'[s] = "repeating" => pending[s].head # None)
      /\ \A t \in Session \ {s} : mode'[t] = mode[t]
  BY DEF Send, Repeatable, Base, TypeOK
<1>4. Sane /\ Owns(s) /\ \A v \in Writer : Serves(s, v)
  BY <1>2, AloneIs
<1>5. pending[s] # None
  BY <1>4 DEF Send, Repeatable, Owns
<1>6. Owns(s)'
  BY <1>1, <1>3, <1>4, <1>5 DEF Owns
<1>7. \A v \in Writer : owner[v] # s
  BY <1>2, <1>4 DEF Serves
<1>8. ASSUME NEW v \in Writer \ {w} PROVE Serves(s, v)'
  <2>1. Serves(s, v) /\ owner[v] # s /\ owner'[v] = owner[v] /\ call'[v] = call[v] /\ pc'[v] = pc[v]
    BY <1>1, <1>4, <1>7 DEF By
  <2>2. QED
    BY <1>1, <2>1 DEF Serves
<1>9. Serves(s, w)'
  <2>1. base[w] = None
    BY <1>1 DEF Base, Phase, Holding
  <2>2. Plain(pending[s]) /\ (pending[s].head # None => head[s] # None)
    BY <1>4, <1>5 DEF Owns
  <2>3. \A v \in Writer \ {w} : owner'[v] # s
    BY <1>1, <1>7 DEF By
  <2>4. QED
    BY <1>1, <1>3, <1>5, <2>1, <2>2, <2>3 DEF Serves
<1>10. Sane'
  BY <1>1, <1>4, SameSane
<1>11. QED
  BY <1>2, <1>3, <1>4, <1>6, <1>8, <1>9, <1>10, SessionAlone

LEMMA DieAlone == ASSUME Base, Alone, NEW s \in Session, Die(s) PROVE Alone'
<1>1. /\ mode[s] # "absent" /\ mode'[s] = "down" /\ \A t \in Session \ {s} : mode'[t] = mode[t]
      /\ \A w \in Writer : owner'[w] = (IF owner[w] = s THEN None ELSE owner[w])
      /\ UNCHANGED <<log, clock, head, pending, pc, call, draft, base, answer>>
  BY DEF Die, Base, TypeOK, files
<1>2. Sane /\ Owns(s) /\ \A w \in Writer : Serves(s, w)
  BY <1>1, AloneIs
<1>3. Owns(s)'
  BY <1>1, <1>2 DEF Owns
<1>4. ASSUME NEW w \in Writer PROVE Serves(s, w)'
  <2>1. Serves(s, w) /\ owner'[w] = None
    BY <1>1, <1>2 DEF Serves
  <2>2. QED
    BY <1>1, <2>1, NoneIs DEF Serves
<1>5. Sane'
  BY <1>1, <1>2, SameSane
<1>6. QED
  BY <1>1, <1>2, <1>3, <1>4, <1>5, SessionAlone

LEMMA ReceiveAlone == ASSUME Base, Alone, NEW s \in Session, NEW w \in Writer, Receive(s, w) PROVE Alone'
<1>1. /\ pc[w] = "answering" /\ owner[w] = s
      /\ pc'[w] = "idle" /\ owner'[w] = None /\ draft'[w] = None /\ By(w)
      /\ UNCHANGED <<log, clock, call, base>>
  BY DEF Receive, Base, TypeOK, By, files
<1>2. mode[s] # "absent"
  BY <1>1 DEF Alone
<1>3. Sane /\ Owns(s) /\ \A v \in Writer : Serves(s, v)
  BY <1>2, AloneIs
<1>4. /\ mode[s] \in {"waiting", "repeating"} /\ pending[s] # None /\ answer[w] # "integrity"
      /\ \A v \in Writer \ {w} : owner[v] # s
  BY <1>1, <1>3 DEF Serves, Owns
<1>5. \A t \in Session \ {s} : mode'[t] = mode[t]
  BY DEF Receive, Base, TypeOK
<1>6. \A v \in Writer : owner'[v] = None
  <2>1. \A v \in Writer \ {w} : owner'[v] = owner[v] /\ owner[v] \in {None, s}
    BY <1>1, <1>3 DEF By, Serves
  <2>2. QED
    BY <1>1, <1>4, <2>1
<1>7. Sane'
  <2>1. \A v \in Writer : draft'[v] \in {draft[v], None}
    BY <1>1 DEF By
  <2>2. QED
    BY <1>1, <1>3, <2>1, SameSane
<1>8. CASE answer[w] = "receipt"
  <2> DEFINE h == Hash(draft[w])
  <2>1. draft[w] \in Record
    BY <1>1, <1>8 DEF Base, Phase, TypeOK
  <2>2. /\ head' = [head EXCEPT ![s] = h] /\ pending' = [pending EXCEPT ![s] = None]
        /\ mode' = [mode EXCEPT ![s] = AfterReceipt(s)]
    BY <1>8 DEF Receive
  <2>3. head'[s] = h /\ pending'[s] = None /\ mode'[s] \in {"down", "up"}
    BY <2>2 DEF AfterReceipt, Base, TypeOK
  <2>4. h \in Seq(Content) /\ h # <<>> /\ h # None /\ Len(h) = Len(draft[w].prev) + 1 /\ Len(draft[w].prev) \in Nat
        /\ Len(h) \in Nat
    BY <2>1, HashIs, NoneIs, LenProperties
  <2>5. /\ HashOfLast(Readable(log)) = h /\ \A v \in Writer : base[v] = None
        /\ pending[s].head # None => draft[w].prev = pending[s].head
    BY <1>1, <1>3, <1>8 DEF Serves
  <2> HIDE DEF h
  <2>6. Owns(s)'
    <3>1. Placed(Readable(log), h, None)
      BY <2>4, <2>5 DEF Placed, Headless
    <3>2. QED
      BY <1>1, <2>3, <2>4, <3>1 DEF Owns
  <2>7. head[s] # None => head[s] \in Seq(Content) /\ Len(head[s]) \in Nat /\ Len(head[s]) <= Len(h)
    <3>1. ASSUME head[s] # None PROVE head[s] \in Seq(Content) /\ Len(head[s]) \in Nat
      BY <3>1, LenProperties DEF Base, TypeOK
    <3>2. CASE pending[s].head # None
      <4>1. pending[s].head = head[s]
        BY <1>3, <1>4, <3>2 DEF Owns
      <4>2. QED
        BY <2>4, <2>5, <3>1, <3>2, <4>1
    <3>3. CASE pending[s].head = None
      <4>1. head[s] # None => head[s] = h
        BY <1>3, <1>4, <2>5, <3>3 DEF Owns, Placed, Headless
      <4>2. QED
        BY <2>4, <3>1, <4>1
    <3>4. QED
      BY <3>2, <3>3
  <2>8. ASSUME NEW v \in Writer PROVE Serves(s, v)'
    <3>1. Serves(s, v) /\ base[v] = None /\ owner'[v] = None
      BY <1>3, <1>6, <2>5
    <3>2. call[v] # None => Plain(call[v]) /\ call[v] \in Call
      BY <3>1 DEF Serves, Base, TypeOK
    <3>3. ASSUME call[v] # None, call[v].head # None PROVE Len(call[v].head) < Len(h)
      <4>1. head[s] # None /\ (call[v] = pending[s] \/ Len(call[v].head) < Len(head[s]))
        BY <3>1, <3>3 DEF Serves
      <4>2. Len(call[v].head) \in Nat
        <5>1. call[v].head \in Seq(Content)
          BY <3>2, <3>3 DEF Call
        <5>2. QED
          BY <5>1, LenProperties
      <4>3. CASE call[v] = pending[s]
        BY <2>4, <2>5, <3>3, <4>2, <4>3
      <4>4. CASE Len(call[v].head) < Len(head[s])
        BY <2>4, <2>7, <4>1, <4>2, <4>4
      <4>5. QED
        BY <4>1, <4>3, <4>4
    <3>4. QED
      BY <1>1, <2>3, <2>4, <3>1, <3>2, <3>3, NoneIs DEF Serves
  <2>9. QED
    BY <1>2, <1>5, <1>7, <2>6, <2>8, SessionAlone
<1>9. CASE answer[w] = "refused"
  <2>1. mode' = [mode EXCEPT ![s] = "down"] /\ UNCHANGED <<head, pending>>
    BY <1>9 DEF Receive
  <2>2. mode'[s] = "down"
    BY <2>1 DEF Base, TypeOK
  <2>3. Owns(s)'
    BY <1>1, <1>3, <2>1, <2>2 DEF Owns
  <2>4. ASSUME NEW v \in Writer PROVE Serves(s, v)'
    <3>1. Serves(s, v) /\ owner'[v] = None
      BY <1>3, <1>6
    <3>2. QED
      BY <1>1, <2>1, <3>1, NoneIs DEF Serves
  <2>5. QED
    BY <1>2, <1>5, <1>7, <2>3, <2>4, SessionAlone
<1>10. QED
  BY <1>4, <1>8, <1>9 DEF Receive

\* No answer is a receipt while a process has a file to restore.
LEMMA NoReceipt ==
  ASSUME Alone, NEW s \in Session, mode[s] # "absent", NEW w \in Writer, base[w] # None
  PROVE  \A v \in Writer : ~(pc[v] = "answering" /\ owner[v] = s /\ answer[v] = "receipt")
  BY AloneIs DEF Serves

\* A process that ends with an answer that is not a receipt.
LEMMA RefusedAlone ==
  ASSUME Base, Alone, NEW w \in Writer, NEW kind \in {"refused", "integrity"}, Return(w, kind, None),
         UNCHANGED <<mode, head, pending>>, Sane',
         \A s \in Session : mode[s] # "absent" =>
           /\ Placed(Readable(log'), head[s], pending[s])
           /\ owner[w] = s => kind = "refused"
           /\ \/ Readable(log') = Readable(log)
              \/ base[w] # None
  PROVE  Alone'
<1>1. /\ By(w) /\ draft'[w] = None /\ base'[w] = None /\ call'[w] = None /\ owner' = owner
      /\ answer'[w] \in {"none", kind}
  BY ReturnIs DEF Base
<1>2. ASSUME NEW s \in Session, mode[s] # "absent" PROVE Serves(s, w)'
  <2>1. Serves(s, w)
    BY <1>2, AloneIs
  <2>2. owner[w] = s => answer'[w] \in {"none", "refused"}
    BY <1>1, <1>2
  <2>3. QED
    BY <1>1, <2>1, <2>2 DEF Serves
<1>3. ASSUME NEW s \in Session, mode[s] # "absent"
      PROVE  \/ HashOfLast(Readable(log')) = HashOfLast(Readable(log)) /\ base'[w] = None
             \/ \A v \in Writer \ {w} : ~(pc[v] = "answering" /\ owner[v] = s /\ answer[v] = "receipt")
  BY <1>1, <1>3, NoReceipt
<1>4. QED
  BY <1>1, <1>2, <1>3, ProcessAlone

LEMMA GiveUpAlone == ASSUME Base, Alone, NEW w \in Writer, GiveUp(w) PROVE Alone'
<1>1. Return(w, "refused", None) /\ UNCHANGED <<log, clock, mode, head, pending>>
  BY DEF GiveUp, files, sessions
<1>2. Sane'
  <2>1. \A v \in Writer : draft'[v] \in {draft[v], None}
    BY <1>1, ReturnIs DEF Base, By
  <2>2. QED
    BY <1>1, <2>1, SameSane DEF Alone
<1>3. \A s \in Session : mode[s] # "absent" => Placed(Readable(log'), head[s], pending[s])
  BY <1>1, AloneIs DEF Owns
<1>4. QED
  BY <1>1, <1>2, <1>3, RefusedAlone

\* The process of a session that is alone finds no fault with its call.
LEMMA NotAccused ==
  ASSUME Base, Alone, NEW s \in Session, mode[s] # "absent", NEW w \in Writer, pc[w] = "locking", owner[w] = s
  PROVE  Judged(call[w], TailState(log)) # "integrity"
<1> DEFINE rs == Readable(log)
           n  == Len(rs)
           t  == TailState(log)
           c  == call[w]
           h  == head[s]
<1>1. Sane /\ Owns(s) /\ Serves(s, w)
  BY AloneIs
<1>2. c # None /\ c = pending[s] /\ c.head \in {None, h} /\ h # <<>>
  <2>1. c # None
    BY DEF Base, Phase
  <2>2. QED
    BY <1>1, <2>1 DEF Serves, Owns
<1>3. rs \in Seq(Record) /\ n \in Nat /\ (rs = <<>> <=> n = 0) /\ (rs = <<>> => HashOfLast(rs) = <<>>)
      /\ (rs # <<>> => n \in 1 .. n)
  BY LogIs, LastIs, LenProperties, EmptySeq
<1>4. /\ t.seq = n /\ t.head = HashOfLast(rs) /\ t.ts \in Nat /\ t.ts <= MaxClock
      /\ rs # <<>> => t.last = rs[n] /\ t.ts = rs[n].ts
  BY LogIs, TailIs
<1>5. c.head # None => \/ HashOfLast(rs) = c.head
                       \/ /\ rs # <<>>
                          /\ rs[n].prev = c.head /\ rs[n].event = c.event /\ rs[n].unanchored = c.unanchored
  BY <1>1, <1>2 DEF Owns, Placed, Headless
<1>6. ~(c.head # None /\ t.seq = 0)
  BY <1>2, <1>3, <1>4, <1>5
<1>7. ASSUME c.head # None, t.head # c.head PROVE Repeats(c, t)
  <2>1. rs # <<>> /\ rs[n].prev = c.head /\ rs[n].event = c.event /\ rs[n].unanchored = c.unanchored
    BY <1>4, <1>5, <1>7
  <2>2. rs[n].ts <= clock + Skew
    BY <1>1, <1>3, <2>1 DEF Sane
  <2>3. QED
    BY <1>4, <2>1, <2>2 DEF Repeats
<1>8. ~(t.ts > clock + Forged)
  <2>1. clock \in Nat /\ Forged \in Nat
    <3>1. clock \in 0 .. MaxClock
      BY DEF Base, TypeOK
    <3>2. QED
      BY <3>1, LogAssumption, FileAssumption
  <2>2. CASE rs = <<>>
    <3>1. t.ts = 0
      BY <2>2 DEF TailState
    <3>2. QED
      BY <2>1, <3>1
  <2>3. CASE rs # <<>>
    <3>1. n \in 1 .. n /\ t.ts = rs[n].ts
      BY <1>3, <1>4, <2>3
    <3>2. rs[n].ts <= clock + Forged
      BY <1>1, <3>1, SaneIs
    <3>3. QED
      BY <1>4, <2>1, <3>1, <3>2
  <2>4. QED
    BY <2>2, <2>3
<1>9. JudgedByOrder(c, t) # "integrity"
  BY <1>8 DEF JudgedByOrder
<1>10. QED
  BY <1>6, <1>7, <1>9 DEF Judged

LEMMA RefuseAlone == ASSUME Base, Alone, NEW w \in Writer, Refuse(w) PROVE Alone'
<1> DEFINE kind == Judged(call[w], TailState(log))
<1>1. /\ pc[w] = "locking" /\ kind \in {"refused", "integrity"} /\ Return(w, kind, None)
      /\ UNCHANGED <<log, clock, mode, head, pending>>
  BY DEF Refuse, files, sessions
<1>2. ASSUME NEW s \in Session, mode[s] # "absent", owner[w] = s PROVE kind # "integrity"
  BY <1>1, <1>2, NotAccused
<1> HIDE DEF kind
<1>3. Sane'
  <2>1. \A v \in Writer : draft'[v] \in {draft[v], None}
    BY <1>1, ReturnIs DEF Base, By
  <2>2. QED
    BY <1>1, <2>1, SameSane DEF Alone
<1>4. \A s \in Session : mode[s] # "absent" => Placed(Readable(log'), head[s], pending[s])
  BY <1>1, AloneIs DEF Owns
<1>5. QED
  BY <1>1, <1>2, <1>3, <1>4, RefusedAlone

\* A process that ends with the receipt for the last record.
LEMMA ReceiptAlone ==
  ASSUME Base, Alone, NEW w \in Writer, NEW r \in Record, Return(w, "receipt", r),
         UNCHANGED <<log, clock, mode, head, pending>>,
         HashOfLast(Readable(log)) = Hash(r), \A v \in Writer : base'[v] = None,
         r.ts <= clock + Skew, call[w] # None, call[w].head # None => r.prev = call[w].head
  PROVE  Alone'
<1>1. /\ By(w) /\ draft'[w] \in {r, None} /\ base'[w] = None /\ call'[w] = None /\ owner' = owner
      /\ pc'[w] = "answering" => draft'[w] = r /\ answer'[w] = "receipt"
  BY ReturnIs DEF Base
<1>2. Sane'
  <2>1. ASSUME NEW v \in Writer, draft'[v] # None PROVE draft'[v].ts <= clock' + Skew
    BY <1>1, <2>1 DEF Alone, Sane, By
  <2>2. QED
    BY <2>1 DEF Alone, Sane
<1>3. ASSUME NEW s \in Session, mode[s] # "absent" PROVE Serves(s, w)' /\ Placed(Readable(log'), head[s], pending[s])
  <2>1. Serves(s, w) /\ Placed(Readable(log), head[s], pending[s])
    BY <1>3, AloneIs DEF Owns
  <2>2. ASSUME owner[w] = s, pending[s].head # None PROVE r.prev = pending[s].head
    BY <2>1, <2>2 DEF Serves
  <2>3. QED
    BY <1>1, <2>1, <2>2 DEF Serves
<1>4. QED
  BY <1>1, <1>2, <1>3, ProcessAlone

LEMMA RepeatAlone == ASSUME Base, Alone, NEW w \in Writer, Repeat(w) PROVE Alone'
<1> DEFINE rs == Readable(log)
           r  == TailState(log).last
<1>1. /\ pc[w] = "locking" /\ lock = None /\ Return(w, "receipt", r)
      /\ UNCHANGED <<log, clock, mode, head, pending>>
  BY DEF Repeat, files, sessions
<1>2. /\ rs # <<>> /\ r = rs[Len(rs)] /\ r \in Record /\ HashOfLast(rs) = Hash(r) /\ call[w] \in Call
      /\ r.prev = call[w].head
  BY RepeatIs DEF Repeat
<1>3. r.ts <= clock + Skew
  <2>1. Len(rs) \in 1 .. Len(rs)
    BY <1>2, LogIs, LastIs
  <2>2. QED
    BY <1>2, <2>1 DEF Alone, Sane
<1>4. \A v \in Writer : base'[v] = None
  <2>1. By(w) /\ base'[w] = None
    BY <1>1, <1>2, ReturnIs DEF Base
  <2>2. QED
    BY <1>1, <2>1, FreeIs DEF By
<1> HIDE DEF r
<1>5. QED
  BY <1>1, <1>2, <1>3, <1>4, NoneIs, ReceiptAlone

LEMMA SyncAlone == ASSUME Base, Alone, NEW w \in Writer, Sync(w) PROVE Alone'
<1>1. draft[w].ts <= clock + Skew
  BY SyncIs, NoneIs DEF Alone, Sane
<1>2. call[w] # None /\ (call[w].head # None => draft[w].prev = call[w].head)
  BY SyncIs, HolderIs, NoneIs
<1>3. QED
  BY <1>1, <1>2, SyncIs, ReceiptAlone

LEMMA FailAlone == ASSUME Base, Alone, NEW w \in Writer, Fail(w) PROVE Alone'
<1>1. /\ Return(w, "refused", None) /\ UNCHANGED <<clock, mode, head, pending>>
      /\ log' = log \/ (base[w] # None /\ log' = base[w])
  BY FailIs
<1>2. Sane'
  <2>1. \A v \in Writer : draft'[v] \in {draft[v], None}
    BY <1>1, ReturnIs DEF Base, By
  <2>2. CASE log' = log
    BY <1>1, <2>1, <2>2, SameSane DEF Alone
  <2>3. CASE base[w] # None /\ log' = base[w]
    <3>1. ASSUME NEW i \in 1 .. Len(Readable(log')) PROVE Readable(log')[i].ts <= clock + Skew
      BY <2>3, BaseWithin DEF Alone, Sane
    <3>2. \A v \in Writer : draft'[v] # None => draft'[v].ts <= clock + Skew
      BY <2>1 DEF Alone, Sane
    <3>3. QED
      BY <1>1, <3>1, <3>2 DEF Sane
  <2>4. QED
    BY <1>1, <2>2, <2>3
<1>3. \A s \in Session : mode[s] # "absent" => Placed(Readable(log'), head[s], pending[s])
  BY <1>1, AloneIs DEF Owns, Serves
<1>4. QED
  BY <1>1, <1>2, <1>3, RefusedAlone

LEMMA KillAlone == ASSUME Base, Alone, NEW w \in Writer, Kill(w) PROVE Alone'
<1>1. /\ By(w) /\ pc'[w] = "idle" /\ owner'[w] = None /\ call'[w] = None /\ draft'[w] = None /\ base'[w] = None
      /\ UNCHANGED <<log, clock, head, pending>>
  BY KillIs
<1>2. mode' = [s \in Session |-> IF owner[w] = s THEN "down" ELSE mode[s]]
  BY DEF Kill
<1>3. Sane'
  <2>1. \A v \in Writer : draft'[v] \in {draft[v], None}
    BY <1>1 DEF By
  <2>2. QED
    BY <1>1, <2>1, SameSane DEF Alone
<1>4. ASSUME NEW s \in Session, mode[s] # "absent" PROVE Alone'
  <2>1. Owns(s) /\ (\A v \in Writer : Serves(s, v)) /\ \A t \in Session \ {s} : mode[t] = "absent"
    BY <1>4, AloneIs
  <2>2. owner[w] \in {None, s}
    BY <2>1 DEF Serves
  <2>3. \A t \in Session \ {s} : mode'[t] = mode[t]
    BY <1>2, <2>2, NoneIs
  <2>4. mode'[s] = (IF owner[w] = s THEN "down" ELSE mode[s])
    BY <1>2
  <2>5. Owns(s)'
    BY <1>1, <2>1, <2>4 DEF Owns
  <2>6. ASSUME NEW v \in Writer \ {w} PROVE Serves(s, v)'
    <3>1. /\ pc'[v] = pc[v] /\ owner'[v] = owner[v] /\ call'[v] = call[v] /\ draft'[v] = draft[v] /\ base'[v] = base[v]
          /\ answer'[v] = answer[v]
      BY <1>1 DEF By
    <3>2. Serves(s, v) /\ Serves(s, w)
      BY <2>1
    <3>3. owner[v] = s => mode'[s] = mode[s] /\ \A u \in Writer \ {v} : owner'[u] # s
      <4>1. ASSUME owner[v] = s PROVE \A u \in Writer \ {v} : owner[u] # s
        BY <3>2, <4>1 DEF Serves
      <4>2. \A u \in Writer : owner'[u] \in {owner[u], None}
        BY <1>1 DEF By
      <4>3. QED
        BY <2>4, <4>1, <4>2, NoneIs
    <3>4. \A u \in Writer : base'[u] \in {base[u], None}
      BY <1>1 DEF By
    <3>5. QED
      BY <1>1, <3>1, <3>2, <3>3, <3>4 DEF Serves
  <2>7. Serves(s, w)'
    BY <1>1, NoneIs DEF Serves
  <2>8. QED
    BY <1>3, <1>4, <2>3, <2>5, <2>6, <2>7, SessionAlone
<1>5. CASE \A s \in Session : mode[s] = "absent"
  <2>1. \A s \in Session : owner[w] # s
    BY <1>5 DEF Alone
  <2>2. \A s \in Session : mode'[s] = "absent"
    BY <1>2, <1>5, <2>1
  <2>3. \A s \in Session, v \in Writer : owner'[v] # s
    BY <1>1, <1>5, NoneIs DEF Alone, By
  <2>4. QED
    BY <1>3, <2>2, <2>3 DEF Alone
<1>6. QED
  BY <1>4, <1>5

\* A process that has got the lock, or goes on with it, and changes no record.
LEMMA RepeatUnterminatedAlone == ASSUME Base, Alone, NEW w \in Writer, RepeatUnterminated(w) PROVE Alone'
<1> DEFINE rs == Readable(log)
<1>1. /\ By(w) /\ pc[w] = "locking" /\ pc'[w] = "finishing" /\ lock = None
      /\ log.rest \in Record /\ draft'[w] = log.rest /\ rs = Append(log.lines, log.rest)
      /\ UNCHANGED <<log, clock, mode, head, pending, owner, call, base>>
  BY RepeatUnterminatedIs
<1>2. log.rest.ts <= clock + Skew
  <2>1. log.lines \in Seq(Record)
    BY LogIs, FileIs
  <2>2. Len(rs) = Len(log.lines) + 1 /\ rs[Len(log.lines) + 1] = log.rest /\ Len(log.lines) \in Nat
    BY <1>1, <2>1, AppendIs
  <2>3. QED
    BY <2>2 DEF Alone, Sane
<1>3. Sane'
  <2>1. \A v \in Writer : draft'[v] # None => draft'[v].ts <= clock + Skew
    BY <1>1, <1>2 DEF Alone, Sane, By
  <2>2. QED
    BY <1>1, <2>1 DEF Alone, Sane
<1>4. base[w] = None /\ base'[w] = None
  BY <1>1, FreeIs
<1>5. ASSUME NEW s \in Session, mode[s] # "absent" PROVE Serves(s, w)' /\ Placed(rs, head[s], pending[s])
  <2>1. Serves(s, w) /\ Placed(rs, head[s], pending[s])
    BY <1>5, AloneIs DEF Owns
  <2>2. QED
    BY <1>1, <1>4, <2>1 DEF Serves
<1>6. QED
  BY <1>1, <1>3, <1>4, <1>5, ProcessAlone

LEMMA FinishAlone == ASSUME Base, Alone, NEW w \in Writer, Finish(w) PROVE Alone'
<1>1. /\ By(w) /\ pc[w] = "finishing" /\ pc'[w] = "syncing" /\ log' = [lines |-> Readable(log), rest |-> None]
      /\ UNCHANGED <<clock, mode, head, pending, owner, call, draft, base, answer>>
  BY DEF Finish, By, Base, TypeOK, sessions
<1>2. Readable(log') = Readable(log)
  BY <1>1, LogIs, PlainFile
<1>3. base[w] = None
  BY <1>1 DEF Base, Phase
<1>4. Sane'
  BY <1>1, <1>2 DEF Alone, Sane
<1>5. ASSUME NEW s \in Session, mode[s] # "absent" PROVE Serves(s, w)' /\ Placed(Readable(log), head[s], pending[s])
  <2>1. Serves(s, w) /\ Placed(Readable(log), head[s], pending[s])
    BY <1>5, AloneIs DEF Owns
  <2>2. QED
    BY <1>1, <1>3, <2>1 DEF Serves
<1>6. QED
  BY <1>1, <1>2, <1>3, <1>4, <1>5, ProcessAlone

LEMMA CutAlone == ASSUME Base, Alone, NEW w \in Writer, Cut(w) PROVE Alone'
<1>1. /\ By(w) /\ pc'[w] = "writing" /\ base[w] = log /\ base'[w] = log' /\ Readable(log') = Readable(log)
      /\ UNCHANGED <<clock, mode, head, pending, owner, call, draft, answer>>
  BY CutIs
<1>2. base[w] # None
  BY <1>1, NoneIs DEF Base, TypeOK
<1>3. Sane'
  BY <1>1 DEF Alone, Sane
<1>4. ASSUME NEW s \in Session, mode[s] # "absent" PROVE Serves(s, w)' /\ Placed(Readable(log'), head[s], pending[s])
  <2>1. Serves(s, w) /\ Placed(Readable(log), head[s], pending[s]) /\ Readable(base'[w]) = Readable(base[w])
    BY <1>1, <1>4, AloneIs DEF Owns
  <2>2. QED
    BY <1>1, <1>2, <2>1 DEF Serves
<1>5. QED
  BY <1>1, <1>2, <1>3, <1>4, NoReceipt, ProcessAlone

LEMMA WritingAlone == ASSUME Base, Alone, NEW w \in Writer, WritePart(w) \/ Write(w) PROVE Alone'
<1> DEFINE rs == Readable(base[w])
           r  == draft[w]
<1>1. /\ By(w) /\ pc[w] \in Holding /\ base[w] # None /\ GoodFile(log') /\ pc'[w] \in {"torn", "syncing"}
      /\ Readable(log') = rs \/ Readable(log') = Append(rs, r)
      /\ UNCHANGED <<clock, mode, head, pending, owner, call, draft, base, answer>>
  BY WritingIs
<1>2. /\ r \in Record /\ rs \in Seq(Record) /\ call[w] \in Call /\ (call[w].head # None => r.prev = call[w].head)
      /\ r.event = call[w].event /\ r.unanchored = call[w].unanchored
  BY <1>1, HolderIs DEF Base, Phase
<1>3. r.ts <= clock + Skew /\ \A i \in 1 .. Len(rs) : rs[i].ts <= clock + Skew
  BY <1>1, <1>2, BaseWithin, NoneIs DEF Alone, Sane
<1>4. Sane'
  <2>1. \A i \in 1 .. Len(Readable(log')) : Readable(log')[i].ts <= clock + Skew
    <3>1. CASE Readable(log') = rs
      BY <1>3, <3>1
    <3>2. CASE Readable(log') = Append(rs, r)
      <4>1. Len(Append(rs, r)) = Len(rs) + 1 /\ Len(rs) \in Nat
        BY <1>2, AppendIs
      <4>2. ASSUME NEW i \in 1 .. Len(Append(rs, r)) PROVE Append(rs, r)[i].ts <= clock + Skew
        <5>1. i = Len(rs) + 1 \/ i \in 1 .. Len(rs)
          BY <4>1
        <5>2. QED
          BY <1>2, <1>3, <5>1, AppendIs
      <4>3. QED
        BY <3>2, <4>2
    <3>3. QED
      BY <1>1, <3>1, <3>2
  <2>2. QED
    BY <1>1, <2>1 DEF Alone, Sane
<1>5. ASSUME NEW s \in Session, mode[s] # "absent" PROVE Serves(s, w)' /\ Placed(Readable(log'), head[s], pending[s])
  <2>1. Serves(s, w) /\ Owns(s)
    BY <1>5, AloneIs
  <2>2. /\ Placed(rs, head[s], pending[s])
        /\ call[w].head = None => rs = <<>> /\ head[s] = None /\ Headless(pending[s])
        /\ call[w].head # None => call[w] = pending[s]
    BY <1>1, <2>1 DEF Serves
  <2>3. Placed(Append(rs, r), head[s], pending[s])
    <3>1. CASE call[w].head = None
      BY <1>2, <2>2, <3>1, PlacedAppend
    <3>2. CASE call[w].head # None
      <4>1. pending[s] = call[w] /\ pending[s] # None /\ pending[s].head = head[s]
        BY <1>2, <2>1, <2>2, <3>2, NoneIs DEF Owns
      <4>2. QED
        BY <1>2, <3>2, <4>1, PlacedAppend
    <3>3. QED
      BY <3>1, <3>2
  <2>4. Serves(s, w)'
    BY <1>1, <2>1 DEF Serves
  <2>5. QED
    BY <1>1, <2>2, <2>3, <2>4
<1>6. QED
  BY <1>1, <1>4, <1>5, NoReceipt, ProcessAlone

LEMMA PrepareAlone == ASSUME Base, Alone, NEW w \in Writer, Prepare(w) PROVE Alone'
<1> DEFINE rs == Readable(log)
           n  == Len(rs)
           c  == call[w]
<1>1. /\ By(w) /\ pc[w] = "locking" /\ lock = None /\ base'[w] = log /\ c \in Call
      /\ pc'[w] \in {"cutting", "writing"} /\ draft'[w] \in Record
      /\ c.head # None => HashOfLast(rs) = c.head /\ rs # <<>>
      /\ c.head = None => rs = <<>> \/ c.unanchored
      /\ draft'[w].ts = clock \/ (rs # <<>> /\ draft'[w].ts = rs[n].ts)
      /\ UNCHANGED <<log, clock, mode, head, pending, owner, call, answer>>
  BY PrepareIs
<1>2. rs \in Seq(Record) /\ n \in Nat /\ (rs # <<>> => n \in 1 .. n) /\ (rs = <<>> => HashOfLast(rs) = <<>>)
      /\ (HashOfLast(rs) = <<>> => rs = <<>>) /\ Len(HashOfLast(rs)) \in Nat /\ HashOfLast(rs) \in Seq(Content)
      /\ HashOfLast(rs) # None /\ c # None
  BY <1>1, LogIs, LastIs, LenProperties, NoneIs
<1>3. clock \in Nat /\ Skew \in Nat
  <2>1. clock \in 0 .. MaxClock
    BY DEF Base, TypeOK
  <2>2. QED
    BY <2>1, FileAssumption
<1>4. draft'[w].ts <= clock + Skew
  BY <1>1, <1>2, <1>3 DEF Alone, Sane
<1>5. Sane'
  <2>1. \A v \in Writer : draft'[v] # None => draft'[v].ts <= clock + Skew
    BY <1>1, <1>4 DEF Alone, Sane, By
  <2>2. QED
    BY <1>1, <2>1 DEF Alone, Sane
<1>6. ASSUME NEW s \in Session, mode[s] # "absent"
      PROVE  /\ Placed(rs, head[s], pending[s]) /\ Serves(s, w)'
             /\ \A v \in Writer \ {w} : ~(pc[v] = "answering" /\ owner[v] = s /\ answer[v] = "receipt")
  <2> DEFINE h == head[s]
             p == pending[s]
  <2>1. Owns(s) /\ (\A v \in Writer : Serves(s, v))
    BY <1>6, AloneIs
  <2>2. /\ Placed(rs, h, p) /\ h # <<>> /\ (p # None => p.head \in {None, h})
        /\ Plain(c) /\ (h = None => p # None)
        /\ c.head # None => h # None /\ (c = p \/ Len(c.head) < Len(h))
    BY <1>2, <2>1 DEF Owns, Serves
  <2>3. h # None => h \in Seq(Content) /\ Len(h) \in Nat
    BY LenProperties DEF Base, TypeOK
  <2>4. c.head = None => rs = <<>> /\ h = None /\ Headless(p)
    <3>1. ASSUME c.head = None PROVE rs = <<>> /\ h = None /\ Headless(p)
      <4>1. rs = <<>> /\ HashOfLast(rs) = <<>>
        BY <1>1, <1>2, <2>2, <3>1 DEF Plain
      <4>2. h = None
        BY <2>2, <4>1 DEF Placed, Headless
      <4>3. p # None
        BY <2>2, <4>2
      <4>4. Headless(p)
        BY <1>2, <2>2, <4>1, <4>2, <4>3 DEF Placed, Headless
      <4>5. QED
        BY <4>1, <4>2, <4>4
    <3>2. QED
      BY <3>1
  <2>5. c.head # None => c = p
    <3>1. SUFFICES ASSUME c.head # None, Len(c.head) < Len(h) PROVE FALSE
      BY <2>2
    <3>2. h # None /\ HashOfLast(rs) = c.head /\ rs # <<>>
      BY <1>1, <2>2, <3>1
    <3>3. HashOfLast(rs) # h
      BY <1>2, <2>3, <3>1, <3>2
    <3>4. rs[n].prev = h
      BY <2>2, <3>2, <3>3 DEF Placed
    <3>5. HashOfLast(rs) = Hash(rs[n]) /\ rs[n] \in Record
      BY <1>2, <3>2, LastIs
    <3>6. Len(HashOfLast(rs)) = Len(h) + 1
      BY <3>4, <3>5, HashIs
    <3>7. QED
      BY <1>2, <2>3, <3>1, <3>2, <3>6
  <2>6. Serves(s, w)'
    <3>1. Serves(s, w)
      BY <2>1
    <3>2. QED
      BY <1>1, <2>2, <2>4, <2>5, <3>1 DEF Serves
  <2>7. ASSUME NEW v \in Writer \ {w}, pc[v] = "answering", owner[v] = s, answer[v] = "receipt" PROVE FALSE
    <3>1. HashOfLast(rs) = Hash(draft[v]) /\ (p.head # None => draft[v].prev = p.head)
      BY <2>1, <2>7 DEF Serves
    <3>2. draft[v] \in Record
      <4>1. draft[v] # None
        BY <2>7 DEF Base, Phase
      <4>2. QED
        BY <4>1 DEF Base, TypeOK
    <3>3. Hash(draft[v]) # <<>> /\ Len(Hash(draft[v])) = Len(draft[v].prev) + 1 /\ Len(draft[v].prev) \in Nat
      BY <3>2, HashIs, LenProperties
    <3>4. CASE c.head = None
      BY <1>2, <2>4, <3>1, <3>3, <3>4
    <3>5. CASE c.head # None
      <4>1. draft[v].prev = c.head /\ HashOfLast(rs) = c.head
        BY <1>1, <2>5, <3>1, <3>5
      <4>2. QED
        BY <3>1, <3>3, <4>1
    <3>6. QED
      BY <3>4, <3>5
  <2>8. QED
    BY <2>2, <2>6, <2>7
<1>7. QED
  BY <1>1, <1>5, <1>6, ProcessAlone

\* The clock is set, but no timestamp comes to lie ahead of it.
LEMMA SetClockAlone == ASSUME Base, Alone, SetClock, upsets' = {} PROVE Alone'
<1>1. PICK t \in 0 .. MaxClock : clock' = t /\ upsets' = (IF Behind(t) THEN upsets \cup {"clock"} ELSE upsets)
  BY DEF SetClock
<1>2. ~Behind(t)
  BY <1>1
<1>3. /\ \A i \in 1 .. Len(Readable(log)) : ~(Readable(log)[i].ts > t + Skew)
      /\ \A w \in Writer : draft[w] # None => ~(draft[w].ts > t + Skew)
  <2>1. ASSUME NEW i \in 1 .. Len(Readable(log)) PROVE Readable(log)[i] \in Dated
    BY LogIs, RecordsAre, MadeIs, DatedIs
  <2>2. ASSUME NEW w \in Writer, draft[w] # None PROVE draft[w] \in Dated
    BY <2>2, MadeIs, DatedIs
  <2>3. QED
    BY <1>2, <2>1, <2>2 DEF Behind
<1>4. Sane'
  <2>1. UNCHANGED <<log, draft>> /\ t \in Nat /\ Skew \in Nat /\ Readable(log) \in Seq(Record)
    BY LogIs, FileAssumption DEF SetClock, files, writers
  <2>2. \A i \in 1 .. Len(Readable(log)) : Readable(log)[i] \in Record /\ Readable(log)[i].ts \in Nat
    <3>1. ASSUME NEW i \in 1 .. Len(Readable(log)) PROVE Readable(log)[i] \in Record
      BY <2>1, ElementOfSeq
    <3>2. QED
      BY <3>1 DEF Record
  <2>3. \A w \in Writer : draft[w] # None => draft[w].ts \in Nat
    BY DEF Base, TypeOK, Record
  <2>4. QED
    BY <1>1, <1>3, <2>1, <2>2, <2>3 DEF Sane
<1>5. UNCHANGED <<log, mode, head, pending, pc, owner, call, draft, base, answer>>
  BY DEF SetClock, files, sessions, writers
<1>6. \A s \in Session : mode[s] # "absent" => Owns(s)' /\ \A w \in Writer : Serves(s, w)'
  <2>1. ASSUME NEW s \in Session, mode[s] # "absent" PROVE Owns(s)' /\ \A w \in Writer : Serves(s, w)'
    <3>1. Owns(s) /\ \A w \in Writer : Serves(s, w)
      BY <2>1, AloneIs
    <3>2. QED
      BY <1>5, <3>1 DEF Owns, Serves
  <2>2. QED
    BY <2>1
<1>7. QED
  BY <1>4, <1>5, <1>6 DEF Alone

LEMMA AloneInit == ASSUME Init PROVE Alone
<1>1. PICK n \in Nat : log = [lines |-> Before(n), rest |-> None] /\ Readable(log) = Before(n)
  BY InitIs
<1>2. log.lines = Readable(log) /\ Readable(log) \in Seq(Record) /\ Len(Readable(log)) = n
      /\ \A i \in 1 .. n : Readable(log)[i].ts = 0
  BY <1>1, EarlierIs
<1>3. PICK first \in Session :
        /\ mode = [s \in Session |-> IF s = first THEN "down" ELSE "absent"]
        /\ head = [s \in Session |-> IF s = first /\ log.lines # <<>> THEN HashOfLast(log.lines) ELSE None]
  BY DEF Init
<1>4. /\ clock = 0 /\ \A s \in Session : pending[s] = None
      /\ \A w \in Writer : pc[w] = "idle" /\ owner[w] = None /\ call[w] = None /\ draft[w] = None /\ base[w] = None
  BY DEF Init
<1>5. Sane
  BY <1>2, <1>4, FileAssumption DEF Sane
<1>6. ASSUME NEW s \in Session, mode[s] # "absent" PROVE s = first /\ Owns(s) /\ \A w \in Writer : Serves(s, w)
  <2>1. s = first /\ mode[s] = "down" /\ pending[s] = None
        /\ head[s] = (IF Readable(log) # <<>> THEN HashOfLast(Readable(log)) ELSE None)
    BY <1>2, <1>3, <1>4, <1>6
  <2>2. Placed(Readable(log), head[s], None) /\ head[s] # <<>>
    <3>1. None # <<>>
      BY NoneIs, EmptySeq
    <3>2. CASE Readable(log) = <<>>
      BY <2>1, <3>1, <3>2 DEF Placed, Headless
    <3>3. CASE Readable(log) # <<>>
      <4>1. HashOfLast(Readable(log)) # <<>> /\ HashOfLast(Readable(log)) # None
        BY <1>2, <3>3, LastIs, NoneIs
      <4>2. QED
        BY <2>1, <3>3, <4>1 DEF Placed, Headless
    <3>4. QED
      BY <3>2, <3>3
  <2>3. QED
    BY <1>4, <2>1, <2>2, NoneIs DEF Owns, Serves
<1>7. QED
  BY <1>4, <1>5, <1>6, NoneIs DEF Alone

LEMMA AloneNext == ASSUME Base, upsets = {} => Alone, [Next]_vars, upsets' = {} PROVE Alone'
<1>1. ASSUME NEW s \in Session, SessionStep(s) PROVE Alone'
  <2>1. CASE upsets = {}
    <3>1. Alone
      BY <2>1
    <3>2. ~StopAtVerify(s)
      BY <3>1, NeverStops
    <3>3. ~ResumeUnanchored(s)
      <4>1. ASSUME mode[s] = "stopped" PROVE FALSE
        BY <3>1, <4>1, AloneIs DEF Owns
      <4>2. QED
        BY <4>1 DEF ResumeUnanchored
    <3>4. \A t \in Session : ~Adopt(s, t)
      BY DEF Adopt
    <3>5. CASE Begin(s) \/ Rejoin(s) \/ Resume(s) \/ LogEvent(s) \/ Die(s)
      BY <3>1, <3>5, BeginAlone, RejoinAlone, ResumeAlone, LogEventAlone, DieAlone
    <3>6. CASE \E w \in Writer : Send(s, w) \/ Receive(s, w)
      BY <3>1, <3>6, SendAlone, ReceiveAlone
    <3>7. QED
      BY <1>1, <3>2, <3>3, <3>4, <3>5, <3>6 DEF SessionStep
  <2>2. CASE upsets # {}
    <3>1. \A w \in Writer : ~Send(s, w) /\ ~Receive(s, w)
      BY <2>2 DEF Send, Receive
    <3>2. ~Begin(s) /\ ~Resume(s) /\ ~ResumeUnanchored(s) /\ ~LogEvent(s)
      BY <2>2 DEF Begin, Resume, ResumeUnanchored, LogEvent, Save
    <3>3. ~Rejoin(s) /\ ~StopAtVerify(s) /\ ~Die(s) /\ \A t \in Session : ~Adopt(s, t)
      BY <2>2 DEF Rejoin, StopAtVerify, Die, Adopt
    <3>4. QED
      BY <1>1, <3>1, <3>2, <3>3 DEF SessionStep
  <2>3. QED
    BY <2>1, <2>2
<1>2. ASSUME NEW w \in Writer, WriterStep(w) PROVE Alone'
  <2>1. upsets = {}
    BY <1>2 DEF WriterStep, GiveUp, Refuse, Repeat, RepeatUnterminated, Finish, Prepare, Cut, WritePart, Write, Sync, Fail,
                Kill
  <2>2. Alone
    BY <2>1
  <2>3. CASE GiveUp(w) \/ Refuse(w) \/ Repeat(w) \/ RepeatUnterminated(w)
    BY <2>2, <2>3, GiveUpAlone, RefuseAlone, RepeatAlone, RepeatUnterminatedAlone
  <2>4. CASE Finish(w) \/ Prepare(w) \/ Cut(w) \/ WritePart(w) \/ Write(w)
    BY <2>2, <2>4, FinishAlone, PrepareAlone, CutAlone, WritingAlone
  <2>5. CASE Sync(w) \/ Fail(w) \/ Kill(w)
    BY <2>2, <2>5, SyncAlone, FailAlone, KillAlone
  <2>6. QED
    BY <1>2, <2>3, <2>4, <2>5 DEF WriterStep
<1>3. CASE SetClock
  <2>1. upsets = {}
    BY <1>3 DEF SetClock
  <2>2. QED
    BY <1>3, <2>1, SetClockAlone
<1>4. CASE PowerLoss
  BY <1>4 DEF PowerLoss
<1>5. CASE UNCHANGED vars
  <2>1. UNCHANGED <<files, clock, sessions, writers, upsets>>
    BY <1>5 DEF vars
  <2>2. UNCHANGED <<log, clock, mode, head, pending, pc, owner, call, draft, base, answer, upsets>>
    BY <2>1 DEF files, sessions, writers
  <2>3. Alone /\ (\A s \in Session : Owns(s) <=> Owns(s)') /\ (\A s \in Session, w \in Writer : Serves(s, w) <=> Serves(s, w)')
        /\ (Sane <=> Sane')
    BY <2>2 DEF Owns, Serves, Sane
  <2>4. QED
    BY <2>2, <2>3 DEF Alone
<1>6. QED
  BY <1>1, <1>2, <1>3, <1>4, <1>5 DEF Next

-----------------------------------------------------------------------------
(* Theorems.                                                               *)

LEMMA Inductive == Spec => []IInv
<1>1. Init => IInv
  BY BaseInit, NumberedInit, AloneInit, InTimeInit DEF IInv, Base
<1>2. IInv /\ [Next]_vars => IInv'
  <2>1. SUFFICES ASSUME IInv, [Next]_vars PROVE IInv'
    OBVIOUS
  <2>2. Base /\ Numbered /\ (upsets = {} => Alone) /\ InTime
    BY <2>1 DEF IInv, Base
  <2>3. Base' /\ Numbered' /\ (upsets' = {} => Alone') /\ InTime'
    BY <2>1, <2>2, BaseNext, NumberedNext, AloneNext, InTimeNext
  <2>4. QED
    BY <2>3 DEF IInv, Base
<1>3. QED
  BY <1>1, <1>2, PTL DEF Spec

\* Every variable keeps its type, and a session that is ready to send has saved
\* a call.
THEOREM TypeCorrect == Spec => []TypeOK
<1>1. IInv => TypeOK
  BY DEF IInv
<1>2. QED
  BY <1>1, Inductive, PTL

\* However long a run goes on, and whatever failed, was killed or was lost with the
\* power between two steps of its appends, verify finds no fault in the order, the
\* chain or the events of the log.  It calls the log broken only while a record is
\* more than a day (Forged) ahead of the clock, and that takes a clock that was set
\* back past a record.
THEOREM TheLogVerifies == Spec => []VerifyAccepts
<1>1. IInv => VerifyAccepts
  <2>1. SUFFICES ASSUME IInv
                 PROVE  /\ Verdict(log, clock) = "broken" => "clock" \in upsets
                        /\ \A t \in 0 .. MaxClock :
                             Verdict(log, t) = "broken" => \E r \in ToSet(Parsed(log)) : r.ts > t + Forged
    BY DEF VerifyAccepts
  <2>2. Base /\ InTime
    BY <2>1 DEF IInv, Base
  <2>3. Good(Parsed(log)) /\ Parsed(log) \in Seq(Record)
    BY <2>2, LogIs
  <2>4. /\ \A i \in 1 .. Len(Parsed(log)) : /\ Parsed(log)[i] \in Made /\ Parsed(log)[i] \in ToSet(Parsed(log))
                                            /\ Parsed(log)[i].ts \in Nat
        /\ clock \in 0 .. MaxClock /\ MaxClock \in Nat /\ Skew \in Nat /\ Forged \in Nat /\ Skew <= Forged
    <3>1. ASSUME NEW i \in 1 .. Len(Parsed(log))
          PROVE  Parsed(log)[i] \in Made /\ Parsed(log)[i] \in ToSet(Parsed(log)) /\ Parsed(log)[i].ts \in Nat
      <4>1. Parsed(log)[i] \in RecordsOf(log)
        BY <2>2, LogIs, RecordsAre
      <4>2. Parsed(log)[i] \in Record
        BY <2>3, ElementOfSeq
      <4>3. QED
        BY <4>1, <4>2, MadeIs DEF ToSet, Record
    <3>2. QED
      BY <2>2, <3>1, LogAssumption, FileAssumption DEF Base, TypeOK
  <2>5. ASSUME NEW t \in 0 .. MaxClock, Verdict(log, t) = "broken"
        PROVE  \E i \in 1 .. Len(Parsed(log)) : Parsed(log)[i].ts > t + Forged
    <3>1. ~Chained(Parsed(log), t)
      BY <2>5 DEF Verdict
    <3>2. PICK i \in 1 .. Len(Parsed(log)) : ~(Parsed(log)[i].ts <= t + Forged)
      BY <2>3, <3>1, GoodInTime
    <3>3. QED
      BY <2>4, <3>2
  <2>6. ASSUME Verdict(log, clock) = "broken" PROVE "clock" \in upsets
    <3>1. PICK i \in 1 .. Len(Parsed(log)) : Parsed(log)[i].ts > clock + Forged
      BY <2>4, <2>5, <2>6
    <3>2. ~(Parsed(log)[i].ts <= clock + Skew)
      BY <2>4, <3>1
    <3>3. QED
      BY <2>2, <2>4, <3>2 DEF InTime
  <2>7. QED
    BY <2>4, <2>5, <2>6
<1>2. QED
  BY <1>1, Inductive, PTL

\* No repair of a torn end, no restore after a failed write and no other process
\* takes away a record whose receipt was returned; what an fsync stands behind
\* survives a loss of power too.
THEOREM AcknowledgedStays == Spec => []AckedStays
<1>1. IInv => AckedStays
  BY DEF IInv, FilesOK, Acked, AckedStays, Chain
<1>2. QED
  BY <1>1, Inductive, PTL

\* However often a saved call is repeated, and however late the processes run
\* that were started for it, at most one record is logged of it.
THEOREM CallsAreLoggedOnce == Spec => []LoggedOnce
<1>1. IInv => LoggedOnce
  <2>1. SUFFICES ASSUME IInv, NEW i \in 1 .. Len(Parsed(log)), NEW j \in 1 .. Len(Parsed(log)),
                        Parsed(log)[i].id = Parsed(log)[j].id
                 PROVE  i = j
    BY DEF LoggedOnce
  <2>2. Base
    BY <2>1 DEF IInv, Base
  <2>3. GoodFile(log) /\ Parsed(log) = Readable(log) /\ Good(Parsed(log)) /\ Len(Parsed(log)) \in Nat
    BY <2>2, LogIs, LenProperties
  <2>4. Parsed(log)[i] \in Made /\ Parsed(log)[j] \in Made
    BY <2>3, RecordsAre, LogMade
  <2>5. Parsed(log)[i].prev = Parsed(log)[j].prev
    BY <2>1, <2>4 DEF IInv, Numbered
  <2>6. Len(Parsed(log)[i].prev) = i - 1 /\ Len(Parsed(log)[j].prev) = j - 1
    BY <2>3 DEF Good
  <2>7. i - 1 = j - 1
    BY <2>5, <2>6
  <2>8. QED
    BY <2>3, <2>7
<1>2. QED
  BY <1>1, Inductive, PTL

\* A session that is alone, with a sane clock and without a loss of power, is
\* never told that its log was tampered with, neither by verify nor by a process
\* that repeats its call.
THEOREM HonestIsNotAccused == Spec => []NeverAccused
<1>1. IInv => NeverAccused
  <2>1. SUFFICES ASSUME IInv, upsets = {}, NEW s \in Session, mode[s] = "stopped" PROVE FALSE
    BY DEF NeverAccused
  <2>2. Alone /\ mode[s] # "absent"
    BY <2>1 DEF IInv
  <2>3. QED
    BY <2>1, <2>2, AloneIs DEF Owns
<1>2. QED
  BY <1>1, Inductive, PTL
=============================================================================
