------------------------ MODULE DispatchRoot_proofs ------------------------
(***************************************************************************)
(* Theorems about the dispatch root for any number of cleanups, exports,   *)
(* directories and claims.  The inductive invariant IInv says of a cleanup *)
(* what its position implies: whose lock it has (Locking), what it works   *)
(* on (Phases), that it deletes only what was proven (Proven), and what is *)
(* left for it to see (Listed).                                            *)
(***************************************************************************)
EXTENDS DispatchRoot, WellFoundedInduction, TLAPS

Work    == {"finish", "remove", "rmdir", "restore", "refill", "rename"}
Early   == {"look", "open", "lock", "locked", "marker", "scan", "next"}
Answers == Codes \cup {"RETRY"}

Cleanup == [pc : {"idle"} \cup Early \cup Work, tries : Nat, scanning : BOOLEAN, todo : SUBSET Claims,
            result : Answers, held : Claims \cup {Root}, want : Dirs \cup {None}, fd : Dirs \cup {None},
            claimed : BOOLEAN, gone : Owner \cup {None}, code : Codes, signalled : BOOLEAN,
            passes : Nat, absent : BOOLEAN]

Export_pcs == {"new", "mkdir", "checkout", "sidecar", "undo", "done", "failed"}

TypeOK ==
  /\ name \in [Dirs -> Claims \cup {Root, None}]
  /\ marker \in [Dirs -> Owner \cup {Torn, None}]
  /\ tree \in [Dirs -> Exporter \cup {None}] /\ sidecar \in [Dirs -> Exporter \cup {None}]
  /\ stray \in [Dirs -> BOOLEAN]
  /\ written \in 0 .. Late
  /\ lock \in [Dirs -> Cleaner \cup {None}]
  /\ session \in BOOLEAN
  /\ cleaner \in [Cleaner -> Cleanup]
  /\ exporter \in [Exporter -> [pc : Export_pcs, dir : Dirs \cup {None}]]
  /\ recent \in [Cleaner -> SUBSET Dirs]

\* From the moment it has the lock until its call on the directory returns, a
\* cleanup keeps it.
Locking(p) ==
  /\ cleaner[p].pc \in {"lock", "locked", "marker"} \cup Work => cleaner[p].fd \in Dirs
  /\ cleaner[p].pc \in {"locked", "marker"} \cup Work => lock[cleaner[p].fd] = p

\* What a cleanup has in hand at which step.
Phases(p) ==
  LET r == cleaner[p] IN
  /\ r.pc = "idle" \/ ~r.absent
  /\ r.pc = "next" => r.scanning
  /\ r.pc \in {"look", "scan"} => ~r.scanning
  /\ r.pc = "look" => r.held = Root
  /\ r.pc = "open" => r.want \in Dirs
  /\ r.pc \in {"open", "lock", "locked"} => (r.scanning <=> r.held # Root)
  /\ r.pc = "marker" => ~r.scanning
  /\ r.pc = "refill" => r.gone \in Owner
  /\ r.pc \in {"restore", "refill", "rename"} => r.code # "ABSENT"

\* What it works on is under its claim.
Claimed(p) == Working(p) => name[cleaner[p].fd] = cleaner[p].held /\ cleaner[p].held \in Claims

\* Contents are deleted only of a directory whose owner was found dead.
Proven(p) == cleaner[p].pc = "remove" => marker[cleaner[p].fd] \in Owner /\ ~Alive(marker[cleaner[p].fd])

\* An export that owns a directory has begun: once it is not alive it is dead.
Begun(m)     == m \in Exporter => exporter[m].pc # "new"
GoneBegun(p) == Begun(cleaner[p].gone)
OwnersBegun  == \A d \in Dirs : Begun(marker[d])

\* While a recovery has found nothing, what is there was claimed after it
\* listed the parent, or it has yet to look at it.
Listed(p) ==
  cleaner[p].scanning /\ cleaner[p].result = "ABSENT" =>
    \A d \in Dirs : \/ name[d] \in {None, Root}
                    \/ d \in recent[p]
                    \/ name[d] \in cleaner[p].todo
                    \/ cleaner[p].pc # "next" /\ name[d] = cleaner[p].held

Fine(p) == Locking(p) /\ Phases(p) /\ Claimed(p) /\ Proven(p) /\ GoneBegun(p) /\ Listed(p)

IInv == TypeOK /\ (\A p \in Cleaner : Fine(p)) /\ ContentsKeepMarker /\ OwnersBegun

-----------------------------------------------------------------------------
(* Operators.                                                              *)

LEMMA LeastIsIn == ASSUME NEW S \in SUBSET Nat, S # {} PROVE Least(S) \in S
<1>1. PICK x \in S : \A y \in S : ~ (<<y, x>> \in OpToRel(<, Nat))
  BY WFMin, NatLessThanWellFounded, Zenon
<1>2. \A y \in S : ~(y < x)
  BY <1>1, Zenon DEF OpToRel
<1>3. \A y \in S : x <= y
  BY <1>2
<1>4. QED
  BY <1>3 DEF Least

LEMMA AtIsNamed == ASSUME NEW n, Named(n) # {} PROVE At(n) \in Named(n) /\ At(n) \in Dirs
  BY DEF At, Named

LEMMA NoneIsNoDir == None \notin Dirs /\ None \notin Claims /\ Root \notin Claims
                     /\ None \notin Owner /\ None \notin Cleaner /\ Root # None
  BY RootAssumption DEF Owner

LEMMA IdleType == Idle \in Cleanup
  BY DEF Idle, Cleanup, Codes, Answers

LEMMA AnsweredIs ==
  ASSUME NEW code \in Codes
  PROVE  LET s == Answered(code) IN
         s \in Cleanup /\ s.pc = "idle" /\ ~s.scanning /\ s.gone = None /\ (s.absent <=> code = "ABSENT")
  BY IdleType DEF Answered, Idle, Cleanup, Codes, Answers

LEMMA ClosedIs ==
  ASSUME NEW r \in Cleanup
  PROVE  LET s == Closed(r) IN
         /\ s \in Cleanup /\ s.gone = None /\ s.held = Root /\ s.fd = None
         /\ s.pc = r.pc /\ s.scanning = r.scanning /\ s.todo = r.todo /\ s.result = r.result
         /\ s.absent = r.absent /\ s.tries = r.tries
  BY DEF Closed, Cleanup

LEMMA AgainIs ==
  ASSUME NEW r \in Cleanup
  PROVE  LET s == Again(r) IN
         /\ s \in Cleanup /\ s.pc \in {"idle", "look"} /\ s.gone = None /\ ~s.scanning /\ s.held = Root
         /\ s.absent => s.pc # "idle" /\ r.absent
<1>1. CASE r.tries < 3
  <2> DEFINE c == Closed(r)
             s == [c EXCEPT !.pc = "look", !.scanning = FALSE, !.todo = {}, !.result = "ABSENT", !.tries = r.tries + 1]
  <2>1. c \in Cleanup /\ c.gone = None /\ c.held = Root /\ c.absent = r.absent
    BY ClosedIs
  <2>2. Again(r) = s
    BY <1>1 DEF Again
  <2> HIDE DEF c
  <2>3. r.tries + 1 \in Nat
    BY DEF Cleanup
  <2>4. s \in Cleanup /\ s.pc = "look" /\ s.gone = None /\ ~s.scanning /\ s.held = Root /\ s.absent = r.absent
    BY <2>1, <2>3 DEF Cleanup, Answers, Codes, Early
  <2>5. QED
    BY <2>2, <2>4
<1>2. CASE ~(r.tries < 3)
  <2>1. "REMOVE_FAILED" \in Codes /\ Again(r) = Answered("REMOVE_FAILED")
    BY <1>2 DEF Again, Codes
  <2>2. Answered("REMOVE_FAILED").held = Root
    BY DEF Answered, Idle
  <2>3. QED
    BY <2>1, <2>2, AnsweredIs
<1>3. QED
  BY <1>1, <1>2

LEMMA WorseIs ==
  ASSUME NEW old \in Answers, NEW code \in Answers
  PROVE  Worse(old, code) \in Answers /\ (code # "ABSENT" => Worse(old, code) # "ABSENT")
  BY DEF Worse, Answers, Codes

\* Where a call goes when its work on a directory is over.
LEMMA AfterIs ==
  ASSUME NEW r \in Cleanup, NEW code \in Answers, ~r.absent
  PROVE  LET s == After(r, code) IN
         /\ s \in Cleanup /\ s.gone = None
         /\ s.pc \in {"idle", "next", "look", "scan"}
         /\ s.pc = "next" <=> s.scanning
         /\ s.pc = "look" => s.held = Root
         /\ s.pc # "idle" => ~s.absent
         /\ s.scanning => r.scanning /\ (code # "ABSENT" => s.result # "ABSENT")
<1>1. CASE code = "interrupted"
  BY <1>1, AnsweredIs DEF After, Codes
<1>2. CASE code # "interrupted" /\ r.scanning
  <2> DEFINE c == Closed(r)
             w == Worse(r.result, code)
             s == [c EXCEPT !.pc = "next", !.result = w]
  <2>1. c \in Cleanup /\ c.gone = None /\ c.scanning /\ ~c.absent
    BY <1>2, ClosedIs
  <2>2. w \in Answers /\ (code # "ABSENT" => w # "ABSENT")
    BY WorseIs DEF Cleanup
  <2>3. After(r, code) = s
    BY <1>2 DEF After
  <2> HIDE DEF c, w
  <2>4. s \in Cleanup /\ s.gone = None /\ s.pc = "next" /\ s.scanning /\ ~s.absent /\ s.result = w
    BY <2>1, <2>2 DEF Cleanup, Early
  <2>5. QED
    BY <1>2, <2>2, <2>3, <2>4
<1>3. CASE code # "interrupted" /\ ~r.scanning /\ code = "RETRY"
  BY <1>3, AgainIs DEF After
<1>4. CASE code # "interrupted" /\ ~r.scanning /\ code = "ABSENT"
  <2> DEFINE c == Closed(r)
             s == [c EXCEPT !.pc = "scan"]
  <2>1. c \in Cleanup /\ c.gone = None /\ ~c.scanning /\ ~c.absent
    BY <1>4, ClosedIs
  <2>2. After(r, code) = s
    BY <1>4 DEF After
  <2> HIDE DEF c
  <2>3. s \in Cleanup /\ s.gone = None /\ s.pc = "scan" /\ ~s.scanning /\ ~s.absent
    BY <2>1 DEF Cleanup, Early
  <2>4. QED
    BY <2>2, <2>3
<1>5. CASE code \notin {"interrupted", "RETRY", "ABSENT"} /\ ~r.scanning
  <2>1. code \in Codes /\ After(r, code) = Answered(code)
    BY <1>5 DEF After, Answers
  <2>2. QED
    BY <2>1, AnsweredIs
<1>6. QED
  BY <1>1, <1>2, <1>3, <1>4, <1>5

-----------------------------------------------------------------------------
(* What a step of one cleanup leaves alone.                                *)

LEMMA BecomesIs ==
  ASSUME TypeOK, NEW p \in Cleaner, NEW r \in Cleanup, Becomes(p, r)
  PROVE  /\ cleaner' \in [Cleaner -> Cleanup] /\ cleaner'[p] = r
         /\ \A q \in Cleaner \ {p} : cleaner'[q] = cleaner[q]
  BY DEF Becomes, TypeOK

LEMMA GotoIs ==
  ASSUME TypeOK, NEW p \in Cleaner, NEW pc \in Early \cup Work, Goto(p, pc)
  PROVE  LET r == cleaner[p]  s == cleaner'[p] IN
         /\ cleaner' \in [Cleaner -> Cleanup]
         /\ \A q \in Cleaner \ {p} : cleaner'[q] = cleaner[q]
         /\ s.pc = pc /\ s.scanning = r.scanning /\ s.todo = r.todo /\ s.result = r.result /\ s.held = r.held
         /\ s.want = r.want /\ s.fd = r.fd /\ s.gone = r.gone /\ s.code = r.code /\ s.absent = r.absent
<1> DEFINE s == [cleaner[p] EXCEPT !.pc = pc]
<1>1. cleaner[p] \in Cleanup
  BY DEF TypeOK
<1>2. /\ s \in Cleanup /\ s.pc = pc /\ s.scanning = cleaner[p].scanning /\ s.todo = cleaner[p].todo
      /\ s.result = cleaner[p].result /\ s.held = cleaner[p].held /\ s.want = cleaner[p].want /\ s.fd = cleaner[p].fd
      /\ s.gone = cleaner[p].gone /\ s.code = cleaner[p].code /\ s.absent = cleaner[p].absent
  BY <1>1 DEF Cleanup
<1>3. Becomes(p, s)
  BY DEF Goto
<1> HIDE DEF s
<1>4. QED
  BY <1>2, <1>3, BecomesIs

LEMMA UnlockIs ==
  ASSUME TypeOK, NEW p \in Cleaner, Unlock(p)
  PROVE  /\ lock' \in [Dirs -> Cleaner \cup {None}]
         /\ \A d \in Dirs : lock[d] # p => lock'[d] = lock[d]
  BY DEF Unlock, TypeOK

LEMMA ReturnIs ==
  ASSUME TypeOK, NEW p \in Cleaner, NEW code \in Answers, ~cleaner[p].absent, Return(p, code)
  PROVE  LET r == cleaner[p]  s == cleaner'[p] IN
         /\ cleaner' \in [Cleaner -> Cleanup] /\ lock' \in [Dirs -> Cleaner \cup {None}]
         /\ \A q \in Cleaner \ {p} : cleaner'[q] = cleaner[q]
         /\ \A d \in Dirs : lock[d] # p => lock'[d] = lock[d]
         /\ s.gone = None
         /\ s.pc \in {"idle", "next", "look", "scan"}
         /\ s.pc = "next" <=> s.scanning
         /\ s.pc = "look" => s.held = Root
         /\ s.pc # "idle" => ~s.absent
         /\ s.scanning => r.scanning /\ (code # "ABSENT" => s.result # "ABSENT")
<1> DEFINE s == After(cleaner[p], code)
<1>1. cleaner[p] \in Cleanup
  BY DEF TypeOK
<1>2. Becomes(p, s) /\ Unlock(p)
  BY DEF Return
<1>3. /\ s \in Cleanup /\ s.gone = None
      /\ s.pc \in {"idle", "next", "look", "scan"}
      /\ s.pc = "next" <=> s.scanning
      /\ s.pc = "look" => s.held = Root
      /\ s.pc # "idle" => ~s.absent
      /\ s.scanning => cleaner[p].scanning /\ (code # "ABSENT" => s.result # "ABSENT")
  BY <1>1, AfterIs
<1> HIDE DEF s
<1>4. QED
  BY <1>2, <1>3, BecomesIs, UnlockIs

\* What the others of cleanup p can rely on: it moves and marks only what it
\* has locked, takes only locks that are free, and claims in sight of them.
Alone(p) ==
  /\ \A q \in Cleaner \ {p} : cleaner'[q] = cleaner[q] /\ recent[q] \subseteq recent'[q]
  /\ \A d \in Dirs : lock[d] \in Cleaner \ {p} => lock'[d] = lock[d]
  /\ \A d \in Dirs : lock[d] # p => name'[d] = name[d] /\ marker'[d] = marker[d]
  /\ \A d \in Dirs : \/ name'[d] \in {name[d], None, Root}
                     \/ \A q \in Cleaner : cleaner[q].scanning => d \in recent'[q]
  /\ UNCHANGED <<session, exporter>>

LEMMA OthersFine ==
  ASSUME TypeOK, \A q \in Cleaner : Fine(q), NEW p \in Cleaner, Alone(p), NEW q \in Cleaner \ {p}
  PROVE  Fine(q)'
<1>1. Fine(q) /\ cleaner'[q] = cleaner[q] /\ UNCHANGED <<session, exporter>>
  BY DEF Alone
<1>2. cleaner[q].pc \in {"locked", "marker"} \cup Work =>
        LET d == cleaner[q].fd IN
        d \in Dirs /\ lock[d] = q /\ lock'[d] = lock[d] /\ name'[d] = name[d] /\ marker'[d] = marker[d]
  BY <1>1 DEF Fine, Locking, Alone
<1>3. Locking(q)' /\ Phases(q)'
  BY <1>1, <1>2 DEF Fine, Locking, Phases
<1>4. Claimed(q)' /\ Proven(q)' /\ GoneBegun(q)'
  BY <1>1, <1>2 DEF Fine, Claimed, Working, Work, Proven, Alive, GoneBegun, Begun
<1>5. Listed(q)'
  <2> SUFFICES ASSUME cleaner'[q].scanning, cleaner'[q].result = "ABSENT", NEW d \in Dirs
               PROVE  \/ name'[d] \in {None, Root} \/ d \in recent'[q] \/ name'[d] \in cleaner'[q].todo
                      \/ cleaner'[q].pc # "next" /\ name'[d] = cleaner'[q].held
    BY DEF Listed
  <2>1. \/ name[d] \in {None, Root} \/ d \in recent[q] \/ name[d] \in cleaner[q].todo
        \/ cleaner[q].pc # "next" /\ name[d] = cleaner[q].held
    BY <1>1 DEF Fine, Listed
  <2>2. recent[q] \subseteq recent'[q] /\ (name'[d] \in {name[d], None, Root} \/ d \in recent'[q])
    BY <1>1 DEF Alone
  <2>3. QED
    BY <1>1, <2>1, <2>2
<1>6. QED
  BY <1>3, <1>4, <1>5 DEF Fine

LEMMA FineAfterReturn ==
  ASSUME TypeOK, NEW p \in Cleaner, NEW code \in Answers, ~cleaner[p].absent,
         code # "ABSENT" \/ ~cleaner[p].scanning, Return(p, code)
  PROVE  Fine(p)'
<1>1. LET s == cleaner'[p] IN
      /\ s.gone = None /\ s.pc \in {"idle", "next", "look", "scan"}
      /\ s.pc = "next" <=> s.scanning
      /\ s.pc = "look" => s.held = Root
      /\ s.pc # "idle" => ~s.absent
      /\ s.scanning => cleaner[p].scanning /\ (code # "ABSENT" => s.result # "ABSENT")
  BY ReturnIs
<1>2. Locking(p)' /\ Claimed(p)' /\ Proven(p)' /\ GoneBegun(p)' /\ Listed(p)'
  BY <1>1, NoneIsNoDir DEF Locking, Claimed, Working, Work, Proven, GoneBegun, Begun, Owner, Listed
<1>3. Phases(p)'
  BY <1>1 DEF Phases
<1>4. QED
  BY <1>2, <1>3 DEF Fine

\* A step of one cleanup that touches no file.
LEMMA QuietStep ==
  ASSUME IInv, NEW p \in Cleaner, UNCHANGED <<files, session, exporter, recent>>,
         cleaner' \in [Cleaner -> Cleanup], lock' \in [Dirs -> Cleaner \cup {None}],
         \A q \in Cleaner \ {p} : cleaner'[q] = cleaner[q],
         \A d \in Dirs : lock[d] \in Cleaner \ {p} => lock'[d] = lock[d],
         Fine(p)'
  PROVE  IInv'
<1>1. TypeOK'
  BY DEF IInv, TypeOK, files
<1>2. ContentsKeepMarker' /\ OwnersBegun'
  BY DEF IInv, files, ContentsKeepMarker, OwnersBegun, Begun
<1>3. Alone(p)
  BY DEF Alone, files
<1>4. \A q \in Cleaner \ {p} : Fine(q)'
  BY <1>3, OthersFine DEF IInv
<1>5. \A q \in Cleaner : Fine(q)'
  BY <1>4
<1>6. QED
  BY <1>1, <1>2, <1>5 DEF IInv

LEMMA QuietReturn ==
  ASSUME IInv, NEW p \in Cleaner, NEW code \in Answers, cleaner[p].pc # "idle",
         code # "ABSENT" \/ ~cleaner[p].scanning, Return(p, code), UNCHANGED <<files, session, exporter, recent>>
  PROVE  IInv'
<1>1. TypeOK /\ ~cleaner[p].absent
  BY DEF IInv, Fine, Phases
<1>2. Fine(p)'
  BY <1>1, FineAfterReturn
<1>3. /\ cleaner' \in [Cleaner -> Cleanup] /\ lock' \in [Dirs -> Cleaner \cup {None}]
      /\ \A q \in Cleaner \ {p} : cleaner'[q] = cleaner[q]
      /\ \A d \in Dirs : lock[d] # p => lock'[d] = lock[d]
  BY <1>1, ReturnIs
<1>4. QED
  BY <1>2, <1>3, QuietStep

\* A step that moves a cleanup on and keeps its hands on what it has.
LEMMA QuietBecomes ==
  ASSUME IInv, NEW p \in Cleaner, NEW r \in Cleanup, Becomes(p, r), UNCHANGED <<files, lock, session, exporter, recent>>,
         Fine(p)'
  PROVE  IInv'
  BY QuietStep, BecomesIs DEF IInv, TypeOK

LEMMA QuietGoto ==
  ASSUME IInv, NEW p \in Cleaner, NEW pc \in Early \cup Work, Goto(p, pc), UNCHANGED <<files, lock, session, exporter, recent>>,
         Fine(p)'
  PROVE  IInv'
  BY QuietStep, GotoIs DEF IInv, TypeOK

-----------------------------------------------------------------------------
(* The steps of a cleanup that touch no file.                              *)

LEMMA VerdictIs ==
  ASSUME TypeOK, NEW d \in Dirs
  PROVE  IF Verdict(d) = "OK" THEN marker[d] \in Owner /\ ~Alive(marker[d])
                              ELSE Verdict(d) \in Answers /\ Verdict(d) # "ABSENT"
<1>1. marker[d] \in Owner \cup {Torn, None}
  BY DEF TypeOK
<1>2. QED
  BY <1>1 DEF Verdict, Answers, Codes

LEMMA StartStep == ASSUME IInv, NEW p \in Cleaner, Start(p) PROVE IInv'
<1> DEFINE r == [Idle EXCEPT !.pc = "look", !.tries = 1]
<1>1. /\ r \in Cleanup /\ r.pc = "look" /\ ~r.scanning /\ ~r.absent /\ r.held = Root /\ r.gone = None
  BY IdleType DEF Idle, Cleanup, Early
<1>2. Becomes(p, r)
  BY DEF Start
<1> HIDE DEF r
<1>3. cleaner'[p] = r
  BY <1>1, <1>2, BecomesIs DEF IInv
<1>4. Fine(p)'
  BY <1>1, <1>3, NoneIsNoDir DEF Fine, Locking, Phases, Claimed, Working, Work, Proven, GoneBegun, Begun, Owner, Listed
<1>5. QED
  BY <1>1, <1>2, <1>4, QuietBecomes DEF Start

LEMMA LookStep == ASSUME IInv, NEW p \in Cleaner, Look(p) PROVE IInv'
<1>1. /\ cleaner[p].pc = "look" /\ ~cleaner[p].scanning /\ cleaner[p].held = Root /\ ~cleaner[p].absent
      /\ cleaner[p] \in Cleanup /\ GoneBegun(p) /\ UNCHANGED <<files, lock, session, exporter, recent>>
  BY DEF IInv, TypeOK, Look, At_pc, Fine, Phases
<1>2. CASE Named(Root) = {}
  <2>1. Goto(p, "scan")
    BY <1>2 DEF Look
  <2>2. Fine(p)'
    BY <1>1, <2>1, GotoIs DEF IInv, Early, Fine, Locking, Phases, Claimed, Working, Work, Proven, GoneBegun, Begun, Listed
  <2>3. QED
    BY <1>1, <2>1, <2>2, QuietGoto DEF Early
<1>3. CASE Named(Root) # {}
  <2> DEFINE r == [cleaner[p] EXCEPT !.pc = "open", !.want = At(Root)]
  <2>1. At(Root) \in Dirs
    BY <1>3, AtIsNamed
  <2>2. /\ r \in Cleanup /\ r.pc = "open" /\ r.want \in Dirs /\ ~r.scanning /\ r.held = Root
        /\ ~r.absent /\ r.gone = cleaner[p].gone
    BY <1>1, <2>1 DEF Cleanup, Early
  <2>3. Becomes(p, r)
    BY <1>3 DEF Look
  <2> HIDE DEF r
  <2>4. cleaner'[p] = r
    BY <2>2, <2>3, BecomesIs DEF IInv
  <2>5. Fine(p)'
    BY <1>1, <2>2, <2>4 DEF Fine, Locking, Phases, Claimed, Working, Work, Proven, GoneBegun, Begun, Listed
  <2>6. QED
    BY <1>1, <2>2, <2>3, <2>5, QuietBecomes
<1>4. QED
  BY <1>2, <1>3

LEMMA OpenStep == ASSUME IInv, NEW p \in Cleaner, Open(p) PROVE IInv'
<1> DEFINE r == cleaner[p]
<1>1. /\ r.pc = "open" /\ r \in Cleanup /\ Fine(p) /\ r.want \in Dirs
      /\ UNCHANGED <<files, session, exporter, recent>>
  BY DEF IInv, TypeOK, Open, At_pc, Fine, Phases
<1>2. CASE Named(r.held) = {}
  <2>1. /\ Return(p, Vanished(p)) /\ Vanished(p) \in Answers /\ (Vanished(p) # "ABSENT" \/ ~r.scanning)
    BY <1>2 DEF Open, Vanished, Answers, Codes
  <2>2. QED
    BY <1>1, <2>1, QuietReturn
<1>3. CASE Named(r.held) # {} /\ At(r.held) # r.want
  <2>1. Return(p, "ROOT_CHANGED") /\ "ROOT_CHANGED" \in Answers
    BY <1>3 DEF Open, Answers, Codes
  <2>2. QED
    BY <1>1, <2>1, QuietReturn
<1>4. CASE Named(r.held) # {} /\ At(r.held) = r.want
  <2> DEFINE s == [r EXCEPT !.pc = "lock", !.fd = r.want]
  <2>1. /\ s \in Cleanup /\ s.pc = "lock" /\ s.fd \in Dirs /\ s.scanning = r.scanning /\ s.held = r.held
        /\ s.absent = r.absent /\ s.gone = r.gone /\ s.result = r.result /\ s.todo = r.todo
    BY <1>1 DEF Cleanup, Early
  <2>2. Becomes(p, s) /\ UNCHANGED lock
    BY <1>4 DEF Open
  <2> HIDE DEF s
  <2>3. cleaner'[p] = s
    BY <2>1, <2>2, BecomesIs DEF IInv
  <2>4. Listed(p)'
    BY <1>1, <2>1, <2>3 DEF Fine, Listed, files
  <2>5. Fine(p)'
    BY <1>1, <2>1, <2>3, <2>4 DEF Fine, Locking, Phases, Claimed, Working, Work, Proven, GoneBegun, Begun
  <2>6. QED
    BY <1>1, <2>1, <2>2, <2>5, QuietBecomes
<1>5. QED
  BY <1>2, <1>3, <1>4

LEMMA TakeLockStep == ASSUME IInv, NEW p \in Cleaner, TakeLock(p) PROVE IInv'
<1> DEFINE d == cleaner[p].fd
<1>1. /\ cleaner[p].pc = "lock" /\ Fine(p) /\ d \in Dirs /\ lock[d] = None /\ lock' = [lock EXCEPT ![d] = p]
      /\ Goto(p, "locked") /\ TypeOK /\ UNCHANGED <<files, session, exporter, recent>>
  BY DEF IInv, TakeLock, At_pc, Fine, Locking
<1>2. lock' \in [Dirs -> Cleaner \cup {None}] /\ lock'[d] = p /\ \A e \in Dirs : lock[e] \in Cleaner \ {p} => lock'[e] = lock[e]
  BY <1>1, NoneIsNoDir DEF TypeOK
<1>3. LET r == cleaner[p]  s == cleaner'[p] IN
      /\ cleaner' \in [Cleaner -> Cleanup]
      /\ \A q \in Cleaner \ {p} : cleaner'[q] = cleaner[q]
      /\ s.pc = "locked" /\ s.scanning = r.scanning /\ s.todo = r.todo /\ s.result = r.result /\ s.held = r.held
      /\ s.fd = r.fd /\ s.gone = r.gone /\ s.absent = r.absent
  BY <1>1, GotoIs DEF Early
<1>4. Listed(p)'
  BY <1>1, <1>3 DEF Fine, Listed, files
<1>5. Fine(p)'
  BY <1>1, <1>2, <1>3, <1>4 DEF Fine, Locking, Phases, Claimed, Working, Work, Proven, GoneBegun, Begun
<1>6. QED
  BY <1>1, <1>2, <1>3, <1>5, QuietStep

LEMMA LostLockStep == ASSUME IInv, NEW p \in Cleaner, WaitTooLong(p) \/ Moved(p) PROVE IInv'
<1>1. PICK code \in {"REMOVE_FAILED", "RETRY", "ROOT_CHANGED"} : Return(p, code)
  BY DEF WaitTooLong, Moved
<1>2. cleaner[p].pc # "idle" /\ UNCHANGED <<files, session, exporter, recent>>
  BY DEF WaitTooLong, Moved, At_pc
<1>3. QED
  BY <1>1, <1>2, QuietReturn DEF Answers, Codes

LEMMA OwnsStep == ASSUME IInv, NEW p \in Cleaner, Owns(p) PROVE IInv'
<1> DEFINE r == cleaner[p]
           pc == IF r.scanning THEN "finish" ELSE "marker"
<1>1. /\ r.pc = "locked" /\ r \in Cleanup /\ Fine(p) /\ name[r.fd] = r.held /\ Goto(p, pc) /\ pc \in Early \cup Work
      /\ UNCHANGED <<files, lock, session, exporter, recent>>
  BY DEF IInv, TypeOK, Owns, At_pc, Early, Work
<1>2. LET s == cleaner'[p] IN
      /\ s.pc = pc /\ s.scanning = r.scanning /\ s.todo = r.todo /\ s.result = r.result /\ s.held = r.held
      /\ s.fd = r.fd /\ s.gone = r.gone /\ s.absent = r.absent
  BY <1>1, GotoIs DEF IInv
<1>3. Listed(p)'
  BY <1>1, <1>2 DEF Fine, Listed, files
<1>4. r.scanning => r.held \in Claims
  BY <1>1 DEF Fine, Phases, Cleanup
<1>5. Fine(p)'
  BY <1>1, <1>2, <1>3, <1>4 DEF Fine, Locking, Phases, Claimed, Working, Work, Proven, GoneBegun, Begun, files
<1>6. QED
  BY <1>1, <1>5, QuietGoto

LEMMA RefuseStep == ASSUME IInv, NEW p \in Cleaner, Refuse(p) PROVE IInv'
<1>1. cleaner[p].pc = "marker" /\ cleaner[p].fd \in Dirs /\ TypeOK
  BY DEF IInv, Refuse, At_pc, Fine, Locking
<1>2. QED
  BY <1>1, VerdictIs, QuietReturn DEF Refuse

LEMMA FinishStep == ASSUME IInv, NEW p \in Cleaner, Finish(p) PROVE IInv'
<1> DEFINE r == cleaner[p]
<1>1. /\ r.pc = "finish" /\ Fine(p) /\ r.fd \in Dirs /\ TypeOK /\ UNCHANGED <<files, session, exporter, recent>>
  BY DEF IInv, Finish, At_pc, Fine, Locking, Work
<1>2. ASSUME NEW pc \in {"remove", "rmdir"}, Goto(p, pc), UNCHANGED lock, pc = "remove" => Verdict(r.fd) = "OK"
      PROVE  IInv'
  <2>1. LET s == cleaner'[p] IN
        /\ s.pc = pc /\ s.scanning = r.scanning /\ s.todo = r.todo /\ s.result = r.result /\ s.held = r.held
        /\ s.fd = r.fd /\ s.gone = r.gone /\ s.absent = r.absent
    BY <1>1, <1>2, GotoIs DEF Work
  <2>2. Listed(p)'
    BY <1>1, <2>1 DEF Fine, Listed, files
  <2>3. Proven(p)'
    BY <1>1, <1>2, <2>1, VerdictIs DEF Proven, Alive, files
  <2>4. Fine(p)'
    BY <1>1, <1>2, <2>1, <2>2, <2>3 DEF Fine, Locking, Phases, Claimed, Working, Work, GoneBegun, Begun, files
  <2>5. QED
    BY <1>1, <1>2, <2>4, QuietGoto DEF Work
<1>3. CASE Verdict(r.fd) = "OK"
  BY <1>2, <1>3 DEF Finish
<1>4. CASE Verdict(r.fd) # "OK" /\ Empty(r.fd)
  BY <1>2, <1>4 DEF Finish
<1>5. CASE Verdict(r.fd) # "OK" /\ ~Empty(r.fd)
  <2>1. Return(p, Verdict(r.fd))
    BY <1>5 DEF Finish
  <2>2. QED
    BY <1>1, <1>5, <2>1, VerdictIs, QuietReturn
<1>6. QED
  BY <1>3, <1>4, <1>5

\* _put_back begins.
LEMMA PutBackStep ==
  ASSUME IInv, NEW p \in Cleaner, NEW pc \in Work, cleaner[p].pc = pc, NEW r \in Cleanup, Becomes(p, r),
         r.pc = "restore", r.code # "ABSENT", r.gone \in {cleaner[p].gone, None},
         r.fd = cleaner[p].fd, r.held = cleaner[p].held, r.scanning = cleaner[p].scanning,
         r.result = cleaner[p].result, r.todo = cleaner[p].todo, r.absent = cleaner[p].absent,
         UNCHANGED <<files, lock, session, exporter, recent>>
  PROVE  IInv'
<1>1. cleaner'[p] = r /\ Fine(p) /\ pc # "idle" /\ pc # "next" /\ pc # "scan"
  BY BecomesIs DEF IInv, Work
<1>2. Listed(p)'
  BY <1>1 DEF Fine, Listed, files
<1>3. Locking(p)' /\ Phases(p)' /\ Claimed(p)' /\ Proven(p)'
  BY <1>1 DEF Fine, Locking, Phases, Claimed, Working, Work, Proven, files
<1>4. GoneBegun(p)'
  BY <1>1, NoneIsNoDir DEF Fine, GoneBegun, Begun, Owner
<1>5. QED
  BY <1>2, <1>3, <1>4, QuietBecomes DEF Fine

LEMMA GiveUpStep == ASSUME IInv, NEW p \in Cleaner, RemoveFails(p) \/ RmdirFails(p) \/ InterruptFinish(p) PROVE IInv'
<1> DEFINE r == cleaner[p]
<1>1. r \in Cleanup /\ r.pc \in Work /\ UNCHANGED <<files, lock, session, exporter, recent>>
  BY DEF IInv, TypeOK, RemoveFails, RmdirFails, InterruptFinish, At_pc, Work
<1>2. CASE RemoveFails(p) \/ RmdirFails(p)
  <2> DEFINE s == [r EXCEPT !.pc = "restore", !.code = "REMOVE_FAILED"]
  <2>1. /\ s \in Cleanup /\ s.pc = "restore" /\ s.code # "ABSENT" /\ s.gone = r.gone
        /\ s.fd = r.fd /\ s.held = r.held /\ s.scanning = r.scanning
        /\ s.result = r.result /\ s.todo = r.todo /\ s.absent = r.absent
    BY <1>1 DEF Cleanup, Work, Codes
  <2>2. Becomes(p, s)
    BY <1>2 DEF RemoveFails, RmdirFails, PutBack
  <2> HIDE DEF s
  <2>3. QED
    BY <1>1, <2>1, <2>2, PutBackStep
<1>3. CASE InterruptFinish(p)
  <2> DEFINE s == [r EXCEPT !.pc = "restore", !.code = "interrupted", !.signalled = TRUE]
  <2>1. /\ s \in Cleanup /\ s.pc = "restore" /\ s.code # "ABSENT" /\ s.gone = r.gone
        /\ s.fd = r.fd /\ s.held = r.held /\ s.scanning = r.scanning
        /\ s.result = r.result /\ s.todo = r.todo /\ s.absent = r.absent
    BY <1>1 DEF Cleanup, Work, Codes
  <2>2. Becomes(p, s)
    BY <1>3 DEF InterruptFinish
  <2> HIDE DEF s
  <2>3. QED
    BY <1>1, <2>1, <2>2, PutBackStep
<1>4. QED
  BY <1>2, <1>3

LEMMA InterruptPutBackStep == ASSUME IInv, NEW p \in Cleaner, InterruptPutBack(p) PROVE IInv'
<1> DEFINE r == cleaner[p]
<1>1. r \in Cleanup /\ r.pc \in Work /\ r.pc # "idle" /\ UNCHANGED <<files, session, exporter, recent>>
  BY DEF IInv, TypeOK, InterruptPutBack, Work
<1>2. CASE r.gone # None /\ ~r.claimed
  BY <1>1, <1>2, QuietReturn DEF InterruptPutBack, Answers, Codes
<1>3. CASE ~(r.gone # None /\ ~r.claimed)
  <2> DEFINE s == [r EXCEPT !.pc = "restore", !.gone = None, !.code = "interrupted", !.signalled = TRUE]
  <2>1. /\ s \in Cleanup /\ s.pc = "restore" /\ s.code # "ABSENT" /\ s.gone = None
        /\ s.fd = r.fd /\ s.held = r.held /\ s.scanning = r.scanning
        /\ s.result = r.result /\ s.todo = r.todo /\ s.absent = r.absent
    BY <1>1 DEF Cleanup, Work, Codes
  <2>2. Becomes(p, s) /\ UNCHANGED lock
    BY <1>3 DEF InterruptPutBack
  <2> HIDE DEF s
  <2>3. QED
    BY <1>1, <2>1, <2>2, PutBackStep
<1>4. QED
  BY <1>2, <1>3

LEMMA NothingToKeepStep == ASSUME IInv, NEW p \in Cleaner, NothingToKeep(p) PROVE IInv'
<1> DEFINE r == cleaner[p]
<1>1. /\ r \in Cleanup /\ r.pc = "restore" /\ Fine(p) /\ TypeOK /\ UNCHANGED <<files, session, exporter, recent>>
  BY DEF IInv, TypeOK, NothingToKeep, At_pc
<1>2. CASE r.gone = None /\ Empty(r.fd)
  <2>1. Return(p, r.code) /\ r.code \in Answers /\ r.code # "ABSENT"
    BY <1>1, <1>2 DEF NothingToKeep, Answers, Cleanup, Fine, Phases
  <2>2. QED
    BY <1>1, <2>1, QuietReturn
<1>3. CASE ~(r.gone = None /\ Empty(r.fd))
  <2>1. Goto(p, "rename") /\ UNCHANGED lock
    BY <1>3 DEF NothingToKeep
  <2>2. LET s == cleaner'[p] IN
        /\ s.pc = "rename" /\ s.scanning = r.scanning /\ s.todo = r.todo /\ s.result = r.result /\ s.held = r.held
        /\ s.fd = r.fd /\ s.gone = r.gone /\ s.code = r.code /\ s.absent = r.absent
    BY <1>1, <2>1, GotoIs DEF Work
  <2>3. Listed(p)'
    BY <1>1, <2>2 DEF Fine, Listed, files
  <2>4. Fine(p)'
    BY <1>1, <2>1, <2>2, <2>3 DEF Fine, Locking, Phases, Claimed, Working, Work, Proven, GoneBegun, Begun, files
  <2>5. QED
    BY <1>1, <2>1, <2>4, QuietGoto DEF Work
<1>4. QED
  BY <1>2, <1>3

LEMMA NextLeftoverStep == ASSUME IInv, NEW p \in Cleaner, NEW c \in Claims, NextLeftover(p, c) PROVE IInv'
<1> DEFINE r == [cleaner[p] EXCEPT !.todo = @ \ {c}]
           s == [r EXCEPT !.pc = "open", !.held = c, !.want = At(c)]
<1>1. /\ cleaner[p] \in Cleanup /\ cleaner[p].pc = "next" /\ Fine(p) /\ cleaner[p].scanning /\ ~cleaner[p].absent
      /\ UNCHANGED <<files, lock, session, exporter, recent>>
  BY DEF IInv, TypeOK, NextLeftover, At_pc, Fine, Phases
<1>2. /\ r \in Cleanup /\ r.pc = "next" /\ r.scanning /\ r.todo = cleaner[p].todo \ {c} /\ r.held = cleaner[p].held
      /\ r.gone = cleaner[p].gone /\ r.result = cleaner[p].result /\ ~r.absent
  BY <1>1 DEF Cleanup
<1>3. CASE Named(c) = {}
  <2>1. Becomes(p, r)
    BY <1>3 DEF NextLeftover
  <2> HIDE DEF r
  <2>2. cleaner'[p] = r
    BY <1>2, <2>1, BecomesIs DEF IInv
  <2>3. Listed(p)'
    BY <1>1, <1>2, <1>3, <2>2 DEF Fine, Listed, files, Named
  <2>4. Fine(p)'
    BY <1>1, <1>2, <2>2, <2>3 DEF Fine, Locking, Phases, Claimed, Working, Work, Proven, GoneBegun, Begun
  <2>5. QED
    BY <1>1, <1>2, <2>1, <2>4, QuietBecomes
<1>4. CASE Named(c) # {}
  <2>1. Becomes(p, s)
    BY <1>4 DEF NextLeftover
  <2> HIDE DEF r
  <2>2. At(c) \in Dirs /\ c # Root
    BY <1>4, AtIsNamed, NoneIsNoDir
  <2>3. /\ s \in Cleanup /\ s.pc = "open" /\ s.scanning /\ s.todo = r.todo /\ s.held = c /\ s.want \in Dirs
        /\ s.gone = r.gone /\ s.result = r.result /\ ~s.absent
    BY <1>2, <2>2 DEF Cleanup, Early
  <2> HIDE DEF s
  <2>4. cleaner'[p] = s
    BY <2>1, <2>3, BecomesIs DEF IInv
  <2>5. Listed(p)'
    BY <1>1, <1>2, <2>3, <2>4 DEF Fine, Listed, files
  <2>6. Fine(p)'
    BY <1>1, <1>2, <2>2, <2>3, <2>4, <2>5 DEF Fine, Locking, Phases, Claimed, Working, Work, Proven, GoneBegun, Begun
  <2>7. QED
    BY <1>1, <2>1, <2>3, <2>6, QuietBecomes
<1>5. QED
  BY <1>3, <1>4

LEMMA ConcludeStep == ASSUME IInv, NEW p \in Cleaner, Conclude(p) PROVE IInv'
<1> DEFINE r == cleaner[p]
           s == IF r.result = "RETRY" \/ (r.result = "ABSENT" /\ Named(Root) # {}) THEN Again(r) ELSE Answered(r.result)
<1>1. /\ r \in Cleanup /\ r.pc = "next" /\ ~r.absent /\ Becomes(p, s)
      /\ UNCHANGED <<files, lock, session, exporter, recent>>
  BY DEF IInv, TypeOK, Conclude, At_pc, Fine, Phases
<1>2. s \in Cleanup /\ s.pc \in {"idle", "look"} /\ s.gone = None /\ ~s.scanning
      /\ (s.pc = "look" => s.held = Root /\ ~s.absent)
  <2>1. CASE r.result = "RETRY" \/ (r.result = "ABSENT" /\ Named(Root) # {})
    BY <1>1, <2>1, AgainIs
  <2>2. CASE ~(r.result = "RETRY" \/ (r.result = "ABSENT" /\ Named(Root) # {}))
    <3>1. r.result \in Codes
      BY <1>1, <2>2 DEF Cleanup, Answers
    <3>2. QED
      BY <2>2, <3>1, AnsweredIs
  <2>3. QED
    BY <2>1, <2>2
<1> HIDE DEF s
<1>3. cleaner'[p] = s
  BY <1>1, <1>2, BecomesIs DEF IInv
<1>4. Fine(p)'
  BY <1>2, <1>3, NoneIsNoDir DEF Fine, Locking, Phases, Claimed, Working, Work, Proven, GoneBegun, Begun, Owner, Listed
<1>5. QED
  BY <1>1, <1>2, <1>4, QuietBecomes

LEMMA InterruptEarlyStep == ASSUME IInv, NEW p \in Cleaner, InterruptEarly(p) PROVE IInv'
  BY QuietReturn DEF InterruptEarly, Answers, Codes

LEMMA KillStep == ASSUME IInv, NEW p \in Cleaner, Kill(p) PROVE IInv'
<1> DEFINE s == Answered("interrupted")
<1>1. s \in Cleanup /\ s.pc = "idle" /\ ~s.scanning /\ s.gone = None
  BY AnsweredIs DEF Codes
<1>2. Becomes(p, s) /\ Unlock(p) /\ UNCHANGED <<files, session, exporter, recent>>
  BY DEF Kill
<1> HIDE DEF s
<1>3. /\ cleaner' \in [Cleaner -> Cleanup] /\ cleaner'[p] = s /\ lock' \in [Dirs -> Cleaner \cup {None}]
      /\ \A q \in Cleaner \ {p} : cleaner'[q] = cleaner[q]
      /\ \A d \in Dirs : lock[d] # p => lock'[d] = lock[d]
  BY <1>1, <1>2, BecomesIs, UnlockIs DEF IInv
<1>4. Fine(p)'
  BY <1>1, <1>3, NoneIsNoDir DEF Fine, Locking, Phases, Claimed, Working, Work, Proven, GoneBegun, Begun, Owner, Listed
<1>5. QED
  BY <1>2, <1>3, <1>4, QuietStep

-----------------------------------------------------------------------------
(* The steps of a cleanup that touch files.                                *)

LEMMA AloneStep ==
  ASSUME IInv, NEW p \in Cleaner, Alone(p), TypeOK', Fine(p)', ContentsKeepMarker', OwnersBegun'
  PROVE  IInv'
<1>1. \A q \in Cleaner \ {p} : Fine(q)'
  BY OthersFine DEF IInv
<1>2. QED
  BY <1>1 DEF IInv

\* The directory that a cleanup works on.
LEMMA WorkIs ==
  ASSUME IInv, NEW p \in Cleaner, cleaner[p].pc \in Work
  PROVE  LET r == cleaner[p] IN
         /\ r \in Cleanup /\ Fine(p) /\ TypeOK /\ r.fd \in Dirs /\ lock[r.fd] = p /\ name[r.fd] = r.held
         /\ r.held \in Claims /\ ~r.absent /\ r.pc # "idle"
  BY DEF IInv, TypeOK, Fine, Locking, Phases, Claimed, Working, Work

LEMMA ClaimStep == ASSUME IInv, NEW p \in Cleaner, Claim(p) PROVE IInv'
<1> DEFINE r == cleaner[p]
           d == r.fd
           c == Least(FreeClaims)
           s == [r EXCEPT !.pc = "finish", !.held = c, !.claimed = TRUE]
<1>1. /\ r \in Cleanup /\ r.pc = "marker" /\ Fine(p) /\ TypeOK /\ d \in Dirs /\ lock[d] = p /\ ~r.scanning /\ ~r.absent
      /\ name' = [name EXCEPT ![d] = c] /\ Becomes(p, s)
      /\ recent' = [q \in Cleaner |-> IF cleaner[q].scanning THEN recent[q] \cup {d} ELSE recent[q]]
      /\ UNCHANGED <<marker, tree, sidecar, stray, written, lock, session, exporter>>
  BY DEF IInv, TypeOK, Claim, At_pc, Fine, Locking, Phases
<1>2. c \in Claims
  BY LeastIsIn, RootAssumption DEF Claim, FreeClaims
<1>3. marker[d] \in Owner
  BY <1>1, VerdictIs DEF Claim
<1> HIDE DEF c
<1>4. /\ s \in Cleanup /\ s.pc = "finish" /\ s.held = c /\ s.fd = d /\ s.scanning = r.scanning /\ s.absent = r.absent
      /\ s.gone = r.gone
  BY <1>1, <1>2 DEF Cleanup, Work
<1> HIDE DEF s
<1>5. /\ cleaner' \in [Cleaner -> Cleanup] /\ cleaner'[p] = s
      /\ \A q \in Cleaner \ {p} : cleaner'[q] = cleaner[q]
  BY <1>1, <1>4, BecomesIs
<1>6. TypeOK'
  BY <1>1, <1>2, <1>5 DEF TypeOK
<1>7. name'[d] = c /\ \A e \in Dirs \ {d} : name'[e] = name[e]
  BY <1>1 DEF TypeOK
<1>8. Alone(p)
  BY <1>1, <1>5, <1>7 DEF Alone
<1>9. Fine(p)'
  BY <1>1, <1>2, <1>4, <1>5, <1>7
     DEF Fine, Locking, Phases, Claimed, Working, Work, Proven, GoneBegun, Begun, Listed
<1>10. ContentsKeepMarker' /\ OwnersBegun'
  BY <1>1, <1>3, <1>7 DEF IInv, ContentsKeepMarker, OwnersBegun, Begun
<1>11. QED
  BY <1>6, <1>8, <1>9, <1>10, AloneStep

LEMMA RemoveStep == ASSUME IInv, NEW p \in Cleaner, RemoveOne(p) PROVE IInv'
<1>1. UNCHANGED <<name, marker, stray, written, lock, session, cleaner, exporter, recent>> /\ TypeOK
  BY DEF RemoveOne, IInv
<1>2. /\ tree' \in [Dirs -> Exporter \cup {None}] /\ sidecar' \in [Dirs -> Exporter \cup {None}]
      /\ \A d \in Dirs : tree'[d] \in {tree[d], None} /\ sidecar'[d] \in {sidecar[d], None}
  BY <1>1 DEF RemoveOne, TypeOK
<1>3. TypeOK'
  BY <1>1, <1>2 DEF TypeOK
<1>4. ContentsKeepMarker' /\ OwnersBegun'
  BY <1>1, <1>2 DEF IInv, ContentsKeepMarker, OwnersBegun, Begun
<1>5. \A q \in Cleaner : Fine(q)'
  BY <1>1 DEF IInv, Fine, Locking, Phases, Claimed, Working, Proven, Alive, GoneBegun, Begun, Listed
<1>6. QED
  BY <1>3, <1>4, <1>5 DEF IInv

LEMMA RemoveStrayStep == ASSUME IInv, NEW p \in Cleaner, RemoveStray(p) PROVE IInv'
<1> DEFINE r == cleaner[p]
           s == [r EXCEPT !.passes = @ + 1]
<1>1. /\ r \in Cleanup /\ r.pc = "remove" /\ Fine(p) /\ TypeOK
      /\ stray' = [stray EXCEPT ![r.fd] = FALSE] /\ Becomes(p, s)
      /\ UNCHANGED <<name, marker, tree, sidecar, written, lock, session, exporter, recent>>
  BY DEF IInv, TypeOK, RemoveStray, At_pc
<1>2. /\ s \in Cleanup /\ s.pc = r.pc /\ s.held = r.held /\ s.fd = r.fd /\ s.scanning = r.scanning /\ s.absent = r.absent
      /\ s.gone = r.gone /\ s.todo = r.todo /\ s.result = r.result /\ s.code = r.code /\ s.want = r.want
  BY <1>1 DEF Cleanup
<1> HIDE DEF s
<1>3. /\ cleaner' \in [Cleaner -> Cleanup] /\ cleaner'[p] = s
      /\ \A q \in Cleaner \ {p} : cleaner'[q] = cleaner[q]
  BY <1>1, <1>2, BecomesIs
<1>4. TypeOK'
  BY <1>1, <1>3 DEF TypeOK
<1>5. Alone(p)
  BY <1>1, <1>3 DEF Alone
<1>6. Fine(p)'
  BY <1>1, <1>2, <1>3 DEF Fine, Locking, Phases, Claimed, Working, Work, Proven, Alive, GoneBegun, Begun, Listed
<1>7. ContentsKeepMarker' /\ OwnersBegun'
  BY <1>1 DEF IInv, ContentsKeepMarker, OwnersBegun, Begun
<1>8. QED
  BY <1>4, <1>5, <1>6, <1>7, AloneStep

LEMMA UnlinkMarkerStep == ASSUME IInv, NEW p \in Cleaner, UnlinkMarker(p) PROVE IInv'
<1> DEFINE r == cleaner[p]
           d == r.fd
           s == [r EXCEPT !.pc = "rmdir", !.gone = marker[d]]
<1>1. /\ r.pc = "remove" /\ ~Holds(d) /\ marker' = [marker EXCEPT ![d] = None] /\ Becomes(p, s)
      /\ UNCHANGED <<name, tree, sidecar, stray, written, lock, session, exporter, recent>>
  BY DEF UnlinkMarker, At_pc
<1>2. /\ r \in Cleanup /\ Fine(p) /\ TypeOK /\ d \in Dirs /\ lock[d] = p /\ name[d] = r.held /\ r.held \in Claims /\ ~r.absent
      /\ marker[d] \in Owner
  BY <1>1, WorkIs DEF Work, Fine, Proven
<1>3. /\ s \in Cleanup /\ s.pc = "rmdir" /\ s.held = r.held /\ s.fd = r.fd /\ s.scanning = r.scanning /\ s.absent = r.absent
      /\ s.gone = marker[d] /\ s.todo = r.todo /\ s.result = r.result
  BY <1>2 DEF Cleanup, Work
<1> HIDE DEF s
<1>4. /\ cleaner' \in [Cleaner -> Cleanup] /\ cleaner'[p] = s
      /\ \A q \in Cleaner \ {p} : cleaner'[q] = cleaner[q]
  BY <1>1, <1>2, <1>3, BecomesIs
<1>5. marker'[d] = None /\ \A e \in Dirs \ {d} : marker'[e] = marker[e]
  BY <1>1, <1>2 DEF TypeOK
<1>6. TypeOK'
  BY <1>1, <1>2, <1>4 DEF TypeOK
<1>7. Alone(p)
  BY <1>1, <1>2, <1>4, <1>5 DEF Alone
<1>8. GoneBegun(p)'
  BY <1>1, <1>2, <1>3, <1>4 DEF IInv, OwnersBegun, GoneBegun, Begun
<1>9. Fine(p)'
  BY <1>1, <1>2, <1>3, <1>4, <1>8 DEF Fine, Locking, Phases, Claimed, Working, Work, Proven, Listed
<1>10. ContentsKeepMarker'
  BY <1>1, <1>2, <1>5 DEF IInv, ContentsKeepMarker, Holds
<1>11. OwnersBegun'
  BY <1>1, <1>5, NoneIsNoDir DEF IInv, OwnersBegun, Begun, Owner
<1>12. QED
  BY <1>6, <1>7, <1>9, <1>10, <1>11, AloneStep

\* Steps of a cleanup that end its work on the directory it has, which goes
\* (Rmdir) or returns to the root's name (RenameBack).
LEMMA ReleaseStep ==
  ASSUME IInv, NEW p \in Cleaner, cleaner[p].pc \in Work, NEW code \in Answers, code # "ABSENT", Return(p, code),
         NEW n \in {None, Root}, name' \in {name, [name EXCEPT ![cleaner[p].fd] = n]},
         UNCHANGED <<marker, tree, sidecar, stray, written, session, exporter, recent>>
  PROVE  IInv'
<1> DEFINE d == cleaner[p].fd
<1>1. TypeOK /\ ~cleaner[p].absent /\ d \in Dirs /\ lock[d] = p
  BY WorkIs
<1>2. /\ cleaner' \in [Cleaner -> Cleanup] /\ lock' \in [Dirs -> Cleaner \cup {None}]
      /\ \A q \in Cleaner \ {p} : cleaner'[q] = cleaner[q]
      /\ \A e \in Dirs : lock[e] # p => lock'[e] = lock[e]
  BY <1>1, ReturnIs
<1>3. name' \in [Dirs -> Claims \cup {Root, None}] /\ \A e \in Dirs : name'[e] # name[e] => e = d /\ name'[e] = n
  BY <1>1 DEF TypeOK
<1>4. TypeOK'
  BY <1>1, <1>2, <1>3 DEF TypeOK
<1>5. Alone(p)
  BY <1>1, <1>2, <1>3 DEF Alone
<1>6. Fine(p)'
  BY <1>1, FineAfterReturn
<1>7. ContentsKeepMarker' /\ OwnersBegun'
  BY <1>3, NoneIsNoDir DEF IInv, ContentsKeepMarker, OwnersBegun, Begun
<1>8. QED
  BY <1>4, <1>5, <1>6, <1>7, AloneStep

LEMMA RmdirStep == ASSUME IInv, NEW p \in Cleaner, Rmdir(p) PROVE IInv'
<1>1. cleaner[p].pc \in Work /\ Return(p, "REMOVED") /\ name' = [name EXCEPT ![cleaner[p].fd] = None]
  BY DEF Rmdir, At_pc, Work
<1>2. QED
  BY <1>1, ReleaseStep DEF Rmdir, Answers, Codes

LEMMA RenameBackStep == ASSUME IInv, NEW p \in Cleaner, RenameBack(p) PROVE IInv'
<1>1. cleaner[p].pc = "rename" /\ cleaner[p].pc \in Work /\ Return(p, cleaner[p].code)
      /\ name' \in {name, [name EXCEPT ![cleaner[p].fd] = Root]}
  BY DEF RenameBack, At_pc, Work
<1>2. cleaner[p].code \in Answers /\ cleaner[p].code # "ABSENT"
  BY <1>1 DEF IInv, TypeOK, Fine, Phases, Cleanup, Answers
<1>3. QED
  BY <1>1, <1>2, ReleaseStep DEF RenameBack

\* Steps of a cleanup that write the marker of the directory it has again.
LEMMA RemarkStep ==
  ASSUME IInv, NEW p \in Cleaner, NEW pc \in {"refill", "rename"}, Goto(p, pc),
         cleaner[p].pc = IF pc = "refill" THEN "restore" ELSE "refill",
         pc = "refill" => cleaner[p].gone # None /\ marker[cleaner[p].fd] = None,
         marker' = [marker EXCEPT ![cleaner[p].fd] = IF pc = "refill" THEN Torn ELSE cleaner[p].gone],
         UNCHANGED <<name, tree, sidecar, stray, written, lock, session, exporter, recent>>
  PROVE  IInv'
<1> DEFINE r == cleaner[p]
           d == r.fd
           m == IF pc = "refill" THEN Torn ELSE r.gone
<1>1. /\ r \in Cleanup /\ Fine(p) /\ TypeOK /\ d \in Dirs /\ lock[d] = p /\ name[d] = r.held /\ r.held \in Claims /\ ~r.absent
      /\ r.gone \in Owner
  BY WorkIs DEF Work, Fine, Phases, Cleanup
<1>2. LET s == cleaner'[p] IN
      /\ cleaner' \in [Cleaner -> Cleanup]
      /\ \A q \in Cleaner \ {p} : cleaner'[q] = cleaner[q]
      /\ s.pc = pc /\ s.scanning = r.scanning /\ s.todo = r.todo /\ s.result = r.result /\ s.held = r.held
      /\ s.want = r.want /\ s.fd = r.fd /\ s.gone = r.gone /\ s.code = r.code /\ s.absent = r.absent
  BY <1>1, GotoIs DEF Work
<1>3. m \in Owner \cup {Torn} /\ Begun(m) /\ (pc = "rename" => m \in Owner)
  BY <1>1, RootAssumption DEF Fine, GoneBegun, Begun, Owner
<1> HIDE DEF m
<1>4. marker'[d] = m /\ (\A e \in Dirs \ {d} : marker'[e] = marker[e]) /\ marker' \in [Dirs -> Owner \cup {Torn, None}]
  BY <1>1, <1>3 DEF TypeOK, m
<1>5. TypeOK'
  BY <1>1, <1>2, <1>4 DEF TypeOK
<1>6. Alone(p)
  BY <1>1, <1>2, <1>4 DEF Alone
<1>7. Listed(p)'
  BY <1>1, <1>2 DEF Fine, Listed
<1>8. Phases(p)'
  BY <1>1, <1>2 DEF Fine, Phases
<1>9. Fine(p)'
  BY <1>1, <1>2, <1>7, <1>8 DEF Fine, Locking, Claimed, Working, Work, Proven, GoneBegun, Begun
<1>10. ContentsKeepMarker'
  BY <1>1, <1>3, <1>4, NoneIsNoDir DEF IInv, ContentsKeepMarker
<1>11. OwnersBegun'
  BY <1>3, <1>4 DEF IInv, OwnersBegun, Begun
<1>12. QED
  BY <1>5, <1>6, <1>9, <1>10, <1>11, AloneStep

LEMMA RestoreMarkerStep == ASSUME IInv, NEW p \in Cleaner, RestoreMarker(p) PROVE IInv'
  BY RemarkStep DEF RestoreMarker, At_pc

LEMMA RefillMarkerStep == ASSUME IInv, NEW p \in Cleaner, RefillMarker(p) PROVE IInv'
  BY RemarkStep DEF RefillMarker, At_pc

LEMMA ScanStep == ASSUME IInv, NEW p \in Cleaner, Scan(p) PROVE IInv'
<1> DEFINE r == cleaner[p]
           s == [r EXCEPT !.pc = "next", !.scanning = TRUE, !.todo = Leftovers]
<1>1. /\ r \in Cleanup /\ r.pc = "scan" /\ Fine(p) /\ ~r.absent /\ TypeOK /\ Becomes(p, s)
      /\ recent' = [recent EXCEPT ![p] = {}] /\ UNCHANGED <<files, lock, session, exporter>>
  BY DEF IInv, TypeOK, Scan, At_pc, Fine, Phases
<1>2. Leftovers \subseteq Claims /\ \A d \in Dirs : name[d] \in {None, Root} \cup Leftovers
  BY <1>1 DEF Leftovers, TypeOK
<1>3. s \in Cleanup /\ s.pc = "next" /\ s.scanning /\ s.todo = Leftovers /\ ~s.absent /\ s.gone = r.gone
  BY <1>1, <1>2 DEF Cleanup, Early
<1> HIDE DEF s
<1>4. /\ cleaner' \in [Cleaner -> Cleanup] /\ cleaner'[p] = s
      /\ \A q \in Cleaner \ {p} : cleaner'[q] = cleaner[q]
  BY <1>1, <1>3, BecomesIs
<1>5. TypeOK'
  BY <1>1, <1>4 DEF TypeOK, files
<1>6. Alone(p)
  BY <1>1, <1>4 DEF Alone, files, TypeOK
<1>7. Fine(p)'
  BY <1>1, <1>2, <1>3, <1>4 DEF Fine, Locking, Phases, Claimed, Working, Work, Proven, GoneBegun, Begun, Listed, files
<1>8. ContentsKeepMarker' /\ OwnersBegun'
  BY <1>1 DEF IInv, files, ContentsKeepMarker, OwnersBegun, Begun
<1>9. QED
  BY <1>5, <1>6, <1>7, <1>8, AloneStep

-----------------------------------------------------------------------------
(* Steps of exports and of the rest of the world.                          *)

\* What every cleanup can rely on: only a directory that nobody has open is
\* made into a root, and a dead owner stays dead.
Apart ==
  /\ UNCHANGED <<lock, cleaner, recent>>
  /\ \A d \in Dirs : \/ name'[d] = name[d] /\ marker'[d] = marker[d]
                     \/ name'[d] = Root /\ \A p \in Cleaner : cleaner[p].fd # d
  /\ session' => session
  /\ \A e \in Exporter : exporter[e].pc # "new" => /\ exporter'[e].pc # "new"
                                                   /\ exporter[e].pc \in {"done", "failed"} => exporter'[e].pc = exporter[e].pc

LEMMA ApartStep ==
  ASSUME IInv, Apart, TypeOK', ContentsKeepMarker', OwnersBegun'
  PROVE  IInv'
<1> SUFFICES ASSUME NEW p \in Cleaner PROVE Fine(p)'
  BY DEF IInv
<1>1. Fine(p) /\ OwnersBegun
  BY DEF IInv
<1>2. \A d \in Dirs : cleaner[p].fd = d => name'[d] = name[d] /\ marker'[d] = marker[d]
  BY DEF Apart
<1>3. Locking(p)' /\ Phases(p)' /\ Claimed(p)' /\ GoneBegun(p)' /\ Listed(p)'
  BY <1>1, <1>2 DEF Apart, Fine, Locking, Phases, Claimed, Working, Work, GoneBegun, Begun, Listed
<1>4. Proven(p)'
  BY <1>1, <1>2 DEF Apart, Fine, Locking, Work, Proven, Alive, OwnersBegun, Begun
<1>5. QED
  BY <1>3, <1>4 DEF Fine

LEMMA CreateStep == ASSUME IInv, NEW e \in Exporter, NEW owner \in {e, Session}, Create(e, owner) PROVE IInv'
<1> DEFINE d == Least(FreeDirs)
<1>1. d \in FreeDirs
  BY LeastIsIn, RootAssumption DEF Create, FreeDirs
<1>2. /\ name' = [name EXCEPT ![d] = Root] /\ marker' = [marker EXCEPT ![d] = owner]
      /\ exporter' = [exporter EXCEPT ![e] = [pc |-> "mkdir", dir |-> d]]
      /\ UNCHANGED <<tree, sidecar, stray, written, lock, session, cleaner, recent>>
      /\ TypeOK /\ exporter[e].pc = "new"
  BY DEF Create, IInv
<1> HIDE DEF d
<1>3. d \in Dirs /\ (\A p \in Cleaner : cleaner[p].fd # d) /\ owner \in Owner
  BY <1>1 DEF FreeDirs, Owner
<1>4. TypeOK'
  BY <1>2, <1>3 DEF TypeOK, Export_pcs
<1>5. /\ name'[d] = Root /\ marker'[d] = owner /\ exporter'[e].pc = "mkdir"
      /\ \A c \in Dirs \ {d} : name'[c] = name[c] /\ marker'[c] = marker[c]
      /\ \A f \in Exporter \ {e} : exporter'[f] = exporter[f]
  BY <1>2, <1>3 DEF TypeOK
<1>6. Apart
  BY <1>2, <1>3, <1>5 DEF Apart
<1>7. ContentsKeepMarker'
  BY <1>2, <1>5, NoneIsNoDir DEF IInv, ContentsKeepMarker
<1>8. OwnersBegun'
  BY <1>2, <1>5, RootAssumption DEF IInv, OwnersBegun, Begun
<1>9. QED
  BY <1>4, <1>6, <1>7, <1>8, ApartStep

\* Steps of an export on the root that is there.
LEMMA OnRootStep ==
  ASSUME IInv, UNCHANGED <<name, marker, lock, session, cleaner, recent>>, TypeOK',
         NEW e \in Exporter, \A f \in Exporter \ {e} : exporter'[f] = exporter[f],
         exporter[e].pc \notin {"done", "failed"}, exporter'[e].pc # "new",
         \A d \in Dirs : \/ name[d] = Root
                         \/ tree'[d] \in {tree[d], None} /\ sidecar'[d] \in {sidecar[d], None}
  PROVE  IInv'
<1>1. Apart
  BY DEF Apart
<1>2. ContentsKeepMarker' /\ OwnersBegun'
  BY NoneIsNoDir DEF IInv, ContentsKeepMarker, OwnersBegun, Begun
<1>3. QED
  BY <1>1, <1>2, ApartStep

LEMMA ReuseStep == ASSUME IInv, NEW e \in Exporter, Reuse(e) PROVE IInv'
<1> DEFINE d == At(Root)
           s == IF sidecar[d] # None \/ marker[d] \notin Owner THEN [pc |-> "failed", dir |-> None]
                ELSE [pc |-> "mkdir", dir |-> d]
<1>1. exporter[e].pc = "new" /\ exporter' = [exporter EXCEPT ![e] = s] /\ d # None /\ TypeOK
      /\ UNCHANGED <<files, lock, session, cleaner, recent>>
  BY DEF Reuse, IInv
<1>2. d \in Dirs
  BY <1>1, AtIsNamed DEF At
<1> HIDE DEF d
<1>3. s \in [pc : Export_pcs, dir : Dirs \cup {None}] /\ s.pc \in {"failed", "mkdir"}
  BY <1>2 DEF Export_pcs
<1> HIDE DEF s
<1>4. exporter' \in [Exporter -> [pc : Export_pcs, dir : Dirs \cup {None}]] /\ exporter'[e] = s
      /\ \A f \in Exporter \ {e} : exporter'[f] = exporter[f]
  BY <1>1, <1>3 DEF TypeOK
<1>5. TypeOK'
  BY <1>1, <1>4 DEF TypeOK, files
<1>6. QED
  BY <1>1, <1>3, <1>4, <1>5, OnRootStep DEF files

LEMMA ExportIs ==
  ASSUME TypeOK, NEW e \in Exporter, NEW from, NEW to \in Export_pcs, Export(e, from, to)
  PROVE  /\ exporter' \in [Exporter -> [pc : Export_pcs, dir : Dirs \cup {None}]]
         /\ exporter[e].pc = from /\ exporter'[e].pc = to
         /\ \A f \in Exporter \ {e} : exporter'[f] = exporter[f]
  BY DEF Export, TypeOK

LEMMA ExportStep ==
  ASSUME IInv, NEW e \in Exporter,
         Mkdir(e) \/ Checkout(e) \/ CheckoutFails(e) \/ WriteSidecar(e) \/ Undo(e)
  PROVE  IInv'
<1> DEFINE d == At(Root)
<1>1. TypeOK /\ (d # None => d \in Dirs /\ name[d] = Root)
  BY AtIsNamed DEF IInv, At, Named
<1> HIDE DEF d
<1>2. PICK from \in {"mkdir", "checkout", "sidecar", "undo"}, to \in Export_pcs \ {"new"} : Export(e, from, to)
  BY DEF Mkdir, Checkout, CheckoutFails, WriteSidecar, Undo, Export_pcs
<1>3. /\ exporter' \in [Exporter -> [pc : Export_pcs, dir : Dirs \cup {None}]]
      /\ exporter[e].pc \notin {"done", "failed"} /\ exporter'[e].pc # "new"
      /\ \A f \in Exporter \ {e} : exporter'[f] = exporter[f]
  BY <1>1, <1>2, ExportIs
<1>4. UNCHANGED <<name, marker, stray, written, lock, session, cleaner, recent>>
  BY DEF Mkdir, Checkout, CheckoutFails, WriteSidecar, Undo, files
<1>5. /\ tree' \in [Dirs -> Exporter \cup {None}] /\ sidecar' \in [Dirs -> Exporter \cup {None}]
      /\ \A c \in Dirs : name[c] = Root \/ (tree'[c] = tree[c] /\ sidecar'[c] = sidecar[c])
  <2>1. CASE Mkdir(e)
    BY <1>1, <2>1 DEF Mkdir, TypeOK, d
  <2>2. CASE Checkout(e) \/ CheckoutFails(e)
    BY <1>1, <2>2 DEF Checkout, CheckoutFails, TypeOK, files
  <2>3. CASE WriteSidecar(e)
    BY <1>1, <2>3 DEF WriteSidecar, TypeOK, d
  <2>4. CASE Undo(e)
    BY <1>1, <2>4 DEF Undo, TypeOK, d
  <2>5. QED
    BY <2>1, <2>2, <2>3, <2>4
<1>6. TypeOK'
  BY <1>1, <1>3, <1>4, <1>5 DEF TypeOK
<1>7. QED
  BY <1>3, <1>4, <1>5, <1>6, OnRootStep

LEMMA KillExportStep == ASSUME IInv, NEW e \in Exporter, KillExport(e) PROVE IInv'
<1>1. /\ exporter[e].pc \notin {"new", "done", "failed"} /\ exporter' = [exporter EXCEPT ![e].pc = "failed"] /\ TypeOK
      /\ UNCHANGED <<files, lock, session, cleaner, recent>>
  BY DEF KillExport, IInv
<1>2. Export(e, exporter[e].pc, "failed")
  BY <1>1 DEF Export
<1>3. /\ exporter' \in [Exporter -> [pc : Export_pcs, dir : Dirs \cup {None}]] /\ exporter'[e].pc = "failed"
      /\ \A f \in Exporter \ {e} : exporter'[f] = exporter[f]
  BY <1>1, <1>2, ExportIs DEF Export_pcs
<1>4. TypeOK'
  BY <1>1, <1>3 DEF TypeOK, files
<1>5. QED
  BY <1>1, <1>3, <1>4, OnRootStep DEF files

LEMMA WorldStep == ASSUME IInv, SessionEnds \/ (\E d \in Dirs : LateWrite(d)) PROVE IInv'
<1>1. TypeOK'
  <2>1. CASE SessionEnds
    BY <2>1 DEF IInv, TypeOK, SessionEnds, files
  <2>2. ASSUME NEW d \in Dirs, LateWrite(d) PROVE TypeOK'
    <3>1. written' \in 0 .. Late /\ stray' \in [Dirs -> BOOLEAN]
      BY <2>2, RootAssumption DEF IInv, TypeOK, LateWrite
    <3>2. QED
      BY <2>2, <3>1 DEF IInv, TypeOK, LateWrite
  <2>3. QED
    BY <2>1, <2>2
<1>2. Apart /\ ContentsKeepMarker' /\ OwnersBegun'
  BY DEF IInv, SessionEnds, LateWrite, files, Apart, ContentsKeepMarker, OwnersBegun, Begun
<1>3. QED
  BY <1>1, <1>2, ApartStep

-----------------------------------------------------------------------------
(* The invariant.                                                          *)

LEMMA InitInv == Init => IInv
<1> SUFFICES ASSUME Init PROVE IInv
  OBVIOUS
<1>1. PICK old \in {{}, {Least(Dirs)}} :
        /\ name   = [d \in Dirs |-> IF d \in old THEN Root ELSE None]
        /\ marker = [d \in Dirs |-> IF d \in old THEN Session ELSE None]
  BY DEF Init
<1>2. \A p \in Cleaner : cleaner[p] = Idle
  BY DEF Init
<1>3. TypeOK
  BY <1>1, IdleType, RootAssumption DEF Init, TypeOK, Owner, Fresh, Export_pcs
<1>4. \A p \in Cleaner : Fine(p)
  BY <1>2, NoneIsNoDir DEF Idle, Fine, Locking, Phases, Claimed, Working, Work, Proven, GoneBegun, Begun, Owner, Listed
<1>5. ContentsKeepMarker /\ OwnersBegun
  BY <1>1, NoneIsNoDir, RootAssumption DEF Init, ContentsKeepMarker, OwnersBegun, Begun, Owner
<1>6. QED
  BY <1>3, <1>4, <1>5 DEF IInv

LEMMA ProgressStep == ASSUME IInv, NEW p \in Cleaner, Progress(p) PROVE IInv'
<1>1. CASE Look(p) \/ Open(p) \/ TakeLock(p) \/ WaitTooLong(p) \/ Moved(p) \/ Owns(p)
  BY <1>1, LookStep, OpenStep, TakeLockStep, LostLockStep, OwnsStep
<1>2. CASE Refuse(p) \/ Claim(p) \/ Finish(p) \/ RemoveOne(p) \/ RemoveStray(p) \/ RemoveFails(p)
  BY <1>2, RefuseStep, ClaimStep, FinishStep, RemoveStep, RemoveStrayStep, GiveUpStep
<1>3. CASE UnlinkMarker(p) \/ Rmdir(p) \/ RmdirFails(p)
  BY <1>3, UnlinkMarkerStep, RmdirStep, GiveUpStep
<1>4. CASE RestoreMarker(p) \/ RefillMarker(p) \/ NothingToKeep(p) \/ RenameBack(p)
  BY <1>4, RestoreMarkerStep, RefillMarkerStep, NothingToKeepStep, RenameBackStep
<1>5. CASE Scan(p) \/ Conclude(p) \/ \E c \in Claims : NextLeftover(p, c)
  BY <1>5, ScanStep, ConcludeStep, NextLeftoverStep
<1>6. QED
  BY <1>1, <1>2, <1>3, <1>4, <1>5 DEF Progress

LEMMA NextInv == IInv /\ [Next]_vars => IInv'
<1> SUFFICES ASSUME IInv, [Next]_vars PROVE IInv'
  OBVIOUS
<1>1. ASSUME NEW p \in Cleaner,
             Start(p) \/ Progress(p) \/ InterruptEarly(p) \/ InterruptFinish(p) \/ InterruptPutBack(p) \/ Kill(p)
      PROVE  IInv'
  BY <1>1, StartStep, ProgressStep, InterruptEarlyStep, GiveUpStep, InterruptPutBackStep, KillStep
<1>2. ASSUME NEW e \in Exporter,
             \/ \E owner \in {e, Session} : Create(e, owner)
             \/ Reuse(e) \/ Mkdir(e) \/ Checkout(e) \/ CheckoutFails(e)
             \/ WriteSidecar(e) \/ Undo(e) \/ KillExport(e)
      PROVE  IInv'
  BY <1>2, CreateStep, ReuseStep, ExportStep, KillExportStep
<1>3. CASE SessionEnds \/ \E d \in Dirs : LateWrite(d)
  BY <1>3, WorldStep
<1>4. CASE UNCHANGED vars
  <2>1. TypeOK' /\ ContentsKeepMarker' /\ OwnersBegun' /\ Apart
    BY <1>4 DEF vars, IInv, TypeOK, ContentsKeepMarker, OwnersBegun, Begun, Apart
  <2>2. QED
    BY <2>1, ApartStep
<1>5. QED
  BY <1>1, <1>2, <1>3, <1>4 DEF Next

LEMMA Invariance == Spec => []IInv
  BY InitInv, NextInv, PTL DEF Spec

-----------------------------------------------------------------------------
(* The theorems.                                                           *)

\* Type correctness: the files in the fixed parent, the locks and the locals of
\* cleanup_root and export_tree keep their types, for any number of each.
THEOREM TypeCorrect == Spec => []TypeOK
<1>1. IInv => TypeOK
  BY DEF IInv
<1>2. QED
  BY <1>1, Invariance, PTL

\* The rule at the head of the cleanup code: lock first, rename second, put back
\* only under the lock you hold.  Whatever cleanups wait, are interrupted or die,
\* the one that works on a directory is alone with it.
THEOREM CleanersOwnTheirClaims == Spec => []OwnershipRule
<1>1. IInv => OwnershipRule
  BY NoneIsNoDir DEF IInv, Fine, Locking, Work, Working, Claimed, OwnershipRule
<1>2. QED
  BY <1>1, Invariance, PTL

\* _finish deletes the marker last and _put_back writes it first: whatever is
\* killed at whatever step, a later cleanup can prove whose a leftover with an
\* export in it is.
THEOREM LeftoversStayProvable == Spec => []ContentsKeepMarker
<1>1. IInv => ContentsKeepMarker
  BY DEF IInv
<1>2. QED
  BY <1>1, Invariance, PTL

\* A cleanup deletes nothing of an export whose owner is alive: nobody writes the
\* marker that it read under the lock, and a dead owner stays dead.
THEOREM LiveOwnersAreKept == Spec => LiveOwnerKept
<1> DEFINE Kept == \A d \in Dirs : (tree[d] # None /\ tree'[d] = None /\ exporter' = exporter) => ~Alive(marker[d])
<1>1. IInv /\ [Next]_vars => Kept
  <2> SUFFICES ASSUME IInv, [Next]_vars, NEW d \in Dirs, tree[d] # None, tree'[d] = None, exporter' = exporter
               PROVE  ~Alive(marker[d])
    OBVIOUS
  <2>1. TypeOK
    BY DEF IInv
  <2>2. ASSUME NEW e \in Exporter, NEW from, NEW to \in Export_pcs, from # to, Export(e, from, to) PROVE FALSE
    BY <2>1, <2>2, ExportIs
  <2>3. ASSUME NEW e \in Exporter PROVE ~Mkdir(e) /\ ~Undo(e)
    BY <2>2 DEF Mkdir, Undo, Export_pcs
  <2>4. \E p \in Cleaner : RemoveOne(p)
    <3>1. tree' # tree
      OBVIOUS
    <3>2. ASSUME NEW p \in Cleaner, Progress(p), ~RemoveOne(p) PROVE tree' = tree
      BY <3>2 DEF Progress, Look, Open, TakeLock, WaitTooLong, Moved, Owns, Refuse, Claim, Finish, RemoveStray,
                  RemoveFails, UnlinkMarker, Rmdir, RmdirFails, RestoreMarker, RefillMarker, NothingToKeep, RenameBack,
                  Scan, Conclude, NextLeftover, files
    <3>3. ASSUME NEW p \in Cleaner,
                 Start(p) \/ InterruptEarly(p) \/ InterruptFinish(p) \/ InterruptPutBack(p) \/ Kill(p)
          PROVE  tree' = tree
      BY <3>3 DEF Start, InterruptEarly, InterruptFinish, InterruptPutBack, Kill, files
    <3>4. ASSUME NEW e \in Exporter,
                 \/ \E owner \in {e, Session} : Create(e, owner)
                 \/ Reuse(e) \/ Checkout(e) \/ CheckoutFails(e) \/ WriteSidecar(e) \/ KillExport(e)
          PROVE  tree' = tree
      BY <3>4 DEF Create, Reuse, Checkout, CheckoutFails, WriteSidecar, KillExport, files
    <3>5. SessionEnds \/ (\E c \in Dirs : LateWrite(c)) \/ UNCHANGED vars => tree' = tree
      BY DEF SessionEnds, LateWrite, vars, files
    <3>6. QED
      BY <2>3, <3>1, <3>2, <3>3, <3>4, <3>5 DEF Next
  <2>5. PICK p \in Cleaner : RemoveOne(p)
    BY <2>4
  <2>6. cleaner[p].pc = "remove" /\ d = cleaner[p].fd
    BY <2>1, <2>5 DEF RemoveOne, At_pc, TypeOK
  <2>7. QED
    BY <2>6 DEF IInv, Fine, Proven
<1>2. IInv /\ [Next]_vars => [Kept]_vars
  BY <1>1
<1>3. QED
  BY <1>2, Invariance, PTL DEF Spec, LiveOwnerKept

CleanerStep(p) == \/ Start(p) \/ Progress(p)
                  \/ InterruptEarly(p) \/ InterruptFinish(p) \/ InterruptPutBack(p) \/ Kill(p)

LEMMA MovesOne ==
  ASSUME TypeOK, NEW q \in Cleaner, CleanerStep(q), NEW p \in Cleaner \ {q}
  PROVE  cleaner'[p] = cleaner[p]
<1>1. (\E r : Becomes(q, r)) \/ UNCHANGED cleaner
  <2>1. CASE Look(q) \/ Open(q) \/ TakeLock(q) \/ WaitTooLong(q) \/ Moved(q) \/ Owns(q) \/ Refuse(q) \/ Claim(q) \/ Finish(q)
    BY <2>1 DEF Look, Open, TakeLock, WaitTooLong, Moved, Owns, Refuse, Claim, Finish, Goto, Return
  <2>2. CASE RemoveOne(q) \/ RemoveStray(q) \/ RemoveFails(q) \/ UnlinkMarker(q) \/ Rmdir(q) \/ RmdirFails(q)
    BY <2>2 DEF RemoveOne, RemoveStray, RemoveFails, UnlinkMarker, Rmdir, RmdirFails, PutBack, Return
  <2>3. CASE RestoreMarker(q) \/ RefillMarker(q) \/ NothingToKeep(q) \/ RenameBack(q)
    BY <2>3 DEF RestoreMarker, RefillMarker, NothingToKeep, RenameBack, Goto, Return
  <2>4. CASE Scan(q) \/ Conclude(q) \/ \E c \in Claims : NextLeftover(q, c)
    BY <2>4 DEF Scan, Conclude, NextLeftover
  <2>5. CASE Start(q) \/ InterruptEarly(q) \/ InterruptFinish(q) \/ InterruptPutBack(q) \/ Kill(q)
    BY <2>5 DEF Start, InterruptEarly, InterruptFinish, InterruptPutBack, Kill, Return
  <2>6. QED
    BY <2>1, <2>2, <2>3, <2>4, <2>5 DEF CleanerStep, Progress
<1>2. QED
  BY <1>1 DEF Becomes, TypeOK

\* A cleanup that answers ABSENT has seen the root's name free, and everything
\* else that is there was claimed after it listed the parent: no claim of a dead
\* cleanup is passed over.
THEOREM AbsentIsTold == Spec => AbsentIsTrue
<1> DEFINE Told == \A p \in Cleaner :
                     At_pc(p, "next") /\ cleaner'[p].absent =>
                       \A d \in Dirs : Gone(d) \/ (name[d] # Root /\ d \in recent[p])
<1>1. IInv /\ [Next]_vars => Told
  <2> SUFFICES ASSUME IInv, [Next]_vars, NEW p \in Cleaner, cleaner[p].pc = "next", cleaner'[p].absent
               PROVE  \A d \in Dirs : Gone(d) \/ (name[d] # Root /\ d \in recent[p])
    BY DEF At_pc
  <2>1. TypeOK /\ Fine(p) /\ ~cleaner[p].absent /\ cleaner[p].scanning /\ cleaner[p] \in Cleanup
    BY DEF IInv, Fine, Phases, TypeOK
  <2>2. Conclude(p)
    <3>1. cleaner' # cleaner
      BY <2>1
    <3>2. PICK q \in Cleaner : CleanerStep(q)
      BY <3>1 DEF Next, CleanerStep, Create, Reuse, Mkdir, Checkout, CheckoutFails, WriteSidecar, Undo, KillExport,
                  SessionEnds, LateWrite, vars
    <3>3. q = p
      BY <2>1, <3>1, <3>2, MovesOne
    <3>4. CASE Start(p) \/ Progress(p)
      <4>1. Conclude(p) \/ \E c \in Claims : NextLeftover(p, c)
        BY <3>1, <3>4 DEF Start, Progress, Look, Open, TakeLock, WaitTooLong, Moved, Owns, Refuse, Claim, Finish, RemoveOne,
                  RemoveStray, RemoveFails, UnlinkMarker, Rmdir, RmdirFails, RestoreMarker, RefillMarker, NothingToKeep,
                  RenameBack, Scan, At_pc
      <4>2. ASSUME NEW c \in Claims, NextLeftover(p, c) PROVE FALSE
        <5> DEFINE r == [cleaner[p] EXCEPT !.todo = @ \ {c}]
                   s == [r EXCEPT !.pc = "open", !.held = c, !.want = At(c)]
        <5>1. r.absent = FALSE /\ s.absent = FALSE
          BY <2>1 DEF Cleanup
        <5>2. Becomes(p, r) \/ Becomes(p, s)
          BY <4>2 DEF NextLeftover
        <5> HIDE DEF r, s
        <5>3. cleaner'[p] \in {r, s}
          BY <2>1, <5>2 DEF Becomes, TypeOK
        <5>4. QED
          BY <5>1, <5>3
      <4>3. QED
        BY <4>1, <4>2
    <3>5. CASE InterruptEarly(p) \/ Kill(p)
      <4>1. Becomes(p, Answered("interrupted"))
        BY <3>5 DEF InterruptEarly, Kill, Return, After
      <4>2. cleaner'[p] = Answered("interrupted") /\ ~Answered("interrupted").absent
        BY <2>1, <4>1, AnsweredIs DEF Becomes, TypeOK, Codes
      <4>3. QED
        BY <4>2
    <3>6. CASE InterruptFinish(p) \/ InterruptPutBack(p)
      BY <3>6 DEF InterruptFinish, InterruptPutBack
    <3>7. QED
      BY <3>2, <3>3, <3>4, <3>5, <3>6 DEF CleanerStep
  <2>3. cleaner[p].result = "ABSENT" /\ Named(Root) = {} /\ cleaner[p].todo = {}
    <3> DEFINE r == cleaner[p]
    <3>1. CASE r.result = "RETRY" \/ (r.result = "ABSENT" /\ Named(Root) # {})
      <4>1. Becomes(p, Again(r)) /\ ~Again(r).absent
        BY <2>1, <2>2, <3>1, AgainIs DEF Conclude
      <4>2. QED
        BY <2>1, <4>1 DEF Becomes, TypeOK
    <3>2. CASE ~(r.result = "RETRY" \/ (r.result = "ABSENT" /\ Named(Root) # {}))
      <4>1. Becomes(p, Answered(r.result)) /\ r.result \in Codes
        BY <2>1, <2>2, <3>2 DEF Conclude, Cleanup, Answers
      <4>2. cleaner'[p] = Answered(r.result)
        BY <2>1, <4>1 DEF Becomes, TypeOK
      <4>3. r.result = "ABSENT"
        BY <4>1, <4>2, AnsweredIs
      <4>4. QED
        BY <2>2, <3>2, <4>3 DEF Conclude
    <3>3. QED
      BY <3>1, <3>2
  <2>4. QED
    BY <2>1, <2>3 DEF Fine, Listed, Gone, Named
<1>2. IInv /\ [Next]_vars => [Told]_vars
  BY <1>1
<1>3. QED
  BY <1>2, Invariance, PTL DEF Spec, AbsentIsTrue

=============================================================================
