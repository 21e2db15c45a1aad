-------------------------- MODULE LoopScripts_proofs --------------------------
(***************************************************************************)
(* Theorems about two scripts of loop-task-implementer: the tracker        *)
(* write-back, for any number of orchestrators, calls, retries and other   *)
(* comments and any page size, and run_app_run, for any number of          *)
(* dispatches that share the port.                                         *)
(*                                                                         *)
(* IInv adds to TypeOK what a write-back knows when it is about to post    *)
(* (Unposted, Opened), which holds until the excuse that the properties    *)
(* name.  RunInv adds to RunTypeOK that a call without an app yet has no   *)
(* process (NotStarted), that a call that returned left its group empty    *)
(* (NothingLeftRunning), and who can be on the port after a call found it  *)
(* free (PortSeen).                                                        *)
(***************************************************************************)
EXTENDS TrackerWriteBack, AppRun, TLAPS

(***************************************************************************)
(* The tracker write-back.                                                 *)
(***************************************************************************)

\* While nothing excuses a second comment of a variant: there is at most one,
\* and whoever is about to post is alone and there is none.
UnpostedFor(v) ==
  ~excuse[v] =>
    /\ ~Twice(v)
    /\ \A o \in Loop : In(o, "post") /\ loop[o].variant = v =>
         ~Posted(v) /\ \A q \in Loop \ {o} : In(q, "post") => loop[q].variant # v

Unposted == \A v \in Variant : UnpostedFor(v)

\* A pull request that is open now was open when the call began.
Opened ==
  \A o \in Loop : loop[o].variant = "pr-opened" =>
    /\ In(o, "fresh") /\ pr = "open" => loop[o].openAtStart
    /\ loop[o].pc \in {"identify", "check", "post"} => loop[o].openAtStart

IInv == TypeOK /\ Unposted /\ OutcomeTrue /\ Opened

-----------------------------------------------------------------------------
(* The comments only grow.                                                 *)

LEMMA OwnIs ==
  \A v \in Variant : Own(v) \in Comment /\ \A w \in Variant : Own(v) = Own(w) => v = w
  BY DEF Own, Comment, Variant

LEMMA GrownBy ==
  ASSUME TypeOK, NEW c \in Comment, comments' = Append(comments, c)
  PROVE  /\ comments' \in Seq(Comment)
         /\ \A v \in Variant :
              /\ Posted(v) => Posted(v)'
              /\ c = Own(v) => Posted(v)'
              /\ c # Own(v) => (Posted(v)' => Posted(v)) /\ (Twice(v)' => Twice(v))
              /\ ~Posted(v) => ~Twice(v)'
<1>1. /\ comments \in Seq(Comment) /\ comments' \in Seq(Comment)
      /\ DOMAIN comments' = DOMAIN comments \cup {Len(comments) + 1}
      /\ Len(comments) + 1 \notin DOMAIN comments
      /\ comments'[Len(comments) + 1] = c
      /\ \A i \in DOMAIN comments : comments'[i] = comments[i]
  BY DEF TypeOK
<1>2. \A v \in Variant : OwnAt(v)' = IF c = Own(v) THEN OwnAt(v) \cup {Len(comments) + 1} ELSE OwnAt(v)
  BY <1>1 DEF OwnAt, Own
<1>3. QED
  BY <1>1, <1>2 DEF Posted, Twice

LEMMA Stays ==
  ASSUME UNCHANGED comments
  PROVE  \A v \in Variant : (Posted(v)' <=> Posted(v)) /\ (Twice(v)' <=> Twice(v))
  BY DEF Posted, Twice, OwnAt, Own

-----------------------------------------------------------------------------
(* The moves of a call.                                                    *)

Others(o) == \A q \in Loop \ {o} : loop'[q] = loop[q]
Outcome == {"none", "not_attempted", "skipped_already_posted", "posted", "failed"}
Pc == {"idle", "fresh", "identify", "check", "post"}

LEMMA BecomesIs ==
  ASSUME TypeOK, NEW o \in Loop, NEW r \in Call, loop' = [loop EXCEPT ![o] = r]
  PROVE  loop' \in [Loop -> Call] /\ loop'[o] = r /\ Others(o)
  BY DEF TypeOK, Others

LEMMA GotoIs ==
  ASSUME TypeOK, NEW o \in Loop, NEW pc \in Pc, Goto(o, pc)
  PROVE  /\ loop' \in [Loop -> Call] /\ Others(o)
         /\ loop'[o].pc = pc /\ loop'[o].variant = loop[o].variant
         /\ loop'[o].openAtStart = loop[o].openAtStart /\ loop'[o].outcome = loop[o].outcome
<1> DEFINE r == [loop[o] EXCEPT !.pc = pc]
<1>1. /\ r \in Call /\ r.pc = pc /\ r.variant = loop[o].variant
      /\ r.openAtStart = loop[o].openAtStart /\ r.outcome = loop[o].outcome
  BY DEF TypeOK, Call, Pc
<1>2. loop' = [loop EXCEPT ![o] = r]
  BY DEF Goto, TypeOK
<1> HIDE DEF r
<1>3. QED
  BY <1>1, <1>2, BecomesIs

LEMMA ReturnedIs ==
  ASSUME NEW r \in Call, NEW outcome \in Outcome
  PROVE  /\ Returned(r, outcome) \in Call /\ Returned(r, outcome).pc = "idle"
         /\ Returned(r, outcome).outcome = outcome /\ Returned(r, outcome).variant = r.variant
  BY TrackerAssumption DEF Returned, Between, Call, Outcome

LEMMA ReturnIs ==
  ASSUME TypeOK, NEW o \in Loop, NEW outcome \in Outcome, Return(o, outcome)
  PROVE  /\ loop' \in [Loop -> Call] /\ Others(o)
         /\ loop'[o].pc = "idle" /\ loop'[o].variant = loop[o].variant /\ loop'[o].outcome = outcome
<1> DEFINE r == Returned(loop[o], outcome)
<1>1. loop' = [loop EXCEPT ![o] = r]
  BY DEF Return, TypeOK
<1>2. loop[o] \in Call
  BY DEF TypeOK
<1>3. r \in Call /\ r.pc = "idle" /\ r.outcome = outcome /\ r.variant = loop[o].variant
  BY <1>2, ReturnedIs
<1> HIDE DEF r
<1>4. QED
  BY <1>1, <1>3, BecomesIs

LEMMA NextRoundIs ==
  ASSUME TypeOK, NEW o \in Loop, loop' = [loop EXCEPT ![o] = NextRound(@)]
  PROVE  /\ loop' \in [Loop -> Call] /\ Others(o)
         /\ loop'[o].variant = loop[o].variant
         /\ \/ loop'[o].pc = "idle" /\ loop'[o].outcome = "failed"
            \/ /\ loop'[o].pc = "check" /\ loop'[o].outcome = loop[o].outcome
               /\ loop'[o].openAtStart = loop[o].openAtStart
<1> DEFINE r == NextRound(loop[o])
<1>1. loop' = [loop EXCEPT ![o] = r]
  BY DEF TypeOK
<1>2. loop[o] \in Call
  BY DEF TypeOK
<1>3. /\ r \in Call /\ r.variant = loop[o].variant
      /\ \/ r.pc = "idle" /\ r.outcome = "failed"
         \/ r.pc = "check" /\ r.outcome = loop[o].outcome /\ r.openAtStart = loop[o].openAtStart
  <2>1. CASE loop[o].attempt < MaxRetries
    <3> DEFINE s == [loop[o] EXCEPT !.pc = "check", !.attempt = @ + 1]
    <3>1. loop[o].attempt + 1 \in 0 .. MaxRetries
      BY <1>2, <2>1, TrackerAssumption DEF Call
    <3>2. s \in Call /\ s.pc = "check" /\ s.variant = loop[o].variant
          /\ s.outcome = loop[o].outcome /\ s.openAtStart = loop[o].openAtStart
      BY <1>2, <3>1 DEF Call
    <3>3. r = s
      BY <2>1 DEF NextRound
    <3> HIDE DEF s, r
    <3>4. QED
      BY <3>2, <3>3
  <2>2. CASE ~(loop[o].attempt < MaxRetries)
    <3>1. r = Returned(loop[o], "failed")
      BY <2>2 DEF NextRound
    <3> HIDE DEF r
    <3>2. QED
      BY <1>2, <3>1, ReturnedIs DEF Outcome
  <2>3. QED
    BY <2>1, <2>2
<1> HIDE DEF r
<1>4. QED
  BY <1>1, <1>3, BecomesIs

LEMMA NotAuthorizedIs ==
  ASSUME TypeOK, NEW o \in Loop, NotAuthorized(o)
  PROVE  /\ loop' \in [Loop -> Call] /\ Others(o)
         /\ loop'[o].pc = "idle" /\ loop'[o].outcome = "not_attempted"
<1> DEFINE r == Between(loop[o].variant, loop[o].calls + 1, "not_attempted")
<1>1. loop' = [loop EXCEPT ![o] = r]
  BY DEF NotAuthorized, TypeOK
<1>2. loop[o].calls + 1 \in 0 .. MaxCalls
  BY TrackerAssumption DEF NotAuthorized, TypeOK, Call
<1>3. r \in Call /\ r.pc = "idle" /\ r.outcome = "not_attempted"
  BY <1>2, TrackerAssumption DEF Between, TypeOK, Call
<1> HIDE DEF r
<1>4. QED
  BY <1>1, <1>3, BecomesIs

LEMMA BeginIs ==
  ASSUME TypeOK, NEW o \in Loop, Begin(o)
  PROVE  /\ loop' \in [Loop -> Call] /\ Others(o) /\ loop'[o].outcome = "none"
         /\ \/ loop'[o].pc = "fresh" /\ (pr = "open" => loop'[o].openAtStart)
            \/ loop'[o].pc = "identify" /\ loop'[o].variant = "merged"
<1>1. PICK v \in Variant : loop' = [loop EXCEPT ![o] = Begun(v, @.calls + 1)]
  BY DEF Begin
<1> DEFINE r == Begun(v, loop[o].calls + 1)
<1>2. loop' = [loop EXCEPT ![o] = r]
  BY <1>1 DEF TypeOK
<1>3. loop[o].calls + 1 \in 0 .. MaxCalls
  BY TrackerAssumption DEF Begin, TypeOK, Call
<1>4. r \in Call
  BY <1>3, TrackerAssumption DEF Call, Begun
<1>5. /\ r.outcome = "none" /\ (pr = "open" => r.openAtStart)
      /\ r.pc = "fresh" \/ (r.pc = "identify" /\ r.variant = "merged")
  BY DEF Variant, Begun
<1> HIDE DEF r
<1>6. QED
  BY <1>2, <1>4, <1>5, BecomesIs

-----------------------------------------------------------------------------
(* Every step keeps the invariant.                                         *)

\* What a step does to the comments.
LEMMA Grows ==
  ASSUME TypeOK, Next
  PROVE  UNCHANGED comments \/ \E c \in Comment : comments' = Append(comments, c)
<1>1. ASSUME NEW o \in Loop, Begin(o) \/ NotAuthorized(o) \/ Step(o) \/ Crash(o)
      PROVE  UNCHANGED comments \/ comments' = Append(comments, Own(loop[o].variant))
  BY <1>1 DEF Begin, NotAuthorized, Step, Fresh, Identify, Skip, NotSeen, Unread, PostAnswered, PostFails, Crash,
     Unanswered, Append1
<1>2. \A o \in Loop : Own(loop[o].variant) \in Comment
  BY OwnIs DEF TypeOK, Call
<1>3. ASSUME NEW v \in Variant, Land(v) PROVE \E c \in Comment : comments' = Append(comments, c)
  BY <1>3, OwnIs DEF Land, Append1
<1>4. OtherComments \/ PullRequestMoves => UNCHANGED comments \/ \E c \in Comment : comments' = Append(comments, c)
  BY DEF OtherComments, PullRequestMoves, Comment
<1>5. QED
  BY <1>1, <1>2, <1>3, <1>4 DEF Next

LEMMA PostedStays == ASSUME TypeOK, [Next]_vars PROVE \A v \in Variant : Posted(v) => Posted(v)'
<1>1. CASE UNCHANGED comments
  BY <1>1, Stays
<1>2. CASE ~UNCHANGED comments
  <2>1. PICK c \in Comment : comments' = Append(comments, c)
    BY <1>2, Grows DEF vars
  <2>2. QED
    BY <2>1, GrownBy
<1>3. QED
  BY <1>1, <1>2

\* The variables keep their types.
LEMMA TypeStep == TypeOK /\ [Next]_vars => TypeOK'
<1> SUFFICES ASSUME TypeOK, [Next]_vars PROVE TypeOK'
  OBVIOUS
<1> USE DEF TypeOK
<1>c. comments' \in Seq(Comment)
  <2>1. CASE UNCHANGED comments
    BY <2>1
  <2>2. CASE ~UNCHANGED comments
    <3>1. PICK c \in Comment : comments' = Append(comments, c)
      BY <2>2, Grows DEF vars
    <3>2. QED
      BY <3>1
  <2>3. QED
    BY <2>1, <2>2
<1>1. ASSUME NEW o \in Loop, Begin(o) PROVE TypeOK'
  BY <1>1, BeginIs, OwnIs, <1>c DEF Begin, Others, Pc, Outcome
<1>2. ASSUME NEW o \in Loop, NotAuthorized(o) PROVE TypeOK'
  BY <1>2, NotAuthorizedIs, OwnIs, <1>c DEF NotAuthorized, Others, Pc, Outcome
<1>3. ASSUME NEW o \in Loop, Fresh(o) PROVE TypeOK'
  BY <1>3, GotoIs, ReturnIs, OwnIs, <1>c DEF Fresh, Others, Pc, Outcome
<1>4. ASSUME NEW o \in Loop, Identify(o) PROVE TypeOK'
  BY <1>4, GotoIs, ReturnIs, OwnIs, <1>c DEF Identify, Others, Pc, Outcome
<1>5. ASSUME NEW o \in Loop, Skip(o) PROVE TypeOK'
  BY <1>5, ReturnIs, OwnIs, <1>c DEF Skip, Others, Pc, Outcome, Sees, Page
<1>6. ASSUME NEW o \in Loop, NotSeen(o) PROVE TypeOK'
  BY <1>6, GotoIs, OwnIs, <1>c DEF NotSeen, Others, Pc, Outcome, Sees, Page, Alone
<1>7. ASSUME NEW o \in Loop, Unread(o) PROVE TypeOK'
  BY <1>7, GotoIs, OwnIs, <1>c DEF Unread, Others, Pc, Outcome
<1>8. ASSUME NEW o \in Loop, PostAnswered(o) PROVE TypeOK'
  BY <1>8, ReturnIs, OwnIs, <1>c DEF PostAnswered, Others, Pc, Outcome, Append1
<1>9. ASSUME NEW o \in Loop, PostFails(o) PROVE TypeOK'
  <2>1. loop[o].variant \in Variant
    BY DEF Call
  <2>2. late' \in [Variant -> Nat]
    BY <1>9, <2>1 DEF PostFails, Unanswered
  <2>3. loop' \in [Loop -> Call]
    BY <1>9, NextRoundIs DEF PostFails
  <2>4. QED
    BY <1>9, <1>c, <2>2, <2>3 DEF PostFails
<1>10. ASSUME NEW o \in Loop, Crash(o) PROVE TypeOK'
  BY <1>10, ReturnIs, OwnIs, <1>c DEF Crash, Others, Pc, Outcome, Unanswered, Append1
<1>11. ASSUME NEW v \in Variant, Land(v) PROVE TypeOK'
  BY <1>11, OwnIs, <1>c DEF Land, Append1
<1>12. ASSUME OtherComments PROVE TypeOK'
  BY <1>12, OwnIs, <1>c DEF OtherComments
<1>13. ASSUME PullRequestMoves PROVE TypeOK'
  BY <1>13, OwnIs, <1>c DEF PullRequestMoves
<1>14. ASSUME UNCHANGED vars PROVE TypeOK'
  BY <1>14, OwnIs, <1>c DEF vars
<1>15. QED
  BY <1>1, <1>2, <1>3, <1>4, <1>5, <1>6, <1>7, <1>8, <1>9, <1>10, <1>11, <1>12, <1>13, <1>14 DEF Next, Step

\* Comments are never deleted.
LEMMA OutcomeStep == TypeOK /\ OutcomeTrue /\ [Next]_vars => OutcomeTrue'
<1> SUFFICES ASSUME TypeOK, OutcomeTrue, [Next]_vars PROVE OutcomeTrue'
  OBVIOUS
<1> USE DEF TypeOK, OutcomeTrue, In
<1>c. (\A q \in Loop : loop[q].variant \in Variant) /\ \A v \in Variant : Posted(v) => Posted(v)'
  BY PostedStays DEF Call
<1>1. ASSUME NEW o \in Loop, Begin(o) PROVE OutcomeTrue'
  BY <1>1, BeginIs, <1>c DEF Begin, Others, Pc, Outcome
<1>2. ASSUME NEW o \in Loop, NotAuthorized(o) PROVE OutcomeTrue'
  BY <1>2, NotAuthorizedIs, <1>c DEF NotAuthorized, Others, Pc, Outcome
<1>3. ASSUME NEW o \in Loop, Fresh(o) PROVE OutcomeTrue'
  BY <1>3, GotoIs, ReturnIs, <1>c DEF Fresh, Others, Pc, Outcome
<1>4. ASSUME NEW o \in Loop, Identify(o) PROVE OutcomeTrue'
  BY <1>4, GotoIs, ReturnIs, <1>c DEF Identify, Others, Pc, Outcome
<1>5. ASSUME NEW o \in Loop, Skip(o) PROVE OutcomeTrue'
  <2>1. Posted(loop[o].variant)
    BY <1>5 DEF Skip, Sees, Page, Posted, OwnAt
  <2>2. QED
    BY <1>5, <2>1, ReturnIs, <1>c DEF Skip, Others, Outcome
<1>6. ASSUME NEW o \in Loop, NotSeen(o) PROVE OutcomeTrue'
  BY <1>6, GotoIs, <1>c DEF NotSeen, Others, Pc, Outcome, Sees, Page, Alone
<1>7. ASSUME NEW o \in Loop, Unread(o) PROVE OutcomeTrue'
  BY <1>7, GotoIs, <1>c DEF Unread, Others, Pc, Outcome
<1>8. ASSUME NEW o \in Loop, PostAnswered(o) PROVE OutcomeTrue'
  <2>1. PICK v \in Variant : v = loop[o].variant
    BY <1>c
  <2>2. Posted(v)'
    BY <1>8, <2>1, GrownBy, OwnIs DEF PostAnswered, Append1
  <2>3. QED
    BY <1>8, <2>1, <2>2, ReturnIs, <1>c DEF PostAnswered, Others, Outcome
<1>9. ASSUME NEW o \in Loop, PostFails(o) PROVE OutcomeTrue'
  BY <1>9, NextRoundIs, <1>c DEF PostFails, Others, Pc, Outcome, Unanswered, Append1
<1>10. ASSUME NEW o \in Loop, Crash(o) PROVE OutcomeTrue'
  BY <1>10, ReturnIs, <1>c DEF Crash, Others, Pc, Outcome, Unanswered, Append1
<1>11. ASSUME NEW v \in Variant, Land(v) PROVE OutcomeTrue'
  BY <1>11, <1>c DEF Land, Append1
<1>12. ASSUME OtherComments PROVE OutcomeTrue'
  BY <1>12, <1>c DEF OtherComments
<1>13. ASSUME PullRequestMoves PROVE OutcomeTrue'
  BY <1>13, <1>c DEF PullRequestMoves
<1>14. ASSUME UNCHANGED vars PROVE OutcomeTrue'
  BY <1>14, <1>c DEF vars
<1>15. QED
  BY <1>1, <1>2, <1>3, <1>4, <1>5, <1>6, <1>7, <1>8, <1>9, <1>10, <1>11, <1>12, <1>13, <1>14 DEF Next, Step

\* A pull request is never opened again.
LEMMA OpenedStep == TypeOK /\ Opened /\ [Next]_vars => Opened'
<1> SUFFICES ASSUME TypeOK, Opened, [Next]_vars PROVE Opened'
  OBVIOUS
<1> USE DEF TypeOK, Opened, In
<1>1. ASSUME NEW o \in Loop, Begin(o) PROVE Opened'
  BY <1>1, BeginIs DEF Begin, Others, Pc, Outcome
<1>2. ASSUME NEW o \in Loop, NotAuthorized(o) PROVE Opened'
  BY <1>2, NotAuthorizedIs DEF NotAuthorized, Others, Pc, Outcome
<1>3. ASSUME NEW o \in Loop, Fresh(o) PROVE Opened'
  BY <1>3, GotoIs, ReturnIs DEF Fresh, Others, Pc, Outcome
<1>4. ASSUME NEW o \in Loop, Identify(o) PROVE Opened'
  BY <1>4, GotoIs, ReturnIs DEF Identify, Others, Pc, Outcome
<1>5. ASSUME NEW o \in Loop, Skip(o) PROVE Opened'
  BY <1>5, ReturnIs DEF Skip, Others, Pc, Outcome, Sees, Page
<1>6. ASSUME NEW o \in Loop, NotSeen(o) PROVE Opened'
  BY <1>6, GotoIs DEF NotSeen, Others, Pc, Outcome, Sees, Page, Alone
<1>7. ASSUME NEW o \in Loop, Unread(o) PROVE Opened'
  BY <1>7, GotoIs DEF Unread, Others, Pc, Outcome
<1>8. ASSUME NEW o \in Loop, PostAnswered(o) PROVE Opened'
  BY <1>8, ReturnIs DEF PostAnswered, Others, Pc, Outcome, Append1
<1>9. ASSUME NEW o \in Loop, PostFails(o) PROVE Opened'
  BY <1>9, NextRoundIs DEF PostFails, Others, Pc, Outcome, Unanswered, Append1
<1>10. ASSUME NEW o \in Loop, Crash(o) PROVE Opened'
  BY <1>10, ReturnIs DEF Crash, Others, Pc, Outcome, Unanswered, Append1
<1>11. ASSUME NEW v \in Variant, Land(v) PROVE Opened'
  BY <1>11 DEF Land, Append1
<1>12. ASSUME OtherComments PROVE Opened'
  BY <1>12 DEF OtherComments
<1>13. ASSUME PullRequestMoves PROVE Opened'
  BY <1>13 DEF PullRequestMoves
<1>14. ASSUME UNCHANGED vars PROVE Opened'
  BY <1>14 DEF vars
<1>15. QED
  BY <1>1, <1>2, <1>3, <1>4, <1>5, <1>6, <1>7, <1>8, <1>9, <1>10, <1>11, <1>12, <1>13, <1>14 DEF Next, Step

\* A step in which nobody is newly about to post keeps it, if it adds no
\* comment of the variant.
LEMMA UnpostedKept ==
  ASSUME Unposted, NEW v \in Variant, ~excuse'[v] => ~excuse[v], Posted(v)' => Posted(v), Twice(v)' => Twice(v),
         \A q \in Loop : loop'[q].pc = "post" => loop[q].pc = "post" /\ loop'[q].variant = loop[q].variant
  PROVE  UnpostedFor(v)'
  BY DEF Unposted, UnpostedFor, In

\* The last one who is about to post leaves with at most one comment.
LEMMA UnpostedLeft ==
  ASSUME TypeOK, Unposted, NEW o \in Loop, In(o, "post"), Others(o), loop'[o].pc # "post", excuse' = excuse,
         UNCHANGED comments \/ comments' = Append(comments, Own(loop[o].variant))
  PROVE  Unposted'
<1> SUFFICES ASSUME NEW v \in Variant PROVE UnpostedFor(v)'
  BY DEF Unposted
<1>1. loop[o].variant \in Variant
  BY DEF TypeOK, Call
<1>2. CASE UNCHANGED comments
  BY <1>2, Stays, UnpostedKept DEF Others
<1>3. CASE comments' = Append(comments, Own(loop[o].variant)) /\ loop[o].variant # v
  <2>1. Own(loop[o].variant) \in Comment /\ Own(loop[o].variant) # Own(v)
    BY <1>1, <1>3, OwnIs
  <2>2. (Posted(v)' => Posted(v)) /\ (Twice(v)' => Twice(v))
    BY <1>3, <2>1, GrownBy
  <2>3. QED
    BY <2>2, UnpostedKept DEF Others
<1>4. CASE comments' = Append(comments, Own(loop[o].variant)) /\ loop[o].variant = v
  <2> SUFFICES ASSUME ~excuse[v]
               PROVE  ~Twice(v)' /\ \A q \in Loop : loop'[q].pc = "post" => loop'[q].variant # v
    BY DEF UnpostedFor, In
  <2>1. ~Posted(v) /\ \A q \in Loop \ {o} : loop[q].pc = "post" => loop[q].variant # v
    BY <1>4 DEF Unposted, UnpostedFor, In
  <2>2. ~Twice(v)'
    BY <1>4, <2>1, OwnIs, GrownBy
  <2>3. QED
    BY <2>1, <2>2 DEF Others
<1>5. QED
  BY <1>2, <1>3, <1>4

\* The search before a post, or what excuses it.
LEMMA UnpostedStep == TypeOK /\ Unposted /\ [Next]_vars => Unposted'
<1> SUFFICES ASSUME TypeOK, Unposted, [Next]_vars PROVE Unposted'
  OBVIOUS
<1>c. \A q \in Loop : loop[q].variant \in Variant /\ loop[q] \in Call
  BY DEF TypeOK, Call
<1>q. ASSUME UNCHANGED <<comments, excuse>>,
             \A q \in Loop : loop'[q].pc = "post" => loop[q].pc = "post" /\ loop'[q].variant = loop[q].variant
      PROVE  Unposted'
  BY <1>q, Stays, UnpostedKept DEF Unposted

<1>1. ASSUME NEW o \in Loop, Begin(o) PROVE Unposted'
  BY <1>1, <1>q, BeginIs DEF Begin, Others, Pc, Outcome
<1>2. ASSUME NEW o \in Loop, NotAuthorized(o) PROVE Unposted'
  BY <1>2, <1>q, NotAuthorizedIs DEF NotAuthorized, Others, Pc, Outcome
<1>3. ASSUME NEW o \in Loop, Fresh(o) PROVE Unposted'
  BY <1>3, <1>q, GotoIs, ReturnIs DEF Fresh, Others, Pc, Outcome
<1>4. ASSUME NEW o \in Loop, Identify(o) PROVE Unposted'
  BY <1>4, <1>q, GotoIs, ReturnIs DEF Identify, Others, Pc, Outcome
<1>5. ASSUME NEW o \in Loop, Skip(o) PROVE Unposted'
  BY <1>5, <1>q, ReturnIs DEF Skip, Others, Pc, Outcome
<1>6. ASSUME NEW o \in Loop, NotSeen(o) PROVE Unposted'
  <2>1. Others(o) /\ loop'[o].pc = "post" /\ loop'[o].variant = loop[o].variant
    BY <1>6, GotoIs DEF NotSeen, Pc
  <2>2. ASSUME NEW v \in Variant, v # loop[o].variant PROVE UnpostedFor(v)'
    <3>1. excuse'[v] = excuse[v] /\ UNCHANGED comments
      BY <1>6, <2>2 DEF NotSeen, TypeOK
    <3>2. QED
      BY <2>1, <2>2, <3>1, Stays DEF Unposted, UnpostedFor, In, Others
  <2>3. ASSUME NEW v \in Variant, v = loop[o].variant, ~excuse'[v] PROVE UnpostedFor(v)'
    <3>1. ~excuse[v] /\ Len(comments) <= PageSize /\ Alone(o) /\ ~Sees(v) /\ UNCHANGED comments
      <4>1. ~Sees(v) /\ UNCHANGED comments
        BY <1>6, <2>3 DEF NotSeen
      <4>2. excuse' = [excuse EXCEPT ![v] = @ \/ Len(comments) > PageSize \/ ~Alone(o)]
        BY <1>6, <2>3 DEF NotSeen
      <4>3. excuse'[v] <=> excuse[v] \/ Len(comments) > PageSize \/ ~Alone(o)
        BY <4>2, Zenon DEF TypeOK
      <4>4. ~excuse[v] /\ ~(Len(comments) > PageSize) /\ Alone(o)
        BY <2>3, <4>3, Zenon
      <4>5. Len(comments) \in Nat
        BY DEF TypeOK
      <4>6. QED
        BY <4>1, <4>4, <4>5, TrackerAssumption
    <3>2. \A i \in DOMAIN comments : i <= PageSize
      BY <3>1, TrackerAssumption DEF TypeOK
    <3>3. ~Posted(v)
      BY <3>1, <3>2 DEF Sees, Page, Posted, OwnAt
    <3>4. \A q \in Loop \ {o} : loop'[q].pc = "post" => loop'[q].variant # v
      BY <2>1, <2>3, <3>1 DEF Alone, In, Others
    <3>5. ~Posted(v)' /\ ~Twice(v)'
      BY <3>1, <3>3, Stays DEF Posted, Twice
    <3>6. QED
      BY <2>1, <2>3, <3>4, <3>5 DEF UnpostedFor, In
  <2>4. QED
    BY <2>2, <2>3 DEF Unposted, UnpostedFor
<1>7. ASSUME NEW o \in Loop, Unread(o) PROVE Unposted'
  <2>1. Others(o) /\ loop'[o].pc = "post" /\ loop'[o].variant = loop[o].variant
    BY <1>7, GotoIs DEF Unread, Pc
  <2>2. ASSUME NEW v \in Variant, v # loop[o].variant PROVE UnpostedFor(v)'
    <3>1. excuse'[v] = excuse[v] /\ UNCHANGED comments
      BY <1>7, <2>2 DEF Unread, TypeOK
    <3>2. QED
      BY <2>1, <2>2, <3>1, Stays DEF Unposted, UnpostedFor, In, Others
  <2>3. excuse'[loop[o].variant]
    BY <1>7, <1>c DEF Unread, TypeOK
  <2>4. QED
    BY <2>2, <2>3 DEF Unposted, UnpostedFor
<1>8. ASSUME NEW o \in Loop, PostAnswered(o) PROVE Unposted'
  <2>1. Others(o) /\ loop'[o].pc # "post"
    BY <1>8, ReturnIs DEF PostAnswered, Outcome
  <2>2. QED
    BY <1>8, <2>1, UnpostedLeft DEF PostAnswered, Append1
<1>9. ASSUME NEW o \in Loop, PostFails(o) PROVE Unposted'
  <2>1. Others(o) /\ loop'[o].pc # "post"
    BY <1>9, NextRoundIs DEF PostFails
  <2>2. QED
    BY <1>9, <2>1, UnpostedLeft DEF PostFails, Unanswered, Append1
<1>10. ASSUME NEW o \in Loop, Crash(o) PROVE Unposted'
  <2>1. Others(o) /\ loop'[o].pc # "post"
    BY <1>10, ReturnIs DEF Crash, Outcome
  <2>2. CASE In(o, "post")
    BY <1>10, <2>1, <2>2, UnpostedLeft DEF Crash, Unanswered, Append1
  <2>3. CASE ~In(o, "post")
    BY <1>10, <2>1, <2>3, <1>q DEF Crash, Others
  <2>4. QED
    BY <2>2, <2>3
<1>11. ASSUME NEW v \in Variant, Land(v) PROVE Unposted'
  <2>1. ASSUME NEW w \in Variant, w # v PROVE UnpostedFor(w)'
    <3>1. (Posted(w)' => Posted(w)) /\ (Twice(w)' => Twice(w))
      BY <1>11, <2>1, OwnIs, GrownBy DEF Land, Append1
    <3>2. excuse'[w] = excuse[w] /\ UNCHANGED loop
      BY <1>11, <2>1 DEF Land, TypeOK
    <3>3. QED
      BY <3>1, <3>2, UnpostedKept
  <2>2. excuse'[v]
    BY <1>11 DEF Land, TypeOK
  <2>3. QED
    BY <2>1, <2>2 DEF Unposted, UnpostedFor
<1>12. ASSUME OtherComments PROVE Unposted'
  <2>1. PICK m \in Variant \cup {"none"} : comments' = Append(comments, [own |-> FALSE, marker |-> m])
    BY <1>12 DEF OtherComments
  <2> DEFINE c == [own |-> FALSE, marker |-> m]
  <2>2. c \in Comment /\ \A v \in Variant : c # Own(v)
    <3>1. c.own = FALSE /\ \A v \in Variant : Own(v).own = TRUE
      BY DEF Own
    <3>2. QED
      BY <3>1 DEF Comment
  <2> HIDE DEF c
  <2>3. \A v \in Variant : (Posted(v)' => Posted(v)) /\ (Twice(v)' => Twice(v))
    BY <2>1, <2>2, GrownBy DEF c
  <2>4. QED
    BY <1>12, <2>3, UnpostedKept DEF OtherComments, Unposted
<1>13. ASSUME PullRequestMoves PROVE Unposted'
  BY <1>13, <1>q DEF PullRequestMoves
<1>14. ASSUME UNCHANGED vars PROVE Unposted'
  BY <1>14, <1>q DEF vars
<1>15. QED
  BY <1>1, <1>2, <1>3, <1>4, <1>5, <1>6, <1>7, <1>8, <1>9, <1>10, <1>11, <1>12, <1>13, <1>14 DEF Next, Step

-----------------------------------------------------------------------------
(* The theorems.                                                           *)

LEMMA InitInv == Init => IInv
<1> SUFFICES ASSUME Init PROVE IInv
  OBVIOUS
<1>1. Between("merged", 0, "none") \in Call
  BY TrackerAssumption DEF Between, Call, Variant
<1>2. TypeOK
  BY <1>1 DEF Init, TypeOK
<1>3. Unposted /\ OutcomeTrue /\ Opened
  BY DEF Init, Unposted, UnpostedFor, Twice, OwnAt, OutcomeTrue, Opened, In, Between
<1>4. QED
  BY <1>2, <1>3 DEF IInv

\* IInv is inductive.
LEMMA Invariance == Spec => []IInv
<1>1. IInv /\ [Next]_vars => IInv'
  BY TypeStep, UnpostedStep, OutcomeStep, OpenedStep DEF IInv
<1>2. QED
  BY InitInv, <1>1, PTL DEF Spec

\* The variables keep their types.
THEOREM TypeCorrect == Spec => []TypeOK
<1>1. IInv => TypeOK
  BY DEF IInv
<1>2. QED
  BY <1>1, Invariance, PTL

\* check_existing_marker before every post keeps a second comment away,
\* unless it could not see the first one.
THEOREM NoUnexcusedComment == Spec => []OneCommentUnlessBlind
<1>1. IInv => OneCommentUnlessBlind
  BY DEF IInv, Unposted, UnpostedFor, OneCommentUnlessBlind
<1>2. QED
  BY <1>1, Invariance, PTL

\* What a call returns is true of the issue.
THEOREM OutcomesAreTrue == Spec => []OutcomeTrue
<1>1. IInv => OutcomeTrue
  BY DEF IInv
<1>2. QED
  BY <1>1, Invariance, PTL

\* A late call never announces a pull request that is not open any more.
THEOREM ReadyWhileOpen == Spec => []ReadyOnlyIfOpen
<1>1. IInv => ReadyOnlyIfOpen
  BY DEF IInv, Opened, ReadyOnlyIfOpen, In
<1>2. QED
  BY <1>1, Invariance, PTL

(***************************************************************************)
(* run_app_run.                                                            *)
(***************************************************************************)

NotStarted ==
  \A r \in Run : /\ run[r].pc \in {"checks", "start"} => leader[r] = "none"
                 /\ leader[r] = "none" => ~forked[r]

PortSeen == \A r \in Run : Exposed(r) => port = Free \/ port = r \/ taken[r]

RunInv == RunTypeOK /\ NotStarted /\ NothingLeftRunning /\ PortSeen

-----------------------------------------------------------------------------

LEMMA RunInitInv == RunInit => RunInv
<1> SUFFICES ASSUME RunInit PROVE RunInv
  OBVIOUS
<1>1. RunTypeOK
  BY DEF RunInit, RunTypeOK, States, Outcomes
<1>2. NotStarted /\ NothingLeftRunning /\ PortSeen
  BY DEF RunInit, NotStarted, NothingLeftRunning, PortSeen, Exposed, At
<1>3. QED
  BY <1>1, <1>2 DEF RunInv

\* Every step keeps the types, whatever the app and its neighbours do.
LEMMA RunTypeStep == RunTypeOK /\ [RunNext]_runVars => RunTypeOK'
<1> SUFFICES ASSUME RunTypeOK, [RunNext]_runVars PROVE RunTypeOK'
  OBVIOUS
<1> USE DEF RunTypeOK, At, app
<1>1. ASSUME NEW r \in Run, Refuse(r) PROVE RunTypeOK'
  BY <1>1 DEF Refuse, Settles, States, Outcomes
<1>2. ASSUME NEW r \in Run, PortCheck(r) PROVE RunTypeOK'
  BY <1>2 DEF PortCheck, Moves, Settles, States, Outcomes
<1>3. ASSUME NEW r \in Run, Start(r) PROVE RunTypeOK'
  BY <1>3 DEF Start, Moves, States, Outcomes
<1>4. ASSUME NEW r \in Run, StartFails(r) PROVE RunTypeOK'
  BY <1>4 DEF StartFails, Moves, States, Outcomes
<1>5. ASSUME NEW r \in Run, ExitedEarly(r) PROVE RunTypeOK'
  BY <1>5 DEF ExitedEarly, Settles, States, Outcomes
<1>6. ASSUME NEW r \in Run, Ready(r) PROVE RunTypeOK'
  BY <1>6 DEF Ready, Moves, States, Outcomes
<1>7. ASSUME NEW r \in Run, TimedOut(r) PROVE RunTypeOK'
  BY <1>7 DEF TimedOut, Settles, States, Outcomes
<1>8. ASSUME NEW r \in Run, Smoke(r) PROVE RunTypeOK'
  <2>1. PICK o \in {"smoke_pass", "smoke_fail"} : Settles(r, "teardown", o)
    BY <1>8 DEF Smoke
  <2>2. QED
    BY <1>8, <2>1 DEF Smoke, Settles, States, Outcomes
<1>9. ASSUME NEW r \in Run, Raises(r) PROVE RunTypeOK'
  BY <1>9 DEF Raises, Settles, States, Outcomes
<1>10. ASSUME NEW r \in Run, Terminate(r) PROVE RunTypeOK'
  <2>1. CASE GroupAlive(r)
    <3>1. run' = [run EXCEPT ![r].pc = "grace"] /\ signal' = [signal EXCEPT ![r] = "SIGTERM"]
      BY <1>10, <2>1 DEF Terminate, Moves
    <3>2. run' \in [Run -> [pc : States, outcome : Outcomes]]
      BY <3>1 DEF States
    <3>3. signal' \in [Run -> {"none", "SIGTERM", "SIGKILL"}]
      BY <3>1
    <3>4. QED
      BY <1>10, <3>1, <3>2, <3>3 DEF Terminate
  <2>2. CASE ~GroupAlive(r)
    BY <1>10, <2>2 DEF Terminate, Moves, States, Outcomes
  <2>3. QED
    BY <2>1, <2>2
<1>11. ASSUME NEW r \in Run, GraceEnds(r) PROVE RunTypeOK'
  <2>1. CASE GroupAlive(r)
    BY <1>11, <2>1 DEF GraceEnds, Moves, States, Outcomes
  <2>2. CASE ~GroupAlive(r)
    BY <1>11, <2>2 DEF GraceEnds, Moves, States, Outcomes
  <2>3. QED
    BY <2>1, <2>2
<1>12. ASSUME NEW r \in Run, KillEnds(r) PROVE RunTypeOK'
  BY <1>12 DEF KillEnds, Moves, States, Outcomes
<1>13. ASSUME NEW r \in Run, Reap(r) PROVE RunTypeOK'
  BY <1>13 DEF Reap, Moves, GroupAlive, States, Outcomes
<1>14. ASSUME NEW r \in Run, Abandon(r) PROVE RunTypeOK'
  BY <1>14 DEF Abandon, Moves, States, Outcomes
<1>15. ASSUME NEW r \in Run, Forks(r) PROVE RunTypeOK'
  BY <1>15 DEF Forks, States, Outcomes
<1>16. ASSUME NEW r \in Run, Daemonizes(r) PROVE RunTypeOK'
  BY <1>16 DEF Daemonizes, States, Outcomes
<1>17. ASSUME NEW r \in Run, LeaderEnds(r) PROVE RunTypeOK'
  BY <1>17 DEF LeaderEnds, Quits, Alive, States, Outcomes
<1>18. ASSUME NEW r \in Run, ForkedEnds(r) PROVE RunTypeOK'
  BY <1>18 DEF ForkedEnds, Quits, Alive, States, Outcomes
<1>19. ASSUME NEW r \in Run, EscapedEnds(r) PROVE RunTypeOK'
  BY <1>19 DEF EscapedEnds, Quits, Alive, States, Outcomes
<1>20. ASSUME NEW r \in Run, AppListens(r) PROVE RunTypeOK'
  BY <1>20 DEF AppListens, Listens, Exposed, Alive, States, Outcomes
<1>21. ASSUME NEW r \in Run, NumberReused(r) PROVE RunTypeOK'
  BY <1>21 DEF NumberReused, States, Outcomes
<1>22. ASSUME OtherListens PROVE RunTypeOK'
  BY <1>22 DEF OtherListens, Listens, Exposed, States, Outcomes
<1>23. ASSUME OtherQuits PROVE RunTypeOK'
  BY <1>23 DEF OtherQuits, States, Outcomes
<1>24. ASSUME UNCHANGED runVars PROVE RunTypeOK'
  BY <1>24 DEF runVars, States, Outcomes
<1>25. QED
  BY <1>1, <1>2, <1>3, <1>4, <1>5, <1>6, <1>7, <1>8, <1>9, <1>10, <1>11, <1>12, <1>13, <1>14, <1>15, <1>16, <1>17, <1>18, <1>19, <1>20, <1>21, <1>22, <1>23, <1>24 DEF RunNext, CallStep, AppStep

\* Only Start makes a process, and only a live leader forks.
LEMMA NotStartedStep == RunTypeOK /\ NotStarted /\ [RunNext]_runVars => NotStarted'
<1> SUFFICES ASSUME RunTypeOK, NotStarted, [RunNext]_runVars PROVE NotStarted'
  OBVIOUS
<1> USE DEF RunTypeOK, NotStarted, At, app
<1>1. ASSUME NEW r \in Run, Refuse(r) PROVE NotStarted'
  BY <1>1 DEF Refuse, Settles, States
<1>2. ASSUME NEW r \in Run, PortCheck(r) PROVE NotStarted'
  BY <1>2 DEF PortCheck, Moves, Settles, States
<1>3. ASSUME NEW r \in Run, Start(r) PROVE NotStarted'
  BY <1>3 DEF Start, Moves, States
<1>4. ASSUME NEW r \in Run, StartFails(r) PROVE NotStarted'
  BY <1>4 DEF StartFails, Moves, States
<1>5. ASSUME NEW r \in Run, ExitedEarly(r) PROVE NotStarted'
  BY <1>5 DEF ExitedEarly, Settles, States
<1>6. ASSUME NEW r \in Run, Ready(r) PROVE NotStarted'
  BY <1>6 DEF Ready, Moves, States
<1>7. ASSUME NEW r \in Run, TimedOut(r) PROVE NotStarted'
  BY <1>7 DEF TimedOut, Settles, States
<1>8. ASSUME NEW r \in Run, Smoke(r) PROVE NotStarted'
  BY <1>8 DEF Smoke, Settles, States
<1>9. ASSUME NEW r \in Run, Raises(r) PROVE NotStarted'
  BY <1>9 DEF Raises, Settles, States
<1>10. ASSUME NEW r \in Run, Terminate(r) PROVE NotStarted'
  <2>1. CASE GroupAlive(r)
    BY <1>10, <2>1 DEF Terminate, Moves, States
  <2>2. CASE ~GroupAlive(r)
    BY <1>10, <2>2 DEF Terminate, Moves, States
  <2>3. QED
    BY <2>1, <2>2
<1>11. ASSUME NEW r \in Run, GraceEnds(r) PROVE NotStarted'
  <2>1. CASE GroupAlive(r)
    BY <1>11, <2>1 DEF GraceEnds, Moves, States
  <2>2. CASE ~GroupAlive(r)
    BY <1>11, <2>2 DEF GraceEnds, Moves, States
  <2>3. QED
    BY <2>1, <2>2
<1>12. ASSUME NEW r \in Run, KillEnds(r) PROVE NotStarted'
  BY <1>12 DEF KillEnds, Moves, States
<1>13. ASSUME NEW r \in Run, Reap(r) PROVE NotStarted'
  BY <1>13 DEF Reap, Moves, GroupAlive, States
<1>14. ASSUME NEW r \in Run, Abandon(r) PROVE NotStarted'
  BY <1>14 DEF Abandon, Moves, States
<1>15. ASSUME NEW r \in Run, Forks(r) PROVE NotStarted'
  BY <1>15 DEF Forks, States
<1>16. ASSUME NEW r \in Run, Daemonizes(r) PROVE NotStarted'
  BY <1>16 DEF Daemonizes, States
<1>17. ASSUME NEW r \in Run, LeaderEnds(r) PROVE NotStarted'
  BY <1>17 DEF LeaderEnds, Quits, Alive, States
<1>18. ASSUME NEW r \in Run, ForkedEnds(r) PROVE NotStarted'
  BY <1>18 DEF ForkedEnds, Quits, Alive, States
<1>19. ASSUME NEW r \in Run, EscapedEnds(r) PROVE NotStarted'
  BY <1>19 DEF EscapedEnds, Quits, Alive, States
<1>20. ASSUME NEW r \in Run, AppListens(r) PROVE NotStarted'
  BY <1>20 DEF AppListens, Listens, Exposed, Alive, States
<1>21. ASSUME NEW r \in Run, NumberReused(r) PROVE NotStarted'
  BY <1>21 DEF NumberReused, States
<1>22. ASSUME OtherListens PROVE NotStarted'
  BY <1>22 DEF OtherListens, Listens, Exposed, States
<1>23. ASSUME OtherQuits PROVE NotStarted'
  BY <1>23 DEF OtherQuits, States
<1>24. ASSUME UNCHANGED runVars PROVE NotStarted'
  BY <1>24 DEF runVars, States
<1>25. QED
  BY <1>1, <1>2, <1>3, <1>4, <1>5, <1>6, <1>7, <1>8, <1>9, <1>10, <1>11, <1>12, <1>13, <1>14, <1>15, <1>16, <1>17, <1>18, <1>19, <1>20, <1>21, <1>22, <1>23, <1>24 DEF RunNext, CallStep, AppStep

\* A call returns "done" only before its Start, or after a last look that
\* found nobody in the group.
LEMMA NothingLeftStep ==
  RunTypeOK /\ NotStarted /\ NothingLeftRunning /\ [RunNext]_runVars => NothingLeftRunning'
<1> SUFFICES ASSUME RunTypeOK, NotStarted, NothingLeftRunning, [RunNext]_runVars PROVE NothingLeftRunning'
  OBVIOUS
<1> USE DEF RunTypeOK, NotStarted, NothingLeftRunning, At, app
<1>1. ASSUME NEW r \in Run, Refuse(r) PROVE NothingLeftRunning'
  BY <1>1 DEF Refuse, Settles, States
<1>2. ASSUME NEW r \in Run, PortCheck(r) PROVE NothingLeftRunning'
  BY <1>2 DEF PortCheck, Moves, Settles, States
<1>3. ASSUME NEW r \in Run, Start(r) PROVE NothingLeftRunning'
  BY <1>3 DEF Start, Moves, States
<1>4. ASSUME NEW r \in Run, StartFails(r) PROVE NothingLeftRunning'
  BY <1>4 DEF StartFails, Moves, States
<1>5. ASSUME NEW r \in Run, ExitedEarly(r) PROVE NothingLeftRunning'
  BY <1>5 DEF ExitedEarly, Settles, States
<1>6. ASSUME NEW r \in Run, Ready(r) PROVE NothingLeftRunning'
  BY <1>6 DEF Ready, Moves, States
<1>7. ASSUME NEW r \in Run, TimedOut(r) PROVE NothingLeftRunning'
  BY <1>7 DEF TimedOut, Settles, States
<1>8. ASSUME NEW r \in Run, Smoke(r) PROVE NothingLeftRunning'
  BY <1>8 DEF Smoke, Settles, States
<1>9. ASSUME NEW r \in Run, Raises(r) PROVE NothingLeftRunning'
  BY <1>9 DEF Raises, Settles, States
<1>10. ASSUME NEW r \in Run, Terminate(r) PROVE NothingLeftRunning'
  <2>1. CASE GroupAlive(r)
    BY <1>10, <2>1 DEF Terminate, Moves, States
  <2>2. CASE ~GroupAlive(r)
    BY <1>10, <2>2 DEF Terminate, Moves, States
  <2>3. QED
    BY <2>1, <2>2
<1>11. ASSUME NEW r \in Run, GraceEnds(r) PROVE NothingLeftRunning'
  <2>1. CASE GroupAlive(r)
    BY <1>11, <2>1 DEF GraceEnds, Moves, States
  <2>2. CASE ~GroupAlive(r)
    BY <1>11, <2>2 DEF GraceEnds, Moves, States
  <2>3. QED
    BY <2>1, <2>2
<1>12. ASSUME NEW r \in Run, KillEnds(r) PROVE NothingLeftRunning'
  BY <1>12 DEF KillEnds, Moves, States
<1>13. ASSUME NEW r \in Run, Reap(r) PROVE NothingLeftRunning'
  BY <1>13 DEF Reap, Moves, GroupAlive, States
<1>14. ASSUME NEW r \in Run, Abandon(r) PROVE NothingLeftRunning'
  BY <1>14 DEF Abandon, Moves, States
<1>15. ASSUME NEW r \in Run, Forks(r) PROVE NothingLeftRunning'
  BY <1>15 DEF Forks, States
<1>16. ASSUME NEW r \in Run, Daemonizes(r) PROVE NothingLeftRunning'
  BY <1>16 DEF Daemonizes, States
<1>17. ASSUME NEW r \in Run, LeaderEnds(r) PROVE NothingLeftRunning'
  BY <1>17 DEF LeaderEnds, Quits, Alive, States
<1>18. ASSUME NEW r \in Run, ForkedEnds(r) PROVE NothingLeftRunning'
  BY <1>18 DEF ForkedEnds, Quits, Alive, States
<1>19. ASSUME NEW r \in Run, EscapedEnds(r) PROVE NothingLeftRunning'
  BY <1>19 DEF EscapedEnds, Quits, Alive, States
<1>20. ASSUME NEW r \in Run, AppListens(r) PROVE NothingLeftRunning'
  BY <1>20 DEF AppListens, Listens, Exposed, Alive, States
<1>21. ASSUME NEW r \in Run, NumberReused(r) PROVE NothingLeftRunning'
  BY <1>21 DEF NumberReused, States
<1>22. ASSUME OtherListens PROVE NothingLeftRunning'
  BY <1>22 DEF OtherListens, Listens, Exposed, States
<1>23. ASSUME OtherQuits PROVE NothingLeftRunning'
  BY <1>23 DEF OtherQuits, States
<1>24. ASSUME UNCHANGED runVars PROVE NothingLeftRunning'
  BY <1>24 DEF runVars, States
<1>25. QED
  BY <1>1, <1>2, <1>3, <1>4, <1>5, <1>6, <1>7, <1>8, <1>9, <1>10, <1>11, <1>12, <1>13, <1>14, <1>15, <1>16, <1>17, <1>18, <1>19, <1>20, <1>21, <1>22, <1>23, <1>24 DEF RunNext, CallStep, AppStep

\* Whoever takes the port while a call is exposed is remembered in taken.
LEMMA PortSeenStep == RunTypeOK /\ PortSeen /\ [RunNext]_runVars => PortSeen'
<1> SUFFICES ASSUME RunTypeOK, PortSeen, [RunNext]_runVars PROVE PortSeen'
  OBVIOUS
<1> USE DEF RunTypeOK, PortSeen, Exposed, At, app
<1>1. ASSUME NEW r \in Run, Refuse(r) PROVE PortSeen'
  BY <1>1 DEF Refuse, Settles, States
<1>2. ASSUME NEW r \in Run, PortCheck(r) PROVE PortSeen'
  BY <1>2 DEF PortCheck, Moves, Settles, States
<1>3. ASSUME NEW r \in Run, Start(r) PROVE PortSeen'
  BY <1>3 DEF Start, Moves, States
<1>4. ASSUME NEW r \in Run, StartFails(r) PROVE PortSeen'
  BY <1>4 DEF StartFails, Moves, States
<1>5. ASSUME NEW r \in Run, ExitedEarly(r) PROVE PortSeen'
  BY <1>5 DEF ExitedEarly, Settles, States
<1>6. ASSUME NEW r \in Run, Ready(r) PROVE PortSeen'
  BY <1>6 DEF Ready, Moves, States
<1>7. ASSUME NEW r \in Run, TimedOut(r) PROVE PortSeen'
  BY <1>7 DEF TimedOut, Settles, States
<1>8. ASSUME NEW r \in Run, Smoke(r) PROVE PortSeen'
  BY <1>8 DEF Smoke, Settles, States
<1>9. ASSUME NEW r \in Run, Raises(r) PROVE PortSeen'
  BY <1>9 DEF Raises, Settles, States
<1>10. ASSUME NEW r \in Run, Terminate(r) PROVE PortSeen'
  <2>1. CASE GroupAlive(r)
    BY <1>10, <2>1 DEF Terminate, Moves, States
  <2>2. CASE ~GroupAlive(r)
    BY <1>10, <2>2 DEF Terminate, Moves, States
  <2>3. QED
    BY <2>1, <2>2
<1>11. ASSUME NEW r \in Run, GraceEnds(r) PROVE PortSeen'
  <2>1. CASE GroupAlive(r)
    BY <1>11, <2>1 DEF GraceEnds, Moves, States
  <2>2. CASE ~GroupAlive(r)
    BY <1>11, <2>2 DEF GraceEnds, Moves, States
  <2>3. QED
    BY <2>1, <2>2
<1>12. ASSUME NEW r \in Run, KillEnds(r) PROVE PortSeen'
  BY <1>12 DEF KillEnds, Moves, States
<1>13. ASSUME NEW r \in Run, Reap(r) PROVE PortSeen'
  BY <1>13 DEF Reap, Moves, GroupAlive, States
<1>14. ASSUME NEW r \in Run, Abandon(r) PROVE PortSeen'
  BY <1>14 DEF Abandon, Moves, States
<1>15. ASSUME NEW r \in Run, Forks(r) PROVE PortSeen'
  BY <1>15 DEF Forks, States
<1>16. ASSUME NEW r \in Run, Daemonizes(r) PROVE PortSeen'
  BY <1>16 DEF Daemonizes, States
<1>17. ASSUME NEW r \in Run, LeaderEnds(r) PROVE PortSeen'
  BY <1>17 DEF LeaderEnds, Quits, Alive, States
<1>18. ASSUME NEW r \in Run, ForkedEnds(r) PROVE PortSeen'
  BY <1>18 DEF ForkedEnds, Quits, Alive, States
<1>19. ASSUME NEW r \in Run, EscapedEnds(r) PROVE PortSeen'
  BY <1>19 DEF EscapedEnds, Quits, Alive, States
<1>20. ASSUME NEW r \in Run, AppListens(r) PROVE PortSeen'
  BY <1>20 DEF AppListens, Listens, Alive, States
<1>21. ASSUME NEW r \in Run, NumberReused(r) PROVE PortSeen'
  BY <1>21 DEF NumberReused, States
<1>22. ASSUME OtherListens PROVE PortSeen'
  BY <1>22 DEF OtherListens, Listens, States
<1>23. ASSUME OtherQuits PROVE PortSeen'
  BY <1>23 DEF OtherQuits, States
<1>24. ASSUME UNCHANGED runVars PROVE PortSeen'
  BY <1>24 DEF runVars, States
<1>25. QED
  BY <1>1, <1>2, <1>3, <1>4, <1>5, <1>6, <1>7, <1>8, <1>9, <1>10, <1>11, <1>12, <1>13, <1>14, <1>15, <1>16, <1>17, <1>18, <1>19, <1>20, <1>21, <1>22, <1>23, <1>24 DEF RunNext, CallStep, AppStep

LEMMA RunStepInv == RunInv /\ [RunNext]_runVars => RunInv'
  BY RunTypeStep, NotStartedStep, NothingLeftStep, PortSeenStep DEF RunInv

LEMMA RunInvariance == RunSpec => []RunInv
  BY RunInitInv, RunStepInv, PTL DEF RunSpec

-----------------------------------------------------------------------------

\* The variables keep their types, and a call that tears down knows its outcome.
THEOREM RunTypeCorrect == RunSpec => []RunTypeOK
<1>1. RunInv => RunTypeOK
  BY DEF RunInv
<1>2. QED
  BY <1>1, RunInvariance, PTL

\* run_app_run, lines 472 to 484: a call that does not report an incomplete
\* teardown has left no process in its group.
THEOREM NothingIsLeftRunning == RunSpec => []NothingLeftRunning
<1>1. RunInv => NothingLeftRunning
  BY DEF RunInv
<1>2. QED
  BY <1>1, RunInvariance, PTL

\* Only Smoke lets a call pass, and then PortSeen says who answered.
LEMMA SmokeStep ==
  ASSUME RunInv, [RunNext]_runVars, NEW q \in Run, ~At(q, "teardown"),
         run'[q] = [pc |-> "teardown", outcome |-> "smoke_pass"]
  PROVE  port = q \/ taken[q]
<1> USE DEF RunInv, RunTypeOK, PortSeen, Exposed, At, app
<1>1. ASSUME NEW r \in Run, Refuse(r) PROVE port = q \/ taken[q]
  BY <1>1 DEF Refuse, Settles, States
<1>2. ASSUME NEW r \in Run, PortCheck(r) PROVE port = q \/ taken[q]
  BY <1>2 DEF PortCheck, Moves, Settles, States
<1>3. ASSUME NEW r \in Run, Start(r) PROVE port = q \/ taken[q]
  BY <1>3 DEF Start, Moves, States
<1>4. ASSUME NEW r \in Run, StartFails(r) PROVE port = q \/ taken[q]
  BY <1>4 DEF StartFails, Moves, States
<1>5. ASSUME NEW r \in Run, ExitedEarly(r) PROVE port = q \/ taken[q]
  BY <1>5 DEF ExitedEarly, Settles, States
<1>6. ASSUME NEW r \in Run, Ready(r) PROVE port = q \/ taken[q]
  BY <1>6 DEF Ready, Moves, States
<1>7. ASSUME NEW r \in Run, TimedOut(r) PROVE port = q \/ taken[q]
  BY <1>7 DEF TimedOut, Settles, States
<1>8. ASSUME NEW r \in Run, Smoke(r) PROVE port = q \/ taken[q]
  BY <1>8 DEF Smoke, Settles, States
<1>9. ASSUME NEW r \in Run, Raises(r) PROVE port = q \/ taken[q]
  BY <1>9 DEF Raises, Settles, States
<1>10. ASSUME NEW r \in Run, Terminate(r) PROVE port = q \/ taken[q]
  <2>1. CASE GroupAlive(r)
    BY <1>10, <2>1 DEF Terminate, Moves, States
  <2>2. CASE ~GroupAlive(r)
    BY <1>10, <2>2 DEF Terminate, Moves, States
  <2>3. QED
    BY <2>1, <2>2
<1>11. ASSUME NEW r \in Run, GraceEnds(r) PROVE port = q \/ taken[q]
  <2>1. CASE GroupAlive(r)
    BY <1>11, <2>1 DEF GraceEnds, Moves, States
  <2>2. CASE ~GroupAlive(r)
    BY <1>11, <2>2 DEF GraceEnds, Moves, States
  <2>3. QED
    BY <2>1, <2>2
<1>12. ASSUME NEW r \in Run, KillEnds(r) PROVE port = q \/ taken[q]
  BY <1>12 DEF KillEnds, Moves, States
<1>13. ASSUME NEW r \in Run, Reap(r) PROVE port = q \/ taken[q]
  BY <1>13 DEF Reap, Moves, GroupAlive, States
<1>14. ASSUME NEW r \in Run, Abandon(r) PROVE port = q \/ taken[q]
  BY <1>14 DEF Abandon, Moves, States
<1>15. ASSUME NEW r \in Run, Forks(r) PROVE port = q \/ taken[q]
  BY <1>15 DEF Forks, States
<1>16. ASSUME NEW r \in Run, Daemonizes(r) PROVE port = q \/ taken[q]
  BY <1>16 DEF Daemonizes, States
<1>17. ASSUME NEW r \in Run, LeaderEnds(r) PROVE port = q \/ taken[q]
  BY <1>17 DEF LeaderEnds, Quits, Alive, States
<1>18. ASSUME NEW r \in Run, ForkedEnds(r) PROVE port = q \/ taken[q]
  BY <1>18 DEF ForkedEnds, Quits, Alive, States
<1>19. ASSUME NEW r \in Run, EscapedEnds(r) PROVE port = q \/ taken[q]
  BY <1>19 DEF EscapedEnds, Quits, Alive, States
<1>20. ASSUME NEW r \in Run, AppListens(r) PROVE port = q \/ taken[q]
  BY <1>20 DEF AppListens, Listens, Alive, States
<1>21. ASSUME NEW r \in Run, NumberReused(r) PROVE port = q \/ taken[q]
  BY <1>21 DEF NumberReused, States
<1>22. ASSUME OtherListens PROVE port = q \/ taken[q]
  BY <1>22 DEF OtherListens, Listens, States
<1>23. ASSUME OtherQuits PROVE port = q \/ taken[q]
  BY <1>23 DEF OtherQuits, States
<1>24. ASSUME UNCHANGED runVars PROVE port = q \/ taken[q]
  BY <1>24 DEF runVars, States
<1>25. QED
  BY <1>1, <1>2, <1>3, <1>4, <1>5, <1>6, <1>7, <1>8, <1>9, <1>10, <1>11, <1>12, <1>13, <1>14, <1>15, <1>16, <1>17, <1>18, <1>19, <1>20, <1>21, <1>22, <1>23, <1>24 DEF RunNext, CallStep, AppStep

\* A passed smoke test was answered by the call's own app, or by a server
\* that took the port after port_is_free had found it free.
THEOREM SmokeTestsAreOwn == RunSpec => SmokeIsOwn
<1>1. RunInv /\ [RunNext]_runVars =>
        [\A r \in Run : ~At(r, "teardown") /\ run'[r] = [pc |-> "teardown", outcome |-> "smoke_pass"]
           => port = r \/ taken[r]]_runVars
  BY SmokeStep
<1>2. QED
  BY <1>1, RunInvariance, PTL DEF RunSpec, SmokeIsOwn

===============================================================================
