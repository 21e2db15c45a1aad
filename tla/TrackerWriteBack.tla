--------------------------- MODULE TrackerWriteBack ---------------------------
(***************************************************************************)
(* loop-task-implementer/scripts/tracker_write_back.py: the comments that  *)
(* an orchestrator leaves on the issue a task came from, one (pr-opened)   *)
(* when its pull request waits for a human and one (merged) when it has    *)
(* been merged.  A comment carries a marker; before every post the issue   *)
(* is searched for it, because the answer to an earlier post may have been *)
(* lost.  GitHub is reached through gh, any call of which may fail, and a  *)
(* post that timed out may still take effect later.                        *)
(***************************************************************************)
EXTENDS Naturals, Sequences, FiniteSets

CONSTANTS
  Loop,        \* orchestrators that work for the task, one call after another
  MaxRetries,  \* max_retries of attempt_write_back
  PageSize,    \* comments that one unpaginated answer of gh api holds
  MaxCalls,    \* bound: calls of attempt_write_back by one orchestrator
  MaxOthers    \* bound: comments by other people

ASSUME TrackerAssumption ==
  MaxRetries \in Nat /\ PageSize \in Nat \ {0} /\ MaxCalls \in Nat /\ MaxOthers \in Nat

VARIABLES
  comments,  \* the comments of the issue, oldest first
  pr,        \* the state of the task's pull request
  late,      \* posts that were answered by a timeout and may still take effect
  loop,      \* the locals of each orchestrator's call
  excuse     \* history: how a second comment of a variant may come about

vars == <<comments, pr, late, loop, excuse>>

Variant == {"pr-opened", "merged"}
Comment == [own : BOOLEAN, marker : Variant \cup {"none"}]
Own(v)  == [own |-> TRUE, marker |-> v]

Call == [pc : {"idle", "fresh", "identify", "check", "post"}, variant : Variant,
         attempt : 0 .. MaxRetries, calls : 0 .. MaxCalls, openAtStart : BOOLEAN,
         outcome : {"none", "not_attempted", "skipped_already_posted", "posted", "failed"}]

OwnAt(v)  == {i \in DOMAIN comments : comments[i] = Own(v)}
Posted(v) == OwnAt(v) # {}
Twice(v)  == \E i, j \in OwnAt(v) : i # j

\* An orchestrator between two calls, and one that begins a call.
Between(v, calls, outcome) ==
  [pc |-> "idle", variant |-> v, attempt |-> 0, calls |-> calls, openAtStart |-> TRUE, outcome |-> outcome]
Begun(v, calls) ==
  [pc |-> IF v = "pr-opened" THEN "fresh" ELSE "identify", variant |-> v, attempt |-> 0,
   calls |-> calls, openAtStart |-> (pr = "open"), outcome |-> "none"]

Init ==
  /\ comments = << >> /\ pr = "open"
  /\ late = [v \in Variant |-> 0]
  /\ loop = [o \in Loop |-> Between("merged", 0, "none")]
  /\ excuse = [v \in Variant |-> FALSE]

-----------------------------------------------------------------------------
(* attempt_write_back.                                                     *)

In(o, pc)   == loop[o].pc = pc
Goto(o, pc) == loop' = [loop EXCEPT ![o].pc = pc]

\* The call returns; the orchestrator only logs what it returns.
Returned(r, outcome) == Between(r.variant, r.calls, outcome)
Return(o, outcome)   == loop' = [loop EXCEPT ![o] = Returned(@, outcome)]

\* The orchestrator calls it for a pull request that waits for a human, and
\* for one that it has verified to be merged.
Begin(o) ==
  /\ In(o, "idle") /\ loop[o].calls < MaxCalls
  /\ \E v \in Variant :
       /\ v = "merged" => pr = "merged"
       /\ loop' = [loop EXCEPT ![o] = Begun(v, @.calls + 1)]
  /\ UNCHANGED <<comments, pr, late, excuse>>

\* No grant, or no issue that the task came from: not_attempted.
NotAuthorized(o) ==
  /\ In(o, "idle") /\ loop[o].calls < MaxCalls
  /\ loop' = [loop EXCEPT ![o] = Between(@.variant, @.calls + 1, "not_attempted")]
  /\ UNCHANGED <<comments, pr, late, excuse>>

\* Mutant: an unreadable pull request counts as open.
FreshOrUnread(o) ==
  /\ In(o, "fresh")
  /\ \/ Goto(o, "identify")
     \/ pr # "open" /\ Return(o, "not_attempted")
  /\ UNCHANGED <<comments, pr, late, excuse>>

\* _pr_still_open: a failed read counts as not open.
Fresh(o) ==
  /\ In(o, "fresh")
  /\ \/ pr = "open" /\ Goto(o, "identify")
     \/ Return(o, "not_attempted")
  /\ UNCHANGED <<comments, pr, late, excuse>>

\* get_write_back_actor_identity.
Identify(o) ==
  /\ In(o, "identify")
  /\ Goto(o, "check") \/ Return(o, "failed")
  /\ UNCHANGED <<comments, pr, late, excuse>>

\* What one answer of gh api .../comments holds: GitHub's first page.
Page == {comments[i] : i \in {j \in DOMAIN comments : j <= PageSize}}

\* Mutant: the author of a marker is not compared.
SeesAnyones(v) == \E c \in Page : c.marker = v

\* check_existing_marker on an answer that could be read.
Sees(v) == Own(v) \in Page

\* Another call for the same variant is between its search and its answer.
Alone(o) == \A q \in Loop \ {o} : loop[q].variant = loop[o].variant => ~In(q, "post")

\* skipped_already_posted.
Skip(o) ==
  /\ In(o, "check") /\ Sees(loop[o].variant)
  /\ Return(o, "skipped_already_posted")
  /\ UNCHANGED <<comments, pr, late, excuse>>

\* No marker of this variant is on the page.
NotSeen(o) ==
  /\ In(o, "check") /\ ~Sees(loop[o].variant)
  /\ Goto(o, "post")
  /\ excuse' = [excuse EXCEPT ![loop[o].variant] = @ \/ Len(comments) > PageSize \/ ~Alone(o)]
  /\ UNCHANGED <<comments, pr, late>>

\* The read failed, which counts as no marker.
Unread(o) ==
  /\ In(o, "check")
  /\ Goto(o, "post")
  /\ excuse' = [excuse EXCEPT ![loop[o].variant] = TRUE]
  /\ UNCHANGED <<comments, pr, late>>

Append1(v) == comments' = Append(comments, Own(v))

\* post_write_back is answered.
PostAnswered(o) ==
  /\ In(o, "post")
  /\ Append1(loop[o].variant)
  /\ Return(o, "posted")
  /\ UNCHANGED <<pr, late, excuse>>

\* Mutant: the retry trusts the search made before the first post.
NextRoundUnchecked(r) ==
  IF r.attempt < MaxRetries THEN [r EXCEPT !.pc = "post", !.attempt = @ + 1] ELSE Returned(r, "failed")

\* After a failed post: one more round from the search on, or failed:<category>.
NextRound(r) ==
  IF r.attempt < MaxRetries THEN [r EXCEPT !.pc = "check", !.attempt = @ + 1] ELSE Returned(r, "failed")

\* A post that is not answered: it never arrives or is refused; it takes
\* effect; or it takes effect after the caller has given it up.
Unanswered(v) ==
  \/ UNCHANGED <<comments, late>>
  \/ Append1(v) /\ UNCHANGED late
  \/ late' = [late EXCEPT ![v] = @ + 1] /\ UNCHANGED comments

PostFails(o) ==
  /\ In(o, "post")
  /\ Unanswered(loop[o].variant)
  /\ loop' = [loop EXCEPT ![o] = NextRound(@)]
  /\ UNCHANGED <<pr, excuse>>

\* The orchestrator dies; the session that resumes it may call again.
Crash(o) ==
  /\ ~In(o, "idle")
  /\ IF In(o, "post") THEN Unanswered(loop[o].variant) ELSE UNCHANGED <<comments, late>>
  /\ Return(o, "none")
  /\ UNCHANGED <<pr, excuse>>

\* A post that was given up takes effect.
Land(v) ==
  /\ late[v] > 0
  /\ Append1(v)
  /\ late' = [late EXCEPT ![v] = @ - 1]
  /\ excuse' = [excuse EXCEPT ![v] = TRUE]
  /\ UNCHANGED <<pr, loop>>

\* Somebody else comments, perhaps quoting a marker.
OtherComments ==
  /\ Cardinality({i \in DOMAIN comments : ~comments[i].own}) < MaxOthers
  /\ \E m \in Variant \cup {"none"} : comments' = Append(comments, [own |-> FALSE, marker |-> m])
  /\ UNCHANGED <<pr, late, loop, excuse>>

PullRequestMoves ==
  /\ pr = "open"
  /\ pr' \in {"merged", "closed"}
  /\ UNCHANGED <<comments, late, loop, excuse>>

Step(o) == Fresh(o) \/ Identify(o) \/ Skip(o) \/ NotSeen(o) \/ Unread(o) \/ PostAnswered(o) \/ PostFails(o)

Next ==
  \/ \E o \in Loop : Begin(o) \/ NotAuthorized(o) \/ Step(o) \/ Crash(o)
  \/ \E v \in Variant : Land(v)
  \/ OtherComments \/ PullRequestMoves

Spec == Init /\ [][Next]_vars

-----------------------------------------------------------------------------

TypeOK ==
  /\ comments \in Seq(Comment)
  /\ pr \in {"open", "merged", "closed"}
  /\ late \in [Variant -> Nat]
  /\ loop \in [Loop -> Call]
  /\ excuse \in [Variant -> BOOLEAN]

\* However often posts fail, are repeated or lose their answer, the issue
\* gets a second comment of one variant only if a search could not see the
\* first one: its read failed, the issue had more comments than one page,
\* another call was posting, or a post took effect after it was given up.
OneCommentUnlessBlind == \A v \in Variant : Twice(v) => excuse[v]

\* A call returns posted or skipped_already_posted only if this actor's own
\* comment of that very variant is on the issue: nobody else's marker, and no
\* marker of the other variant, keeps a comment away.
OutcomeTrue ==
  \A o \in Loop : loop[o].outcome \in {"posted", "skipped_already_posted"} => Posted(loop[o].variant)

\* A call that starts after the pull request was merged or closed never gets
\* as far as posting that it is ready for review.
ReadyOnlyIfOpen ==
  \A o \in Loop : In(o, "post") /\ loop[o].variant = "pr-opened" => loop[o].openAtStart

\* check_existing_marker's docstring: it reads the issue's existing comments
\* and searches them, so a search that could be read finds a marker of its own.
ReadSearchFindsMarker ==
  [][\A o \in Loop : NotSeen(o) => ~Posted(loop[o].variant)]_vars

=============================================================================
