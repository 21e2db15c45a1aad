----------------------------- MODULE CasRegister -----------------------------
(***************************************************************************)
(* What a durable checkpoint store promises its callers: one register,     *)
(* every call of which takes effect in a single step between its           *)
(* invocation and its return, or not at all.  The operations are left      *)
(* open: Outcome gives what an operation answers in a state of the         *)
(* register, After the register it leaves.                                 *)
(***************************************************************************)
CONSTANTS
  Proc,            \* the callers
  Op,              \* the operations they may call
  Initially,       \* the register before the first call
  Spoilt,          \* the register after somebody damaged it by hand
  Refusals,        \* answers given without looking at the register
  Nothing,         \* no call in progress, or no answer yet
  Outcome(_, _),   \* Outcome(register, operation)
  After(_, _)      \* After(register, operation)

VARIABLES
  register,  \* the value stored
  call,      \* call[p] is the operation p has called, or Nothing
  answer     \* answer[p] is decided, or Nothing

vars == <<register, call, answer>>

Init ==
  /\ register = Initially
  /\ call   = [p \in Proc |-> Nothing]
  /\ answer = [p \in Proc |-> Nothing]

Invoke(p, o) ==
  /\ call[p] = Nothing
  /\ call' = [call EXCEPT ![p] = o]
  /\ UNCHANGED <<register, answer>>

Undecided(p) == call[p] # Nothing /\ answer[p] = Nothing

\* The one step at which the call takes effect.
TakeEffect(p) ==
  /\ Undecided(p)
  /\ answer'   = [answer EXCEPT ![p] = Outcome(register, call[p])]
  /\ register' = After(register, call[p])
  /\ UNCHANGED call

\* The call gives up and leaves the register alone.
Refuse(p) ==
  /\ Undecided(p)
  /\ \E r \in Refusals : answer' = [answer EXCEPT ![p] = r]
  /\ UNCHANGED <<register, call>>

Return(p) ==
  /\ answer[p] # Nothing
  /\ call'   = [call EXCEPT ![p] = Nothing]
  /\ answer' = [answer EXCEPT ![p] = Nothing]
  /\ UNCHANGED register

\* The caller dies, before its call took effect or after.
Die(p) ==
  /\ call[p] # Nothing
  /\ call'   = [call EXCEPT ![p] = Nothing]
  /\ answer' = [answer EXCEPT ![p] = Nothing]
  /\ UNCHANGED register

Spoil ==
  /\ register' = Spoilt
  /\ UNCHANGED <<call, answer>>

Next ==
  \/ \E p \in Proc : \/ \E o \in Op : Invoke(p, o)
                     \/ TakeEffect(p)
                     \/ Refuse(p)
                     \/ Return(p)
                     \/ Die(p)
  \/ Spoil

Spec == Init /\ [][Next]_vars
=============================================================================
