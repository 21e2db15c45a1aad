SPECIFICATION FairSpec
CONSTANTS
  plan = plan  replan = replan  sketch = sketch
  t1 = t1  t2 = t2  c1 = c1  c2 = c2
  r1 = r1  r2 = r2  r3 = r3  e1 = e1  e2 = e2
  h1 = h1  h2 = h2  why = why
  None = None  Garbage = Garbage
  Read = Read  NoFile = NoFile  Malformed = Malformed
  Plan = {plan, replan, sketch}
  ReadyPlan = {plan, replan}
  Task = {t1, t2}
  Thread = {c1, c2}
  Ref = {r1, r2, r3}
  Entry = {e1, e2}
  Revision = {h1, h2}
  Reason = {why}
  MaxRefs = 2
  MaxGeneration = 2
  Proc = {p1, p2}
  Request <- EveryField
INVARIANTS
  DraftIsCurrent
  AckedIsDurable
  OneWinnerPerGeneration
  CheckpointUsable
PROPERTIES
  Monotone
  OnlySuccessWrites
  RefinesRegister
  EveryCallReturns
