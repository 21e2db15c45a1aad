CONSTANTS
  None = None
  Tag = Tag
  Text = Text
  r1 = r1
  r2 = r2
  d1 = d1
  prod = prod
  staging = staging
  u1 = u1
  u2 = u2
  Unit = {u1, u2}
  Revision = {r1, r2}
  Digest = {d1}
  Env = {prod, staging}
  Built <- BuiltFrom
  Targets <- SmallTargets
  Flaws <- SmallFlaws
  Manifests = {}
  Bundles <- SmallBundles
  Earlier <- SmallEarlier
  Outcomes <- SmallOutcomes
  MaxOdd = 1
  MaxMoves = 1
  MaxReviews = 1
SPECIFICATION Spec
INVARIANT NoPartialImpact
CHECK_DEADLOCK FALSE
