SPECIFICATION MotionSpec
CONSTANTS
  MaxSamples = 4
  RootData = {r1, r2}
  GuideData = {g1, g2}
  AxisData = {x1}
  None = None
INVARIANTS SamplesAreTheirOwn OwnersAreComplete
