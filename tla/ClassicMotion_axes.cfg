SPECIFICATION MotionSpec
CONSTANTS
  MaxSamples = 2
  RootData = {r1, r2}
  GuideData = {g1}
  AxisData = {x1, x2}
  None = None
INVARIANTS SharedDeformationIsIdentical
