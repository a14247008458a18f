SPECIFICATION Spec
CONSTANTS
  NotFinite = NotFinite
  CountLimit = 16
  Documents <- MCDocuments
  Times = {1, 2}
  Options <- MCOptions
  Cuts = {16, 40}
  MaxMotion = 2
  MaxRuns = 2
INVARIANTS MotionFollowsItsCurve LoadedWasBuilt CacheIsItsInput BatchingChangesNothing
CHECK_DEADLOCK FALSE
