SPECIFICATION SceneSpec
CONSTANTS
  StencilSize = 2
  MaxGuideCvs = 9
  InvalidIndex = 999
  Unit = 4
  IndexLimit = 65536
  Grid = 4
  Whole = 64
  HashSize = 256
  SampleLimit = 12
  InputLimit = 61
  Gradients <- MCGradients
  SamplePattern <- MCSamplePattern
  StringSeed <- MCStringSeed
  Compiled <- CompileExpression
  TreeTokens <- WrittenAs
  TreeWorth <- TreeValue
  Scenes <- MCScenes
PROPERTIES BackendsAgree AccessesInBounds AliasKeepsTheAreas RigidMotionMovesCurves StaticMeansStatic AssignmentIsMinimal CompiledMeansItsTree PrimvarsAreTheStrands RootsHaveTheirGuides ClumpsFollowTheirMap StrandsStandOnTheirRoots
CHECK_DEADLOCK FALSE
