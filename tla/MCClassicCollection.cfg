SPECIFICATION FairSpec
CONSTANTS
  noise = noise
  clump = clump
  NotFinite = NotFinite
  MaxDescriptions = 2
  Modules <- TwoModules
  Plans <- AllPlans
  MaxWorkers = 2
  MaxSamples = 3
  Placements = {1, 2, 3}
  Strands = {0, 1}
CONSTRAINT Within
INVARIANTS PipelineIsComplete EverySampleHasCurves
PROPERTIES EverythingEnds
