SPECIFICATION Spec
CONSTANTS
  noise = noise
  clump = clump
  NotFinite = NotFinite
  MaxDescriptions = 1
  Modules <- TwoModules
  Plans <- PlansToEncode
  MaxWorkers = 1
  MaxSamples = 2
  Placements = {1, 2, 3}
  Strands = {0, 1}
INVARIANTS ThrowRecordsNothing
