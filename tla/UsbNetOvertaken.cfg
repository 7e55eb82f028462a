\* A second start while the hook is between its tests and the clearing of its flag.
SPECIFICATION FairSpec
CONSTANTS
  Lens = {1}
  MaxLen = 1
  MaxTries = 1
  MaxStarts = 2
  MaxFrames = 0
PROPERTY ResumesAfterStart
