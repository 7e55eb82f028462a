\* Two sessions, frames of two lengths and one that is too long.
SPECIFICATION FairSpec
CONSTANTS
  Lens = {1, 2, 3}
  MaxLen = 2
  MaxTries = 2
  MaxStarts = 2
  MaxFrames = 3
INVARIANTS TypeOK PendingIsClaimed StoppedIsEmpty
PROPERTIES NewestIsSent QueuedIsSent ReceivingResumes
