\* A port where the run loop is the only pump, and one with the callback.
SPECIFICATION FairSpec
CONSTANTS
  QueueMax = 2
  FragPayload = 2
  MaxTotal = 3
  IdMod = 3
  Lengths = {3, 6, 7}
  IrqPorts = {TRUE, FALSE}
  RunLoop = TRUE
  MaxFrames <- MCFrames
  MaxDirect <- MCDirect
  MaxFails = 1
INVARIANTS TypeOK FramesAccountedFor LossesArePaidFor NoSilentLoss SentIsSettled
           OneFragmentOutstanding CompletionsBacked
PROPERTIES SendsInOrder PolledQueueDrains
