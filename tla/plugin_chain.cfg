SPECIFICATION FairSpec
CONSTANTS
  Pixels <- MCPixels
  max_frames_received = 2
  pass_processed = TRUE
  frame_numbers = {0, 2}
  MaxFrames = 2
  MaxConfigurations = 1
INVARIANTS TypeOK RawFollowsProcessed NoPixelHitTwice PushedCountsAreWritten
           HistogramsEndPeriods
PROPERTY EveryFrameWritten
CHECK_DEADLOCK FALSE
