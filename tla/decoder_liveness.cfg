SPECIFICATION FairSpec
CONSTANTS
  Buffers = {b1, b2}
  dropped_frame_buffer = dropped
  NoBuffer = none
  Frames = {1, 2}
  num_primary_packets = 1
  num_tail_packets = 1
  frame_timeout = 0
  CounterModulus = 65536
  MaxCopies = 2
  LateArrivals = FALSE
  MaxIgnored = 0
PROPERTIES MappedFrameHandedOver AllBuffersReturn
