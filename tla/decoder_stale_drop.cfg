SPECIFICATION Spec
CONSTANTS
  Buffers = {b1}
  dropped_frame_buffer = dropped
  NoBuffer = none
  Frames = {1, 2}
  num_primary_packets = 1
  num_tail_packets = 1
  frame_timeout = 1
  CounterModulus = 65536
  MaxCopies = 1
  LateArrivals = FALSE
  MaxIgnored = 0
INVARIANT CompleteIsHandedOver
