------------------------- MODULE MercuryFrameDecoder -------------------------
(***************************************************************************)
(* The frame receiver's decoder (data/frameReceiver): it routes the UDP    *)
(* packets of a frame into a shared buffer, hands the buffer over when the *)
(* frame is complete or has timed out, and gets it back from the frame     *)
(* processor later.  All decoder code runs in the receive thread, one      *)
(* handler at a time; a packet is received in two handlers (header, then   *)
(* payload), and monitor_buffers hands expired frames over one by one, so  *)
(* the frame processor, another process on the same shared memory, may act *)
(* between them.  The network may lose, reorder and, within the limits of  *)
(* two constants, duplicate and delay packets.                             *)
(*                                                                         *)
(* Variables are named after the code's members without the trailing       *)
(* underscore.  Buffers are interchangeable, so the queue of empty buffers *)
(* and the messages to and from the frame processor are bags: which buffer *)
(* is at the front is left open.                                           *)
(***************************************************************************)
EXTENDS Integers, FiniteSets

CONSTANTS
  Buffers,              \* buffer ids of the shared buffer manager
  dropped_frame_buffer, \* the private scratch buffer for dropped frames
  NoBuffer,             \* not a buffer: "frame has no entry in the map"
  Frames,               \* the frame numbers the detector sends
  num_primary_packets,  \* packets of a frame (MercuryDefinitions.h)
  num_tail_packets,
  frame_timeout,        \* ticks of the clock a frame may stay incomplete
  CounterModulus,       \* 2^32 in the code: counters are uint32_t
  MaxCopies,            \* how often the network may deliver one packet
  LateArrivals,         \* may a packet arrive after its frame timed out?
  MaxIgnored            \* bound: packets from unknown ports

\* The buffers are distinct from the two values that are not buffers.
ASSUME BuffersAssumption ==
  /\ NoBuffer \notin Buffers
  /\ dropped_frame_buffer \notin Buffers
  /\ dropped_frame_buffer # NoBuffer

\* Frame numbers survive the cast to int and differ from the default, -1.
ASSUME FramesAssumption == Frames \subseteq Nat /\ IsFiniteSet(Frames)

ASSUME PacketsAssumption ==
  num_primary_packets \in Nat \ {0} /\ num_tail_packets \in Nat

ASSUME BoundsAssumption ==
  /\ frame_timeout \in Nat
  /\ CounterModulus \in Nat \ {0}
  /\ MaxCopies \in Nat
  /\ LateArrivals \in BOOLEAN
  /\ MaxIgnored \in Nat

default_frame_number == -1
num_fem_frame_packets == num_primary_packets + num_tail_packets
PacketNumbers == 0 .. (num_fem_frame_packets - 1)
AllBuffers == Buffers \cup {dropped_frame_buffer}
FrameNumbers == Frames \cup {default_frame_number}

\* The number of the packet whose payload comes next, or one of these.
NoPacket == -1
IgnoredPacket == -2

VARIABLES
  empty_buffer_queue,    \* [Buffers -> Nat]: how often each buffer is queued
  frame_buffer_map,      \* the buffer each frame is mapped to, or NoBuffer
  header,                \* the frame header at the start of each buffer
  payload,               \* whose packet lies in each packet slot
  frame_age,             \* time since frame_start_time, up to the timeout
  current_frame_seen,
  current_frame_buffer_id,
  current_frame_buffer,  \* the address; current_frame_header points here too
  dropping_frame_data,
  pending,               \* the packet between its header and its payload
  expired,               \* frames monitor_buffers has yet to hand over
  packets_ignored, packets_lost, fem_packets_lost, frames_timedout,
  downstream,            \* [Buffers -> Nat]: announced, not yet released
  returning,             \* [Buffers -> Nat]: release messages to the receiver
  \* History, read by no action but the network's:
  arrived,               \* how often each packet has arrived
  announced,             \* how often ready_callback named each frame
  timed_out              \* the frames monitor_buffers gave up on

counters == <<packets_ignored, packets_lost, fem_packets_lost,
              frames_timedout>>
current == <<current_frame_seen, current_frame_buffer_id,
             current_frame_buffer>>
history == <<arrived, announced, timed_out>>
vars == <<empty_buffer_queue, frame_buffer_map, header, payload, frame_age,
          current, dropping_frame_data, pending, expired, counters, downstream,
          returning, history>>

FrameStates == {"incomplete", "complete", "timedout"}

FemReceiveState ==
  [packets_received : Nat, sof_marker_count : Nat, eof_marker_count : Nat]

FrameHeader ==
  [frame_number : FrameNumbers, frame_state : FrameStates,
   total_packets_received : Nat, total_sof_marker_count : Nat,
   total_eof_marker_count : Nat,
   fem_rx_state : FemReceiveState]

Counter == 0 .. (CounterModulus - 1)

BuffersTyped ==
  /\ empty_buffer_queue \in [Buffers -> Nat]
  /\ frame_buffer_map \in [Frames -> Buffers \cup {NoBuffer}]
  /\ frame_age \in [Buffers -> 0 .. (frame_timeout + 1)]
  /\ downstream \in [Buffers -> Nat]
  /\ returning \in [Buffers -> Nat]

ContentTyped ==
  /\ header \in [AllBuffers -> FrameHeader]
  /\ payload \in [AllBuffers -> [PacketNumbers -> FrameNumbers]]

ThreadTyped ==
  /\ current_frame_seen \in FrameNumbers
  /\ current_frame_buffer_id \in Buffers \cup {NoBuffer}
  /\ current_frame_buffer \in AllBuffers \cup {NoBuffer}
  /\ dropping_frame_data \in BOOLEAN
  /\ pending \in PacketNumbers \cup {NoPacket, IgnoredPacket}
  /\ expired \in SUBSET Frames

CountersTyped ==
  /\ packets_ignored \in Counter
  /\ packets_lost \in Counter
  /\ fem_packets_lost \in Counter
  /\ frames_timedout \in Nat

HistoryTyped ==
  /\ arrived \in [Frames -> [PacketNumbers -> Nat]]
  /\ announced \in [Frames -> Nat]
  /\ timed_out \in SUBSET Frames

\* The type invariant of the decoder's members, the shared buffers and the
\* history of the run.
TypeOK ==
  /\ BuffersTyped
  /\ ContentTyped
  /\ ThreadTyped
  /\ CountersTyped
  /\ HistoryTyped

-----------------------------------------------------------------------------
(* Initial state: a configured decoder, all buffers queued, memory zeroed. *)

ZeroHeader ==
  [frame_number |-> default_frame_number, frame_state |-> "incomplete",
   total_packets_received |-> 0, total_sof_marker_count |-> 0,
   total_eof_marker_count |-> 0,
   fem_rx_state |-> [packets_received |-> 0, sof_marker_count |-> 0,
                     eof_marker_count |-> 0]]

Init ==
  /\ empty_buffer_queue = [b \in Buffers |-> 1]
  /\ frame_buffer_map = [f \in Frames |-> NoBuffer]
  /\ header = [b \in AllBuffers |-> ZeroHeader]
  /\ payload = [b \in AllBuffers |->
                  [p \in PacketNumbers |-> default_frame_number]]
  /\ frame_age = [b \in Buffers |-> 0]
  /\ current_frame_seen = default_frame_number
  /\ current_frame_buffer_id = NoBuffer
  /\ current_frame_buffer = NoBuffer
  /\ dropping_frame_data = FALSE
  /\ pending = NoPacket
  /\ expired = {}
  /\ packets_ignored = 0 /\ packets_lost = 0
  /\ fem_packets_lost = 0 /\ frames_timedout = 0
  /\ downstream = [b \in Buffers |-> 0]
  /\ returning = [b \in Buffers |-> 0]
  /\ arrived = [f \in Frames |-> [p \in PacketNumbers |-> 0]]
  /\ announced = [f \in Frames |-> 0]
  /\ timed_out = {}

Mapped(b) == \E f \in Frames : frame_buffer_map[f] = b

\* The receive thread is in no handler.
Idle == pending = NoPacket /\ expired = {}

-----------------------------------------------------------------------------
(* process_packet_header *)

\* The network delivers packet p of frame f (once more).
Arrives(f, p) ==
  /\ arrived[f][p] < MaxCopies
  /\ LateArrivals \/ f \notin timed_out
  /\ arrived' = [arrived EXCEPT ![f][p] = @ + 1]

Mutant_KeepTotal(h, f) ==
  [h EXCEPT !.frame_number = f, !.frame_state = "incomplete",
            !.total_sof_marker_count = 0, !.total_eof_marker_count = 0]

\* initialise_frame_header: fem_rx_state keeps what it held.
Initialised(h, f) ==
  [h EXCEPT !.frame_number = f, !.frame_state = "incomplete",
            !.total_packets_received = 0, !.total_sof_marker_count = 0,
            !.total_eof_marker_count = 0]

\* The first packet of a frame carries the SOF marker, the last one EOF.
\* Both count in the FEM's sof_marker_count.
Marked(h, p) ==
  LET sof == IF p = 0 THEN 1 ELSE 0
      eof == IF p = num_fem_frame_packets - 1 THEN 1 ELSE 0
  IN [h EXCEPT !.total_sof_marker_count = @ + sof,
               !.total_eof_marker_count = @ + eof,
               !.fem_rx_state.sof_marker_count = @ + sof + eof]

\* Point the id and the address at buffer b.
Mutant_PointIdOnly(b) ==
  /\ current_frame_buffer_id' = b
  /\ UNCHANGED current_frame_buffer

PointTo(b) ==
  /\ current_frame_buffer_id' = b
  /\ current_frame_buffer' = b

\* Pop buffer b from the front of the queue.
Mutant_PopUnchecked(b) ==
  empty_buffer_queue' = [empty_buffer_queue EXCEPT ![b] = @ - 1]

Mutant_PeekOnly(b) ==
  /\ empty_buffer_queue[b] > 0
  /\ UNCHANGED empty_buffer_queue

PopEmptyBuffer(b) ==
  /\ empty_buffer_queue[b] > 0
  /\ empty_buffer_queue' = [empty_buffer_queue EXCEPT ![b] = @ - 1]

Mark(b, p) == header' = [header EXCEPT ![b] = Marked(@, p)]

MarkFirst(b, f, p) ==
  header' = [header EXCEPT ![b] = Marked(Initialised(@, f), p)]

\* Another packet of the frame seen last: everything is set up already.
SameFrame(f, p) ==
  /\ f = current_frame_seen
  /\ Mark(current_frame_buffer, p)
  /\ UNCHANGED <<empty_buffer_queue, frame_buffer_map, frame_age, current,
                 dropping_frame_data>>

\* First packet of a frame, and no buffer is free: scratch its data.
DropFrame(f, p) ==
  /\ f # current_frame_seen
  /\ frame_buffer_map[f] = NoBuffer
  /\ \A b \in Buffers : empty_buffer_queue[b] = 0
  /\ current_frame_seen' = f
  /\ current_frame_buffer' = dropped_frame_buffer
  /\ dropping_frame_data' = TRUE
  /\ MarkFirst(dropped_frame_buffer, f, p)
  /\ UNCHANGED <<empty_buffer_queue, frame_buffer_map, frame_age,
                 current_frame_buffer_id>>

\* First packet of a frame: map the frame to a free buffer.
AllocateBuffer(f, p) ==
  /\ f # current_frame_seen
  /\ frame_buffer_map[f] = NoBuffer
  /\ current_frame_seen' = f
  /\ \E b \in Buffers :
       /\ PopEmptyBuffer(b)
       /\ frame_buffer_map' = [frame_buffer_map EXCEPT ![f] = b]
       /\ PointTo(b)
       /\ frame_age' = [frame_age EXCEPT ![b] = 0]
       /\ MarkFirst(b, f, p)
  /\ dropping_frame_data' = FALSE

\* A packet of a frame that is mapped already, after packets of another
\* frame: back to its buffer.  dropping_frame_data stays as it is.
RevisitFrame(f, p) ==
  /\ f # current_frame_seen
  /\ frame_buffer_map[f] # NoBuffer
  /\ current_frame_seen' = f
  /\ PointTo(frame_buffer_map[f])
  /\ Mark(frame_buffer_map[f], p)
  /\ UNCHANGED <<empty_buffer_queue, frame_buffer_map, frame_age,
                 dropping_frame_data>>

ProcessPacketHeader(f, p) ==
  /\ Idle
  /\ Arrives(f, p)
  /\ \/ SameFrame(f, p)
     \/ DropFrame(f, p)
     \/ AllocateBuffer(f, p)
     \/ RevisitFrame(f, p)
  /\ pending' = p
  /\ UNCHANGED <<payload, expired, counters, downstream, returning,
                 announced, timed_out>>

\* A packet from a port that is not in fem_port_map.
IgnorePacketHeader ==
  /\ Idle
  /\ packets_ignored < MaxIgnored
  /\ packets_ignored' = (packets_ignored + 1) % CounterModulus
  /\ pending' = IgnoredPacket
  /\ UNCHANGED <<empty_buffer_queue, frame_buffer_map, header, payload,
                 frame_age, current, dropping_frame_data, expired, packets_lost,
                 fem_packets_lost, frames_timedout, downstream, returning,
                 history>>

-----------------------------------------------------------------------------
(* process_packet: the payload has been received behind the header. *)

Received(h) ==
  [h EXCEPT !.total_packets_received = @ + 1,
            !.fem_rx_state.packets_received = @ + 1]

IsLast(h) == h.total_packets_received + 1 = num_fem_frame_packets

\* The packet goes where the header handler pointed.
StorePayload ==
  payload' = [payload EXCEPT
                ![current_frame_buffer][pending] = current_frame_seen]

\* ready_callback_: the id of the buffer goes to the frame processor.
Mutant_NoCallback(b) == UNCHANGED downstream

HandOver(b) == downstream' = [downstream EXCEPT ![b] = @ + 1]

Announce(f) == announced' = [announced EXCEPT ![f] = @ + 1]

\* The frame leaves the map.
Mutant_NotErased(f) == UNCHANGED frame_buffer_map

Erase(f) == frame_buffer_map' = [frame_buffer_map EXCEPT ![f] = NoBuffer]

\* A later packet of the same number starts a new frame.
Mutant_SeenNotReset == UNCHANGED current_frame_seen

ResetFrameSeen == current_frame_seen' = default_frame_number

\* A packet that does not bring the count to the frame's full number.
CollectPacket ==
  /\ pending \in PacketNumbers
  /\ ~IsLast(header[current_frame_buffer])
  /\ StorePayload
  /\ header' = [header EXCEPT ![current_frame_buffer] = Received(@)]
  /\ UNCHANGED <<frame_buffer_map, current, downstream, announced>>

\* The last packet of a frame, while frame data is being dropped.
CompleteWhileDropping ==
  /\ pending \in PacketNumbers
  /\ IsLast(header[current_frame_buffer])
  /\ dropping_frame_data
  /\ StorePayload
  /\ header' = [header EXCEPT ![current_frame_buffer] =
                  [Received(@) EXCEPT !.frame_state = "complete"]]
  /\ UNCHANGED <<frame_buffer_map, current, downstream, announced>>

\* The last packet of a frame: unmap it and hand it over.
CompleteFrame ==
  /\ pending \in PacketNumbers
  /\ IsLast(header[current_frame_buffer])
  /\ ~dropping_frame_data
  /\ StorePayload
  /\ header' = [header EXCEPT ![current_frame_buffer] =
                  [Received(@) EXCEPT !.frame_state = "complete"]]
  /\ Erase(current_frame_seen)
  /\ HandOver(current_frame_buffer_id)
  /\ Announce(header[current_frame_buffer].frame_number)
  /\ ResetFrameSeen
  /\ UNCHANGED <<current_frame_buffer_id, current_frame_buffer>>

IgnorePacket ==
  /\ pending = IgnoredPacket
  /\ UNCHANGED <<header, payload, frame_buffer_map, current, downstream,
                 announced>>

ProcessPacket ==
  /\ \/ CollectPacket
     \/ CompleteWhileDropping
     \/ CompleteFrame
     \/ IgnorePacket
  /\ pending' = NoPacket
  /\ UNCHANGED <<empty_buffer_queue, frame_age, dropping_frame_data,
                 expired, counters, returning, arrived, timed_out>>

-----------------------------------------------------------------------------
(* monitor_buffers, run by a timer of the receive thread *)

Mutant_ExpiredIncomplete(f) ==
  /\ frame_buffer_map[f] # NoBuffer
  /\ frame_age[frame_buffer_map[f]] > frame_timeout
  /\ header[frame_buffer_map[f]].frame_state = "incomplete"

Expired(f) ==
  /\ frame_buffer_map[f] # NoBuffer
  /\ frame_age[frame_buffer_map[f]] > frame_timeout

\* The timer fires and some mapped frames are over their time.
MonitorBuffers ==
  /\ Idle
  /\ expired' = {f \in Frames : Expired(f)}
  /\ expired' # {}
  /\ frames_timedout' = frames_timedout + Cardinality(expired')
  /\ UNCHANGED <<empty_buffer_queue, frame_buffer_map, header, payload,
                 frame_age, current, dropping_frame_data, pending, packets_ignored,
                 packets_lost, fem_packets_lost, downstream, returning,
                 history>>

\* The packets a frame is short of, in unsigned arithmetic.
Mutant_LostToLastNumber(h) ==
  (num_fem_frame_packets - 1 - h.total_packets_received) % CounterModulus

PacketsLost(h) ==
  (num_fem_frame_packets - h.total_packets_received) % CounterModulus

FemPacketsLost(h) ==
  IF PacketsLost(h) = 0 THEN 0
  ELSE num_fem_frame_packets - h.fem_rx_state.packets_received

\* Its loop over the map hands the next expired frame over as it is.
ReleaseTimedOut(f) ==
  LET b == frame_buffer_map[f]
  IN /\ f \in expired
     /\ \A g \in expired : f <= g
     /\ packets_lost' =
          (packets_lost + PacketsLost(header[b])) % CounterModulus
     /\ fem_packets_lost' =
          (fem_packets_lost + FemPacketsLost(header[b])) % CounterModulus
     /\ header' = [header EXCEPT ![b].frame_state = "timedout"]
     /\ HandOver(b)
     /\ Announce(f)
     /\ Erase(f)
     /\ expired' = expired \ {f}
     /\ timed_out' = timed_out \cup {f}
     /\ UNCHANGED <<empty_buffer_queue, payload, frame_age, current,
                    dropping_frame_data, pending, packets_ignored,
                    frames_timedout, returning, arrived>>

\* Time passes.  Only monitor_buffers reads the age of a frame, so it is
\* enough to let time pass between handlers.
Tick ==
  /\ Idle
  /\ frame_age' = [b \in Buffers |->
       IF Mapped(b) /\ frame_age[b] <= frame_timeout
       THEN frame_age[b] + 1 ELSE frame_age[b]]
  /\ UNCHANGED <<empty_buffer_queue, frame_buffer_map, header, payload,
                 current, dropping_frame_data, pending, expired, counters,
                 downstream, returning, history>>

-----------------------------------------------------------------------------
(* The frame processor and the release channel (odin-data, external) *)

\* The frame processor has finished with a buffer, in another process.
ProcessorReleases(b) ==
  /\ downstream[b] > 0
  /\ downstream' = [downstream EXCEPT ![b] = @ - 1]
  /\ returning' = [returning EXCEPT ![b] = @ + 1]
  /\ UNCHANGED <<empty_buffer_queue, frame_buffer_map, header, payload,
                 frame_age, current, dropping_frame_data, pending, expired, counters,
                 history>>

\* The receive thread reads the release message and queues the buffer.
PushEmptyBuffer(b) ==
  /\ Idle
  /\ returning[b] > 0
  /\ returning' = [returning EXCEPT ![b] = @ - 1]
  /\ empty_buffer_queue' = [empty_buffer_queue EXCEPT ![b] = @ + 1]
  /\ UNCHANGED <<frame_buffer_map, header, payload, frame_age, current,
                 dropping_frame_data, pending, expired, counters,
                 downstream, history>>

-----------------------------------------------------------------------------
Next ==
  \/ \E f \in Frames, p \in PacketNumbers : ProcessPacketHeader(f, p)
  \/ IgnorePacketHeader
  \/ ProcessPacket
  \/ MonitorBuffers
  \/ \E f \in Frames : ReleaseTimedOut(f)
  \/ Tick
  \/ \E b \in Buffers : ProcessorReleases(b)
  \/ \E b \in Buffers : PushEmptyBuffer(b)

Spec == Init /\ [][Next]_vars

\* The reactor of the receive thread serves its sockets, channel and timer;
\* the clock runs; the frame processor finishes every frame it is given.
\* Nothing is assumed of the network: no packet need ever arrive.
Fairness ==
  /\ WF_vars(ProcessPacket)
  /\ WF_vars(MonitorBuffers)
  /\ WF_vars(\E f \in Frames : ReleaseTimedOut(f))
  /\ WF_vars(Tick)
  /\ \A b \in Buffers : WF_vars(ProcessorReleases(b))
  /\ \A b \in Buffers : WF_vars(PushEmptyBuffer(b))

FairSpec == Spec /\ Fairness

-----------------------------------------------------------------------------
(* Properties *)

\* Every buffer is in one place only: the queue of empty buffers, the map
\* of one frame, the frame processor's hands or a release message.  Two
\* places mean two frames share a buffer; none means the buffer leaked.
BufferOwnership ==
  \A b \in Buffers :
    /\ \A f, g \in Frames :
         frame_buffer_map[f] = b /\ frame_buffer_map[g] = b => f = g
    /\ empty_buffer_queue[b] + downstream[b] + returning[b]
         + (IF Mapped(b) THEN 1 ELSE 0) = 1

\* A packet whose header has been handled goes into the buffer its frame is
\* mapped to, or into the scratch buffer if the frame is being dropped.
\* "Header information is used to determine which frame buffer the current
\* packet should be routed to" (process_packet_header).
RoutedToOwnBuffer ==
  pending \in PacketNumbers =>
    \/ current_frame_buffer = dropped_frame_buffer /\ dropping_frame_data
    \/ /\ frame_buffer_map[current_frame_seen] = current_frame_buffer
       /\ current_frame_buffer_id = current_frame_buffer

\* A frame handed over as complete holds each packet of that frame, once,
\* and no packet that an earlier frame left in the buffer.
CompleteHasAllPackets ==
  \A b \in Buffers :
    downstream[b] > 0 /\ header[b].frame_state = "complete" =>
      /\ \A p \in PacketNumbers : payload[b][p] = header[b].frame_number
      /\ header[b].total_sof_marker_count = 1
      /\ header[b].total_eof_marker_count = 1

\* No frame is announced to the frame processor twice.
FrameAnnouncedOnce == \A f \in Frames : announced[f] <= 1

\* A mapped frame that has all its packets has been handed over: "If this
\* packet is the last required to complete a frame, ... the frame state is
\* set to complete and the ready callback is called" (process_packet).
CompleteIsHandedOver ==
  \A f \in Frames :
    frame_buffer_map[f] # NoBuffer =>
      header[frame_buffer_map[f]].frame_state # "complete"

\* With one FEM, the loss counter of the FEM is the loss counter of the
\* receiver: initialise_frame_header's comment has it "clearing packet
\* counters" of each new frame.
FemLossIsTotalLoss == fem_packets_lost = packets_lost

\* packets_lost counts at least the packets that never arrived of the frames
\* that timed out, and never more than all the packets of these frames: its
\* unsigned differences never wrap.
MissingPackets ==
  {fp \in timed_out \X PacketNumbers : arrived[fp[1]][fp[2]] = 0}
LossesCounted ==
  /\ packets_lost >= Cardinality(MissingPackets)
  /\ packets_lost <= Cardinality(timed_out) * num_fem_frame_packets

\* A frame that got a buffer is handed over in the end, whole or not.
MappedFrameHandedOver ==
  \A f \in Frames :
    (frame_buffer_map[f] # NoBuffer) ~> (frame_buffer_map[f] = NoBuffer)

\* Once the network is quiet every buffer comes home: none leaks, however
\* frames were dropped, completed or timed out.
AllBuffersReturn == <>[](\A b \in Buffers : empty_buffer_queue[b] = 1)

-----------------------------------------------------------------------------
(* The decoder implements FramePool: buffers have one owner at a time and  *)
(* are not written while the frame processor may be reading them.          *)

PoolOwner == [b \in Buffers |->
  IF empty_buffer_queue[b] > 0 THEN "free"
  ELSE IF downstream[b] > 0 THEN "downstream"
  ELSE IF returning[b] > 0 THEN "returning"
  ELSE "decoder"]

PoolContent ==
  [b \in Buffers |-> [header |-> header[b], payload |-> payload[b]]]

Pool == INSTANCE FramePool WITH owner <- PoolOwner, content <- PoolContent

ImplementsFramePool == Pool!Spec
=============================================================================
