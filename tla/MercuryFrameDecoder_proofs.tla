--------------------- MODULE MercuryFrameDecoder_proofs ---------------------
(***************************************************************************)
(* Theorems about the frame decoder, for any buffers, frames, packets per  *)
(* frame, timeout and number of duplicates.  Type correctness needs no     *)
(* assumption beyond those on the constants; that a buffer has one owner,  *)
(* the packet routing it rests on and the refinement of FramePool need     *)
(* that no packet arrives after its frame has timed out; what the frames   *)
(* contain and what is counted as lost, that none arrives twice either.    *)
(***************************************************************************)
EXTENDS MercuryFrameDecoder, TLAPS, FiniteSetTheorems

\* While monitor_buffers runs its loop, no packet is half received and the
\* frames it has yet to hand over stay in the map.
MonitorInv ==
  /\ expired # {} => pending = NoPacket
  /\ \A f \in expired : frame_buffer_map[f] # NoBuffer

LEMMA PacketsNat == num_fem_frame_packets \in Nat \ {0}
BY PacketsAssumption DEF num_fem_frame_packets

LEMMA MarkedTypes ==
  ASSUME NEW h \in FrameHeader, NEW p \in PacketNumbers
  PROVE  Marked(h, p) \in FrameHeader
<1> DEFINE sof == IF p = 0 THEN 1 ELSE 0
           eof == IF p = num_fem_frame_packets - 1 THEN 1 ELSE 0
           fem == [h.fem_rx_state EXCEPT !.sof_marker_count = @ + sof + eof]
<1>1. sof \in Nat /\ eof \in Nat
  OBVIOUS
<1>2. h.fem_rx_state \in FemReceiveState
  BY DEF FrameHeader
<1>3. fem \in FemReceiveState
  BY <1>1, <1>2 DEF FemReceiveState
<1>4. Marked(h, p) =
        [h EXCEPT !.total_sof_marker_count = @ + sof,
                  !.total_eof_marker_count = @ + eof,
                  !.fem_rx_state = fem]
  BY <1>2 DEF Marked, FrameHeader, FemReceiveState
<1>5. /\ h.total_sof_marker_count + sof \in Nat
      /\ h.total_eof_marker_count + eof \in Nat
  BY <1>1 DEF FrameHeader
<1> HIDE DEF fem, sof, eof
<1> QED
  BY <1>3, <1>4, <1>5 DEF FrameHeader

LEMMA InitialisedTypes ==
  ASSUME NEW h \in FrameHeader, NEW f \in Frames
  PROVE  Initialised(h, f) \in FrameHeader
BY DEF Initialised, FrameHeader, FrameNumbers, FrameStates

LEMMA ReceivedTypes ==
  ASSUME NEW h \in FrameHeader
  PROVE  /\ Received(h) \in FrameHeader
         /\ [Received(h) EXCEPT !.frame_state = "complete"] \in FrameHeader
<1> DEFINE fem == [h.fem_rx_state EXCEPT !.packets_received = @ + 1]
<1>1. fem \in FemReceiveState
  BY DEF FrameHeader, FemReceiveState
<1>2. Received(h) = [h EXCEPT !.total_packets_received = @ + 1,
                              !.fem_rx_state = fem]
  BY DEF Received, FrameHeader, FemReceiveState
<1>3. h.total_packets_received + 1 \in Nat
  BY DEF FrameHeader
<1> HIDE DEF fem
<1>4. Received(h) \in FrameHeader
  BY <1>1, <1>2, <1>3 DEF FrameHeader
<1> QED
  BY <1>4 DEF FrameHeader, FrameStates

LEMMA TimedOutTypes ==
  ASSUME NEW h \in FrameHeader
  PROVE  /\ [h EXCEPT !.frame_state = "timedout"] \in FrameHeader
         /\ PacketsLost(h) \in Int
         /\ FemPacketsLost(h) \in Int
<1>1. [h EXCEPT !.frame_state = "timedout"] \in FrameHeader
  BY DEF FrameHeader, FrameStates
<1>2. PacketsLost(h) \in Int
  BY PacketsNat, BoundsAssumption DEF PacketsLost, FrameHeader
<1>3. h.fem_rx_state.packets_received \in Nat
  BY DEF FrameHeader, FemReceiveState
<1>4. FemPacketsLost(h) \in Int
  BY <1>2, <1>3, PacketsNat DEF FemPacketsLost
<1> QED
  BY <1>1, <1>2, <1>4

\* One more of x, whether or not x is counted at all.
LEMMA CountOne ==
  ASSUME NEW S, NEW count \in [S -> Nat], NEW x
  PROVE  [count EXCEPT ![x] = @ + 1] \in [S -> Nat]
<1>1. CASE x \in S
  BY <1>1
<1>2. CASE x \notin S
  BY <1>2
<1> QED
  BY <1>1, <1>2

\* Adding to a counter stays within its width.
LEMMA CounterTypes ==
  ASSUME NEW c \in Counter, NEW n \in Int
  PROVE  (c + n) % CounterModulus \in Counter
BY BoundsAssumption DEF Counter

LEMMA InitTypes == Init => TypeOK
<1> SUFFICES ASSUME Init PROVE TypeOK
  OBVIOUS
<1>1. ZeroHeader \in FrameHeader
  BY DEF ZeroHeader, FrameHeader, FrameNumbers, FrameStates, FemReceiveState
<1>2. 0 \in Counter
  BY BoundsAssumption DEF Counter
<1>3. BuffersTyped
  BY BoundsAssumption DEF Init, BuffersTyped
<1>4. ContentTyped
  BY <1>1 DEF Init, ContentTyped, FrameNumbers
<1>5. ThreadTyped
  BY DEF Init, ThreadTyped, FrameNumbers
<1>6. CountersTyped
  BY <1>2 DEF Init, CountersTyped
<1>7. HistoryTyped
  BY DEF Init, HistoryTyped
<1> QED
  BY <1>3, <1>4, <1>5, <1>6, <1>7 DEF TypeOK

LEMMA HeaderHandlerTypes ==
  ASSUME TypeOK, NEW f \in Frames, NEW p \in PacketNumbers,
         ProcessPacketHeader(f, p)
  PROVE  TypeOK'
<1> USE DEF TypeOK, ProcessPacketHeader
<1>1. HistoryTyped'
  BY DEF HistoryTyped, Arrives
<1>2. CountersTyped'
  BY DEF CountersTyped, counters
<1>3. f \in FrameNumbers /\ pending' \in PacketNumbers /\ expired' = expired
  BY DEF FrameNumbers
<1>4. CASE SameFrame(f, p)
  <2>1. BuffersTyped' /\ ThreadTyped'
    BY <1>3, <1>4 DEF SameFrame, BuffersTyped, ThreadTyped, current
  <2>2. ContentTyped'
    BY <1>4, MarkedTypes DEF SameFrame, Mark, ContentTyped
  <2> QED
    BY <1>1, <1>2, <2>1, <2>2
<1>5. CASE DropFrame(f, p)
  <2>1. BuffersTyped' /\ ThreadTyped'
    BY <1>3, <1>5 DEF DropFrame, BuffersTyped, ThreadTyped, AllBuffers
  <2>2. ContentTyped'
    BY <1>5, MarkedTypes, InitialisedTypes DEF DropFrame, MarkFirst, ContentTyped
  <2> QED
    BY <1>1, <1>2, <2>1, <2>2
<1>6. CASE AllocateBuffer(f, p)
  <2> PICK b \in Buffers :
        /\ PopEmptyBuffer(b)
        /\ frame_buffer_map' = [frame_buffer_map EXCEPT ![f] = b]
        /\ PointTo(b)
        /\ frame_age' = [frame_age EXCEPT ![b] = 0]
        /\ MarkFirst(b, f, p)
    BY <1>6 DEF AllocateBuffer
  <2>1. BuffersTyped'
    BY BoundsAssumption DEF BuffersTyped, PopEmptyBuffer
  <2>2. ThreadTyped'
    BY <1>3, <1>6 DEF AllocateBuffer, PointTo, ThreadTyped, AllBuffers
  <2>3. ContentTyped'
    BY MarkedTypes, InitialisedTypes DEF MarkFirst, ContentTyped
  <2> QED
    BY <1>1, <1>2, <2>1, <2>2, <2>3
<1>7. CASE RevisitFrame(f, p)
  <2>1. frame_buffer_map[f] \in Buffers
    BY <1>7 DEF RevisitFrame, BuffersTyped
  <2>2. BuffersTyped' /\ ThreadTyped'
    BY <1>3, <1>7, <2>1
    DEF RevisitFrame, PointTo, BuffersTyped, ThreadTyped, AllBuffers
  <2>3. ContentTyped'
    BY <1>7, MarkedTypes DEF RevisitFrame, Mark, ContentTyped
  <2> QED
    BY <1>1, <1>2, <2>2, <2>3
<1> QED
  BY <1>4, <1>5, <1>6, <1>7

LEMMA PayloadHandlerTypes ==
  ASSUME TypeOK, ProcessPacket
  PROVE  TypeOK'
<1> USE DEF TypeOK, ProcessPacket
<1>1. CountersTyped'
  BY DEF CountersTyped, counters
<1>2. pending' = NoPacket /\ dropping_frame_data' = dropping_frame_data
  OBVIOUS
<1>3. ASSUME StorePayload PROVE payload' \in
        [AllBuffers -> [PacketNumbers -> FrameNumbers]]
  BY <1>3 DEF StorePayload, ContentTyped, ThreadTyped
<1>4. CASE CollectPacket
  <2>1. BuffersTyped' /\ ThreadTyped' /\ HistoryTyped'
    BY <1>4 DEF CollectPacket, BuffersTyped, ThreadTyped, HistoryTyped, current
  <2>2. header' \in [AllBuffers -> FrameHeader]
    BY <1>4, ReceivedTypes DEF CollectPacket, ContentTyped
  <2> QED
    BY <1>1, <1>3, <1>4, <2>1, <2>2 DEF CollectPacket, ContentTyped
<1>5. CASE CompleteWhileDropping
  <2>1. BuffersTyped' /\ ThreadTyped' /\ HistoryTyped'
    BY <1>5 DEF CompleteWhileDropping, BuffersTyped, ThreadTyped,
                HistoryTyped, current
  <2>2. header' \in [AllBuffers -> FrameHeader]
    BY <1>5, ReceivedTypes DEF CompleteWhileDropping, ContentTyped
  <2> QED
    BY <1>1, <1>3, <1>5, <2>1, <2>2 DEF CompleteWhileDropping, ContentTyped
<1>6. CASE CompleteFrame
  <2>1. BuffersTyped'
    BY <1>6, CountOne DEF CompleteFrame, Erase, HandOver, BuffersTyped
  <2>2. ThreadTyped'
    BY <1>6 DEF CompleteFrame, ResetFrameSeen, ThreadTyped, FrameNumbers
  <2>3. HistoryTyped'
    BY <1>6, CountOne DEF CompleteFrame, Announce, HistoryTyped
  <2>4. header' \in [AllBuffers -> FrameHeader]
    BY <1>6, ReceivedTypes DEF CompleteFrame, ContentTyped
  <2> QED
    BY <1>1, <1>3, <1>6, <2>1, <2>2, <2>3, <2>4
    DEF CompleteFrame, ContentTyped
<1>7. CASE IgnorePacket
  BY <1>1, <1>7 DEF IgnorePacket, BuffersTyped, ContentTyped, ThreadTyped,
                    HistoryTyped, current
<1> QED
  BY <1>4, <1>5, <1>6, <1>7

LEMMA ReleaseTimedOutTypes ==
  ASSUME TypeOK, MonitorInv, NEW f \in Frames, ReleaseTimedOut(f)
  PROVE  TypeOK'
<1> DEFINE b == frame_buffer_map[f]
<1> USE DEF TypeOK, ReleaseTimedOut
<1>a. b \in Buffers
  BY DEF MonitorInv, BuffersTyped
<1>1. BuffersTyped'
  BY CountOne DEF BuffersTyped, HandOver, Erase
<1>2. ThreadTyped' /\ HistoryTyped'
  BY CountOne DEF ThreadTyped, HistoryTyped, Announce, current
<1>3. header[b] \in FrameHeader
  BY <1>a DEF ContentTyped, AllBuffers
<1>4. CountersTyped'
  <2>1. packets_lost \in Counter /\ fem_packets_lost \in Counter
    BY DEF CountersTyped
  <2>2. PacketsLost(header[b]) \in Int /\ FemPacketsLost(header[b]) \in Int
    BY <1>3, TimedOutTypes
  <2>3. packets_lost' \in Counter /\ fem_packets_lost' \in Counter
    BY <2>1, <2>2, CounterTypes
  <2> QED
    BY <2>3 DEF CountersTyped
<1>5. ContentTyped'
  BY <1>3, TimedOutTypes DEF ContentTyped
<1> QED
  BY <1>1, <1>2, <1>4, <1>5

LEMMA OtherTypes ==
  ASSUME TypeOK,
         \/ IgnorePacketHeader
         \/ MonitorBuffers
         \/ Tick
         \/ \E b \in Buffers : ProcessorReleases(b) \/ PushEmptyBuffer(b)
         \/ UNCHANGED vars
  PROVE  TypeOK'
<1> USE DEF TypeOK
<1>1. CASE IgnorePacketHeader
  <2>1. CountersTyped'
    BY <1>1, CounterTypes DEF IgnorePacketHeader, CountersTyped, Counter
  <2> QED
    BY <1>1, <2>1 DEF IgnorePacketHeader, BuffersTyped, ContentTyped,
                      ThreadTyped, HistoryTyped, current, history
<1>2. CASE MonitorBuffers
  <2>1. Cardinality(expired') \in Nat
    <3>1. expired' \subseteq Frames
      BY <1>2 DEF MonitorBuffers
    <3> QED
      BY <3>1, FramesAssumption, FS_Subset, FS_CardinalityType
  <2>2. CountersTyped'
    BY <1>2, <2>1 DEF MonitorBuffers, CountersTyped
  <2> QED
    BY <1>2, <2>2 DEF MonitorBuffers, BuffersTyped, ContentTyped,
                      ThreadTyped, HistoryTyped, current, history
<1>3. CASE Tick
  <2>1. BuffersTyped'
    BY <1>3, BoundsAssumption DEF Tick, BuffersTyped
  <2> QED
    BY <1>3, <2>1 DEF Tick, ContentTyped, ThreadTyped, CountersTyped,
                      HistoryTyped, current, counters, history
<1>4. ASSUME NEW b \in Buffers, ProcessorReleases(b) PROVE TypeOK'
  <2>1. BuffersTyped'
    BY <1>4 DEF ProcessorReleases, BuffersTyped
  <2> QED
    BY <1>4, <2>1 DEF ProcessorReleases, ContentTyped, ThreadTyped,
                      CountersTyped, HistoryTyped, current, counters, history
<1>5. ASSUME NEW b \in Buffers, PushEmptyBuffer(b) PROVE TypeOK'
  <2>1. BuffersTyped'
    BY <1>5 DEF PushEmptyBuffer, BuffersTyped
  <2> QED
    BY <1>5, <2>1 DEF PushEmptyBuffer, ContentTyped, ThreadTyped,
                      CountersTyped, HistoryTyped, current, counters, history
<1>6. CASE UNCHANGED vars
  BY <1>6 DEF vars, BuffersTyped, ContentTyped, ThreadTyped, CountersTyped,
              HistoryTyped, current, counters, history
<1> QED
  BY <1>1, <1>2, <1>3, <1>4, <1>5, <1>6

LEMMA MonitorInvStep ==
  ASSUME TypeOK, MonitorInv, [Next]_vars
  PROVE  MonitorInv'
<1> USE DEF MonitorInv
<1>1. ASSUME NEW f \in Frames, NEW p \in PacketNumbers,
             ProcessPacketHeader(f, p)
      PROVE  MonitorInv'
  BY <1>1 DEF ProcessPacketHeader, Idle
<1>2. CASE IgnorePacketHeader
  BY <1>2 DEF IgnorePacketHeader, Idle
<1>3. CASE ProcessPacket
  <2>1. pending # NoPacket
    BY <1>3 DEF ProcessPacket, CollectPacket, CompleteWhileDropping,
                CompleteFrame, IgnorePacket, PacketNumbers, NoPacket,
                IgnoredPacket
  <2> QED
    BY <1>3, <2>1 DEF ProcessPacket
<1>4. CASE MonitorBuffers
  BY <1>4 DEF MonitorBuffers, Idle, Expired
<1>5. ASSUME NEW f \in Frames, ReleaseTimedOut(f) PROVE MonitorInv'
  BY <1>5 DEF ReleaseTimedOut, Erase, TypeOK, BuffersTyped, ThreadTyped
<1>6. CASE Tick
  BY <1>6 DEF Tick
<1>7. ASSUME NEW b \in Buffers, ProcessorReleases(b) PROVE MonitorInv'
  BY <1>7 DEF ProcessorReleases
<1>8. ASSUME NEW b \in Buffers, PushEmptyBuffer(b) PROVE MonitorInv'
  BY <1>8 DEF PushEmptyBuffer
<1>9. CASE UNCHANGED vars
  BY <1>9 DEF vars
<1> QED
  BY <1>1, <1>2, <1>3, <1>4, <1>5, <1>6, <1>7, <1>8, <1>9 DEF Next

LEMMA TypesStep ==
  ASSUME TypeOK, MonitorInv, [Next]_vars
  PROVE  TypeOK' /\ MonitorInv'
<1>1. TypeOK'
  BY HeaderHandlerTypes, PayloadHandlerTypes, ReleaseTimedOutTypes,
     OtherTypes DEF Next
<1> QED
  BY <1>1, MonitorInvStep

\* Every member keeps its type: no counter leaves its width, no buffer id
\* or frame number but those configured ever appears, and no buffer is
\* queued, announced or released a negative number of times.
THEOREM TypeCorrect == Spec => []TypeOK
<1>1. Init => TypeOK /\ MonitorInv
  BY InitTypes DEF Init, MonitorInv
<1>2. TypeOK /\ MonitorInv /\ [Next]_vars => (TypeOK /\ MonitorInv)'
  BY TypesStep
<1> QED
  BY <1>1, <1>2, PTL DEF Spec

-----------------------------------------------------------------------------
(* One owner per buffer, when no packet is later than its frame's timeout. *)

\* What the decoder remembers of the frame it saw last agrees with the map,
\* unless that frame has timed out (then only a late packet would use it).
CurrentInv ==
  current_frame_seen # default_frame_number
      /\ current_frame_seen \notin timed_out =>
    \/ dropping_frame_data /\ current_frame_buffer = dropped_frame_buffer
    \/ /\ frame_buffer_map[current_frame_seen] = current_frame_buffer
       /\ current_frame_buffer_id = current_frame_buffer
       /\ current_frame_buffer \in Buffers

\* A half received packet belongs to the frame seen last, not timed out.
PendingInv ==
  pending \in PacketNumbers =>
    current_frame_seen \in Frames /\ current_frame_seen \notin timed_out

OwnershipInv ==
  TypeOK /\ MonitorInv /\ BufferOwnership /\ CurrentInv /\ PendingInv

LEMMA DefaultNotAFrame == default_frame_number \notin Frames
BY FramesAssumption DEF default_frame_number

LEMMA RoutedFromInv == OwnershipInv => RoutedToOwnBuffer
BY DefaultNotAFrame
   DEF OwnershipInv, CurrentInv, PendingInv, RoutedToOwnBuffer

LEMMA InitOwnership == Init => OwnershipInv
<1> SUFFICES ASSUME Init PROVE OwnershipInv
  OBVIOUS
<1>1. BufferOwnership
  <2> SUFFICES ASSUME NEW b \in Buffers
               PROVE  /\ \A f \in Frames : frame_buffer_map[f] # b
                      /\ empty_buffer_queue[b] = 1
                      /\ downstream[b] = 0 /\ returning[b] = 0
    BY DEF BufferOwnership, Mapped
  <2> QED
    BY BuffersAssumption DEF Init
<1>2. MonitorInv /\ CurrentInv /\ PendingInv
  BY DEF Init, MonitorInv, CurrentInv, PendingInv, PacketNumbers, NoPacket
<1> QED
  BY <1>1, <1>2, InitTypes DEF OwnershipInv

LEMMA HeaderHandlerOwnership ==
  ASSUME OwnershipInv, ~LateArrivals,
         NEW f \in Frames, NEW p \in PacketNumbers,
         ProcessPacketHeader(f, p)
  PROVE  BufferOwnership' /\ CurrentInv' /\ PendingInv'
<1> USE DEF OwnershipInv, ProcessPacketHeader
<1>1. f \notin timed_out /\ timed_out' = timed_out
  BY DEF Arrives
<1>2. downstream' = downstream /\ returning' = returning
  OBVIOUS
<1>3. CASE SameFrame(f, p)
  <2>1. BufferOwnership'
    BY <1>2, <1>3 DEF SameFrame, BufferOwnership, Mapped
  <2>2. CurrentInv' /\ PendingInv'
    BY <1>1, <1>3 DEF SameFrame, CurrentInv, PendingInv, current
  <2> QED
    BY <2>1, <2>2
<1>4. CASE DropFrame(f, p)
  <2>1. BufferOwnership'
    BY <1>2, <1>4 DEF DropFrame, BufferOwnership, Mapped
  <2>2. CurrentInv' /\ PendingInv'
    BY <1>1, <1>4 DEF DropFrame, CurrentInv, PendingInv
  <2> QED
    BY <2>1, <2>2
<1>5. CASE AllocateBuffer(f, p)
  <2> PICK b \in Buffers :
        /\ PopEmptyBuffer(b)
        /\ frame_buffer_map' = [frame_buffer_map EXCEPT ![f] = b]
        /\ PointTo(b)
    BY <1>5 DEF AllocateBuffer
  <2>1. frame_buffer_map[f] = NoBuffer /\ ~Mapped(b)
    BY <1>5 DEF AllocateBuffer, PopEmptyBuffer, BufferOwnership,
                TypeOK, BuffersTyped
  <2>2. BufferOwnership'
    <3> SUFFICES ASSUME NEW d \in Buffers
                 PROVE  /\ \A g, h \in Frames :
                             frame_buffer_map'[g] = d
                               /\ frame_buffer_map'[h] = d => g = h
                        /\ empty_buffer_queue'[d] + downstream[d]
                             + returning[d]
                             + (IF Mapped(d)' THEN 1 ELSE 0) = 1
      BY <1>2 DEF BufferOwnership
    <3>1. CASE d = b
      <4>1. Mapped(d)'
        BY <3>1 DEF Mapped, TypeOK, BuffersTyped
      <4>2. empty_buffer_queue'[d] = empty_buffer_queue[d] - 1
        BY <3>1 DEF PopEmptyBuffer, TypeOK, BuffersTyped
      <4>3. \A g, h \in Frames :
              frame_buffer_map'[g] = d /\ frame_buffer_map'[h] = d => g = h
        BY <2>1, <3>1 DEF Mapped, TypeOK, BuffersTyped
      <4> QED
        BY <2>1, <3>1, <4>1, <4>2, <4>3
        DEF BufferOwnership, TypeOK, BuffersTyped
    <3>2. CASE d # b
      <4>1. \A g \in Frames :
              frame_buffer_map'[g] = d <=> frame_buffer_map[g] = d
        BY <2>1, <3>2, BuffersAssumption DEF TypeOK, BuffersTyped
      <4>2. empty_buffer_queue'[d] = empty_buffer_queue[d]
        BY <3>2 DEF PopEmptyBuffer, TypeOK, BuffersTyped
      <4>3. Mapped(d)' <=> Mapped(d)
        BY <4>1 DEF Mapped
      <4> QED
        BY <4>1, <4>2, <4>3 DEF BufferOwnership
    <3> QED
      BY <3>1, <3>2
  <2>3. CurrentInv' /\ PendingInv'
    BY <1>1, <1>5 DEF AllocateBuffer, PointTo, CurrentInv, PendingInv,
                      TypeOK, BuffersTyped
  <2> QED
    BY <2>2, <2>3
<1>6. CASE RevisitFrame(f, p)
  <2>1. BufferOwnership'
    BY <1>2, <1>6 DEF RevisitFrame, BufferOwnership, Mapped
  <2>2. CurrentInv' /\ PendingInv'
    BY <1>1, <1>6 DEF RevisitFrame, PointTo, CurrentInv, PendingInv,
                      TypeOK, BuffersTyped
  <2> QED
    BY <2>1, <2>2
<1> QED
  BY <1>3, <1>4, <1>5, <1>6

\* Handing over the buffer of frame f moves it from the map downstream.
LEMMA HandOverOwnership ==
  ASSUME TypeOK, BufferOwnership, NEW f \in Frames,
         frame_buffer_map[f] \in Buffers,
         HandOver(frame_buffer_map[f]), Erase(f),
         UNCHANGED <<empty_buffer_queue, returning>>
  PROVE  BufferOwnership'
<1> USE DEF TypeOK, BuffersTyped, HandOver, Erase
<1> SUFFICES ASSUME NEW d \in Buffers
             PROVE  /\ \A g, h \in Frames :
                         frame_buffer_map'[g] = d
                           /\ frame_buffer_map'[h] = d => g = h
                    /\ empty_buffer_queue[d] + downstream'[d] + returning[d]
                         + (IF Mapped(d)' THEN 1 ELSE 0) = 1
  BY DEF BufferOwnership
<1>1. CASE d = frame_buffer_map[f]
  <2>1. Mapped(d)
    BY <1>1 DEF Mapped
  <2>2. \A g \in Frames : frame_buffer_map'[g] # d
    BY <1>1, BuffersAssumption DEF BufferOwnership
  <2>3. downstream'[d] = downstream[d] + 1
    BY <1>1
  <2> QED
    BY <2>1, <2>2, <2>3 DEF BufferOwnership, Mapped
<1>2. CASE d # frame_buffer_map[f]
  <2>1. \A g \in Frames : frame_buffer_map'[g] = d <=> frame_buffer_map[g] = d
    BY <1>2, BuffersAssumption
  <2>2. Mapped(d)' <=> Mapped(d)
    BY <2>1 DEF Mapped
  <2>3. downstream'[d] = downstream[d]
    BY <1>2
  <2> QED
    BY <2>1, <2>2, <2>3 DEF BufferOwnership
<1> QED
  BY <1>1, <1>2

LEMMA PayloadHandlerOwnership ==
  ASSUME OwnershipInv, ProcessPacket
  PROVE  BufferOwnership' /\ CurrentInv' /\ PendingInv'
<1> USE DEF OwnershipInv, ProcessPacket
<1>1. PendingInv'
  BY DEF PendingInv, PacketNumbers, NoPacket
<1>2. CASE \/ CollectPacket
           \/ CompleteWhileDropping
           \/ IgnorePacket
  <2>1. BufferOwnership'
    BY <1>2 DEF CollectPacket, CompleteWhileDropping, IgnorePacket,
                BufferOwnership, Mapped
  <2>2. CurrentInv'
    BY <1>2 DEF CollectPacket, CompleteWhileDropping, IgnorePacket,
                CurrentInv, current
  <2> QED
    BY <1>1, <2>1, <2>2
<1>3. CASE CompleteFrame
  <2>1. /\ current_frame_seen \in Frames
        /\ current_frame_seen \notin timed_out
    BY <1>3 DEF CompleteFrame, PendingInv
  <2>2. /\ frame_buffer_map[current_frame_seen] = current_frame_buffer_id
        /\ current_frame_buffer_id \in Buffers
    BY <1>3, <2>1, DefaultNotAFrame DEF CompleteFrame, CurrentInv
  <2>3. BufferOwnership'
    BY <1>3, <2>1, <2>2, HandOverOwnership DEF CompleteFrame
  <2>4. CurrentInv'
    BY <1>3 DEF CompleteFrame, ResetFrameSeen, CurrentInv
  <2> QED
    BY <1>1, <2>3, <2>4
<1> QED
  BY <1>2, <1>3

LEMMA OtherOwnership ==
  ASSUME OwnershipInv,
         \/ IgnorePacketHeader
         \/ MonitorBuffers
         \/ \E f \in Frames : ReleaseTimedOut(f)
         \/ Tick
         \/ \E b \in Buffers : ProcessorReleases(b) \/ PushEmptyBuffer(b)
         \/ UNCHANGED vars
  PROVE  BufferOwnership' /\ CurrentInv' /\ PendingInv'
<1> USE DEF OwnershipInv
<1>1. CASE IgnorePacketHeader
  BY <1>1 DEF IgnorePacketHeader, BufferOwnership, Mapped, CurrentInv,
              PendingInv, PacketNumbers, IgnoredPacket, current, history
<1>2. CASE MonitorBuffers
  BY <1>2 DEF MonitorBuffers, BufferOwnership, Mapped, CurrentInv,
              PendingInv, current, history
<1>3. ASSUME NEW f \in Frames, ReleaseTimedOut(f)
      PROVE  BufferOwnership' /\ CurrentInv' /\ PendingInv'
  <2>1. frame_buffer_map[f] \in Buffers /\ pending = NoPacket
    BY <1>3 DEF ReleaseTimedOut, MonitorInv, TypeOK, BuffersTyped
  <2>2. BufferOwnership'
    BY <1>3, <2>1, HandOverOwnership DEF ReleaseTimedOut
  <2>3. PendingInv'
    BY <1>3, <2>1 DEF ReleaseTimedOut, PendingInv, PacketNumbers, NoPacket
  <2>4. CurrentInv'
    BY <1>3 DEF ReleaseTimedOut, Erase, CurrentInv, current, TypeOK,
                BuffersTyped, ThreadTyped, FrameNumbers
  <2> QED
    BY <2>2, <2>3, <2>4
<1>4. CASE Tick
  BY <1>4 DEF Tick, BufferOwnership, Mapped, CurrentInv, PendingInv,
              current, history
<1>5. ASSUME NEW b \in Buffers, ProcessorReleases(b)
      PROVE  BufferOwnership' /\ CurrentInv' /\ PendingInv'
  <2>1. BufferOwnership'
    BY <1>5 DEF ProcessorReleases, BufferOwnership, Mapped, TypeOK,
                BuffersTyped
  <2>2. CurrentInv' /\ PendingInv'
    BY <1>5 DEF ProcessorReleases, CurrentInv, PendingInv, current, history
  <2> QED
    BY <2>1, <2>2
<1>6. ASSUME NEW b \in Buffers, PushEmptyBuffer(b)
      PROVE  BufferOwnership' /\ CurrentInv' /\ PendingInv'
  <2>1. BufferOwnership'
    BY <1>6 DEF PushEmptyBuffer, BufferOwnership, Mapped, TypeOK,
                BuffersTyped
  <2>2. CurrentInv' /\ PendingInv'
    BY <1>6 DEF PushEmptyBuffer, CurrentInv, PendingInv, current, history
  <2> QED
    BY <2>1, <2>2
<1>7. CASE UNCHANGED vars
  BY <1>7 DEF vars, BufferOwnership, Mapped, CurrentInv, PendingInv,
              current, history
<1> QED
  BY <1>1, <1>2, <1>3, <1>4, <1>5, <1>6, <1>7

LEMMA OwnershipStep ==
  ASSUME ~LateArrivals, OwnershipInv, [Next]_vars
  PROVE  OwnershipInv'
<1>1. TypeOK' /\ MonitorInv'
  BY TypesStep DEF OwnershipInv
<1>2. BufferOwnership' /\ CurrentInv' /\ PendingInv'
  BY HeaderHandlerOwnership, PayloadHandlerOwnership, OtherOwnership DEF Next
<1> QED
  BY <1>1, <1>2 DEF OwnershipInv

\* If no packet arrives after its frame's timeout then every buffer is in
\* one place at any time: never lost, never shared by two frames, never
\* queued for reuse while the frame processor still reads it.
THEOREM OneOwner ==
  ASSUME ~LateArrivals
  PROVE  Spec => []BufferOwnership
<1>1. OwnershipInv /\ [Next]_vars => OwnershipInv'
  BY OwnershipStep
<1>2. OwnershipInv => BufferOwnership
  BY DEF OwnershipInv
<1> QED
  BY InitOwnership, <1>1, <1>2, PTL DEF Spec

\* Under the same assumption the payload of a packet goes to the buffer of
\* its own frame, or to the scratch buffer.
THEOREM PacketsRouted ==
  ASSUME ~LateArrivals
  PROVE  Spec => []RoutedToOwnBuffer
<1>1. OwnershipInv /\ [Next]_vars => OwnershipInv'
  BY OwnershipStep
<1> QED
  BY InitOwnership, RoutedFromInv, <1>1, PTL DEF Spec

-----------------------------------------------------------------------------
(* The frame decoder implements FramePool when no packet arrives after its *)
(* frame has timed out: every step of the decoder, the network, the clock  *)
(* or the frame processor moves one buffer along its cycle, writes one     *)
(* buffer that the decoder owns, or changes nothing FramePool speaks of.   *)

PoolStep == [Pool!Next]_(Pool!vars)

\* What the owner of a buffer says about where the buffer is.
LEMMA OwnerOf ==
  ASSUME OwnershipInv, NEW b \in Buffers
  PROVE  /\ empty_buffer_queue[b] > 0 <=> PoolOwner[b] = "free"
         /\ downstream[b] > 0 <=> PoolOwner[b] = "downstream"
         /\ returning[b] > 0 <=> PoolOwner[b] = "returning"
         /\ Mapped(b) <=> PoolOwner[b] = "decoder"
BY DEF OwnershipInv, BufferOwnership, TypeOK, BuffersTyped, PoolOwner

\* The same counts after a step.
LEMMA CountsAfter ==
  ASSUME OwnershipInv', NEW b \in Buffers
  PROVE  /\ empty_buffer_queue'[b] \in Nat
         /\ downstream'[b] \in Nat
         /\ returning'[b] \in Nat
         /\ empty_buffer_queue'[b] + downstream'[b] + returning'[b]
              + (IF Mapped(b)' THEN 1 ELSE 0) = 1
<1>1. /\ empty_buffer_queue'[b] \in Nat
      /\ downstream'[b] \in Nat
      /\ returning'[b] \in Nat
  BY DEF OwnershipInv, TypeOK, BuffersTyped
<1>2. empty_buffer_queue'[b] + downstream'[b] + returning'[b]
        + (IF Mapped(b)' THEN 1 ELSE 0) = 1
  BY DEF OwnershipInv, BufferOwnership, Mapped
<1> QED
  BY <1>1, <1>2

\* If the counts and the map do not change, no owner changes.
LEMMA SameOwners ==
  ASSUME UNCHANGED <<empty_buffer_queue, downstream, returning>>
  PROVE  PoolOwner' = PoolOwner
BY DEF PoolOwner

LEMMA OneWritten ==
  ASSUME NEW b \in Buffers,
         \A d \in Buffers \ {b} : /\ header'[d] = header[d]
                                  /\ payload'[d] = payload[d]
  PROVE  Pool!Rewrite(b)
BY DEF Pool!Rewrite, PoolContent

LEMMA NoneWritten ==
  ASSUME \A d \in Buffers : /\ header'[d] = header[d]
                            /\ payload'[d] = payload[d]
  PROVE  PoolContent' = PoolContent
BY DEF PoolContent

LEMMA Stutter ==
  ASSUME PoolOwner' = PoolOwner, PoolContent' = PoolContent
  PROVE  PoolStep
BY DEF PoolStep, Pool!vars

LEMMA FillStep ==
  ASSUME OwnershipInv, NEW b \in Buffers, Mapped(b),
         PoolOwner' = PoolOwner, Pool!Rewrite(b)
  PROVE  PoolStep
<1>1. Pool!Fill(b)
  BY OwnerOf DEF Pool!Fill
<1> QED
  BY <1>1 DEF PoolStep, Pool!Next

\* A buffer leaves one place for the next one and no other buffer moves.
LEMMA PassStep ==
  ASSUME NEW b \in Buffers, NEW from, NEW to, PoolOwner[b] = from,
         PoolOwner'[b] = to,
         \A d \in Buffers \ {b} : PoolOwner'[d] = PoolOwner[d]
  PROVE  Pool!Pass(b, from, to)
BY DEF Pool!Pass, PoolOwner

LEMMA HeaderHandlerPool ==
  ASSUME OwnershipInv, OwnershipInv', ~LateArrivals,
         NEW f \in Frames, NEW p \in PacketNumbers,
         ProcessPacketHeader(f, p)
  PROVE  PoolStep
<1> USE DEF ProcessPacketHeader
<1>0. /\ header \in [AllBuffers -> FrameHeader]
      /\ Buffers \subseteq AllBuffers
      /\ dropped_frame_buffer \notin Buffers
  BY BuffersAssumption
  DEF OwnershipInv, TypeOK, ContentTyped, AllBuffers
<1>1. f \notin timed_out /\ f # default_frame_number
  BY DefaultNotAFrame DEF Arrives
<1>2. CASE SameFrame(f, p)
  <2>1. PoolOwner' = PoolOwner
    BY <1>2, SameOwners DEF SameFrame
  <2>2. CASE current_frame_buffer \in Buffers /\ Mapped(current_frame_buffer)
    <3>1. Pool!Rewrite(current_frame_buffer)
      BY <1>0, <1>2, <2>2, OneWritten DEF SameFrame, Mark
    <3> QED
      BY <2>1, <2>2, <3>1, FillStep
  <2>3. CASE current_frame_buffer = dropped_frame_buffer
    <3>1. PoolContent' = PoolContent
      BY <1>0, <1>2, <2>3, NoneWritten DEF SameFrame, Mark
    <3> QED
      BY <2>1, <3>1, Stutter
  <2> QED
    BY <1>1, <1>2, <2>2, <2>3
    DEF OwnershipInv, CurrentInv, SameFrame, Mapped
<1>3. CASE DropFrame(f, p)
  <2>1. PoolOwner' = PoolOwner
    BY <1>3, SameOwners DEF DropFrame
  <2>2. PoolContent' = PoolContent
    BY <1>0, <1>3, NoneWritten DEF DropFrame, MarkFirst
  <2> QED
    BY <2>1, <2>2, Stutter
<1>4. CASE AllocateBuffer(f, p)
  <2> PICK b \in Buffers :
        /\ PopEmptyBuffer(b)
        /\ frame_buffer_map' = [frame_buffer_map EXCEPT ![f] = b]
        /\ MarkFirst(b, f, p)
    BY <1>4 DEF AllocateBuffer
  <2>1. PoolOwner[b] = "free"
    BY OwnerOf DEF PopEmptyBuffer
  <2>2. PoolOwner'[b] = "decoder"
    <3>1. frame_buffer_map'[f] = b
      BY DEF OwnershipInv, TypeOK, BuffersTyped
    <3>2. Mapped(b)'
      BY <3>1 DEF Mapped
    <3>3. /\ empty_buffer_queue'[b] = 0
          /\ downstream'[b] = 0
          /\ returning'[b] = 0
      BY <3>2, CountsAfter
    <3> QED
      BY <3>3 DEF PoolOwner
  <2>3. \A d \in Buffers \ {b} : PoolOwner'[d] = PoolOwner[d]
    BY DEF PopEmptyBuffer, PoolOwner, OwnershipInv, TypeOK, BuffersTyped
  <2>4. Pool!Pass(b, "free", "decoder")
    BY <2>1, <2>2, <2>3, PassStep
  <2>5. Pool!Rewrite(b)
    BY <1>0, OneWritten DEF MarkFirst
  <2>6. Pool!Take(b)
    BY <2>4, <2>5 DEF Pool!Take
  <2> QED
    BY <2>6 DEF PoolStep, Pool!Next
<1>5. CASE RevisitFrame(f, p)
  <2>1. PoolOwner' = PoolOwner
    BY <1>5, SameOwners DEF RevisitFrame
  <2>2. frame_buffer_map[f] \in Buffers /\ Mapped(frame_buffer_map[f])
    BY <1>5 DEF RevisitFrame, OwnershipInv, TypeOK, BuffersTyped, Mapped
  <2>3. Pool!Rewrite(frame_buffer_map[f])
    BY <1>0, <1>5, <2>2, OneWritten DEF RevisitFrame, Mark
  <2> QED
    BY <2>1, <2>2, <2>3, FillStep
<1> QED
  BY <1>2, <1>3, <1>4, <1>5

\* A mapped buffer handed over moves from the decoder downstream.
LEMMA HandOverPool ==
  ASSUME OwnershipInv, OwnershipInv', NEW b \in Buffers, Mapped(b),
         HandOver(b), UNCHANGED <<empty_buffer_queue, returning>>,
         Pool!Rewrite(b)
  PROVE  PoolStep
<1>1. PoolOwner[b] = "decoder"
  BY OwnerOf
<1>2. PoolOwner'[b] = "downstream"
  <2>1. downstream'[b] > 0
    BY DEF HandOver, OwnershipInv, TypeOK, BuffersTyped
  <2>2. empty_buffer_queue'[b] = 0
    BY <2>1, CountsAfter
  <2> QED
    BY <2>1, <2>2 DEF PoolOwner
<1>3. \A d \in Buffers \ {b} : PoolOwner'[d] = PoolOwner[d]
  BY DEF HandOver, PoolOwner, OwnershipInv, TypeOK, BuffersTyped
<1>4. Pool!HandOver(b)
  BY <1>1, <1>2, <1>3, PassStep DEF Pool!HandOver
<1> QED
  BY <1>4 DEF PoolStep, Pool!Next

LEMMA PayloadHandlerPool ==
  ASSUME OwnershipInv, OwnershipInv', ProcessPacket
  PROVE  PoolStep
<1> USE DEF ProcessPacket
<1>0. /\ header \in [AllBuffers -> FrameHeader]
      /\ payload \in [AllBuffers -> [PacketNumbers -> FrameNumbers]]
      /\ Buffers \subseteq AllBuffers
      /\ dropped_frame_buffer \notin Buffers
  BY BuffersAssumption
  DEF OwnershipInv, TypeOK, ContentTyped, AllBuffers
<1>1. ASSUME pending \in PacketNumbers
      PROVE  \/ current_frame_buffer = dropped_frame_buffer
                  /\ dropping_frame_data
             \/ /\ current_frame_buffer \in Buffers
                /\ Mapped(current_frame_buffer)
                /\ current_frame_buffer_id = current_frame_buffer
  BY <1>1, DefaultNotAFrame
  DEF OwnershipInv, CurrentInv, PendingInv, Mapped
<1>2. ASSUME StorePayload, current_frame_buffer \in Buffers,
             NEW h, header' = [header EXCEPT ![current_frame_buffer] = h]
      PROVE  Pool!Rewrite(current_frame_buffer)
  BY <1>0, <1>2, OneWritten DEF StorePayload
<1>3. CASE CollectPacket \/ CompleteWhileDropping
  <2>1. PoolOwner' = PoolOwner
    BY <1>3, SameOwners DEF CollectPacket, CompleteWhileDropping
  <2>2. pending \in PacketNumbers /\ StorePayload
    BY <1>3 DEF CollectPacket, CompleteWhileDropping
  <2>3. PICK h : header' = [header EXCEPT ![current_frame_buffer] = h]
    BY <1>3 DEF CollectPacket, CompleteWhileDropping
  <2>4. CASE current_frame_buffer \in Buffers /\ Mapped(current_frame_buffer)
    BY <1>2, <2>1, <2>2, <2>3, <2>4, FillStep
  <2>5. CASE current_frame_buffer = dropped_frame_buffer
    <3>1. PoolContent' = PoolContent
      BY <1>0, <2>2, <2>3, <2>5, NoneWritten DEF StorePayload
    <3> QED
      BY <2>1, <3>1, Stutter
  <2> QED
    BY <1>1, <2>2, <2>4, <2>5
<1>4. CASE CompleteFrame
  <2>1. pending \in PacketNumbers /\ StorePayload /\ ~dropping_frame_data
    BY <1>4 DEF CompleteFrame
  <2>2. PICK h : header' = [header EXCEPT ![current_frame_buffer] = h]
    BY <1>4 DEF CompleteFrame
  <2>3. /\ current_frame_buffer \in Buffers
        /\ Mapped(current_frame_buffer)
        /\ current_frame_buffer_id = current_frame_buffer
    BY <1>1, <2>1
  <2>4. Pool!Rewrite(current_frame_buffer)
    BY <1>2, <2>1, <2>2, <2>3
  <2> QED
    BY <1>4, <2>3, <2>4, HandOverPool DEF CompleteFrame
<1>5. CASE IgnorePacket
  BY <1>5, SameOwners, NoneWritten, Stutter DEF IgnorePacket
<1> QED
  BY <1>3, <1>4, <1>5

LEMMA OtherPool ==
  ASSUME OwnershipInv, OwnershipInv',
         \/ IgnorePacketHeader
         \/ MonitorBuffers
         \/ \E f \in Frames : ReleaseTimedOut(f)
         \/ Tick
         \/ \E b \in Buffers : ProcessorReleases(b) \/ PushEmptyBuffer(b)
         \/ UNCHANGED vars
  PROVE  PoolStep
<1>1. CASE IgnorePacketHeader \/ MonitorBuffers \/ Tick \/ UNCHANGED vars
  BY <1>1, SameOwners, NoneWritten, Stutter
  DEF IgnorePacketHeader, MonitorBuffers, Tick, vars
<1>2. ASSUME NEW f \in Frames, ReleaseTimedOut(f) PROVE PoolStep
  <2> DEFINE b == frame_buffer_map[f]
  <2>1. b \in Buffers /\ Mapped(b)
    BY <1>2 DEF ReleaseTimedOut, OwnershipInv, MonitorInv, TypeOK,
                BuffersTyped, Mapped
  <2>2. Pool!Rewrite(b)
    BY <1>2, <2>1, OneWritten
    DEF ReleaseTimedOut, OwnershipInv, TypeOK, ContentTyped, AllBuffers
  <2> QED
    BY <1>2, <2>1, <2>2, HandOverPool DEF ReleaseTimedOut
<1>3. ASSUME NEW b \in Buffers, ProcessorReleases(b) PROVE PoolStep
  <2>1. PoolOwner[b] = "downstream"
    BY <1>3, OwnerOf DEF ProcessorReleases
  <2>2. returning'[b] > 0
    BY <1>3 DEF ProcessorReleases, OwnershipInv, TypeOK, BuffersTyped
  <2>3. PoolOwner'[b] = "returning"
    <3>1. empty_buffer_queue'[b] = 0 /\ downstream'[b] = 0
      BY <2>2, CountsAfter
    <3> QED
      BY <2>2, <3>1 DEF PoolOwner
  <2>4. \A d \in Buffers \ {b} : PoolOwner'[d] = PoolOwner[d]
    BY <1>3 DEF ProcessorReleases, PoolOwner, OwnershipInv, TypeOK,
                BuffersTyped
  <2>5. Pool!Return(b)
    BY <1>3, <2>1, <2>3, <2>4, PassStep, NoneWritten
    DEF ProcessorReleases, Pool!Return
  <2> QED
    BY <2>5 DEF PoolStep, Pool!Next
<1>4. ASSUME NEW b \in Buffers, PushEmptyBuffer(b) PROVE PoolStep
  <2>1. PoolOwner[b] = "returning"
    BY <1>4, OwnerOf DEF PushEmptyBuffer
  <2>2. PoolOwner'[b] = "free"
    BY <1>4 DEF PushEmptyBuffer, PoolOwner, OwnershipInv, TypeOK,
                BuffersTyped
  <2>3. \A d \in Buffers \ {b} : PoolOwner'[d] = PoolOwner[d]
    BY <1>4 DEF PushEmptyBuffer, PoolOwner, OwnershipInv, TypeOK,
                BuffersTyped
  <2>4. Pool!Recycle(b)
    BY <1>4, <2>1, <2>2, <2>3, PassStep, NoneWritten
    DEF PushEmptyBuffer, Pool!Recycle
  <2> QED
    BY <2>4 DEF PoolStep, Pool!Next
<1> QED
  BY <1>1, <1>2, <1>3, <1>4

\* The decoder keeps FramePool's promise: one owner per buffer, and no write
\* to a buffer in the frame processor's hands or on its way back.
THEOREM DecoderImplementsFramePool ==
  ASSUME ~LateArrivals
  PROVE  Spec => ImplementsFramePool
<1>1. Init => Pool!Init
  BY DEF Init, Pool!Init, PoolOwner, PoolContent
<1>2. OwnershipInv /\ [Next]_vars => OwnershipInv'
  BY OwnershipStep
<1>3. OwnershipInv /\ OwnershipInv' /\ [Next]_vars => [Pool!Next]_(Pool!vars)
  BY HeaderHandlerPool, PayloadHandlerPool, OtherPool DEF Next, PoolStep
<1> QED
  BY InitOwnership, <1>1, <1>2, <1>3, PTL
  DEF Spec, ImplementsFramePool, Pool!Spec

-----------------------------------------------------------------------------
(* What the decoder hands over, when the network neither duplicates packets *)
(* nor delivers them after their frame's timeout: a complete frame is       *)
(* whole, no frame is handed over twice, and no packet of a frame that      *)
(* timed out is missing from the loss counter.                              *)

\* The slots of buffer b that hold packets of frame f.
Slots(b, f) == {p \in PacketNumbers : payload[b][p] = f}

\* Is the payload of a packet of frame f still to come?
Awaits(f) == pending \in PacketNumbers /\ current_frame_seen = f

\* The packets of a mapped frame whose headers have been handled.
Begun(f) ==
  {p \in PacketNumbers :
     payload[frame_buffer_map[f]][p] = f \/ (Awaits(f) /\ pending = p)}

Count(A, p) == IF p \in A THEN 1 ELSE 0

\* The header of a mapped frame agrees with what its buffer holds.
Filling(f) ==
  LET h == header[frame_buffer_map[f]]
  IN /\ h.frame_number = f
     /\ h.total_packets_received = Cardinality(Slots(frame_buffer_map[f], f))
     /\ h.total_sof_marker_count = Count(Begun(f), 0)
     /\ h.total_eof_marker_count = Count(Begun(f), num_fem_frame_packets - 1)
     /\ announced[f] = 0

FillingInv ==
  \A f \in Frames : frame_buffer_map[f] # NoBuffer => Filling(f)

\* The packet whose payload comes next has no payload yet.
ArrivalInv ==
  pending \in PacketNumbers =>
    /\ arrived[current_frame_seen][pending] # 0
    /\ frame_buffer_map[current_frame_seen] # NoBuffer =>
         payload[frame_buffer_map[current_frame_seen]][pending]
           # current_frame_seen

\* A buffer holds packets that have arrived, of its own frame or of frames
\* that have been handed over.
ContentInv ==
  \A b \in Buffers, f \in Frames, p \in PacketNumbers :
    payload[b][p] = f =>
      /\ arrived[f][p] # 0
      /\ frame_buffer_map[f] = b \/ announced[f] # 0

\* Nothing more arrives of a frame that has been handed over.
AnnouncedInv ==
  \A f \in Frames : announced[f] # 0 =>
    f \in timed_out \/ \A p \in PacketNumbers : arrived[f][p] # 0

\* A frame that is being dropped is not mapped.
ScratchInv ==
  current_frame_seen \in Frames /\ current_frame_buffer = dropped_frame_buffer =>
    frame_buffer_map[current_frame_seen] = NoBuffer

ContentsInv ==
  /\ FillingInv /\ ArrivalInv /\ ContentInv /\ AnnouncedInv /\ ScratchInv
  /\ FrameAnnouncedOnce /\ CompleteHasAllPackets

-----------------------------------------------------------------------------
(* Headers and slots *)

LEMMA MarkedFields ==
  ASSUME NEW h \in FrameHeader, NEW p \in PacketNumbers
  PROVE  LET m == Marked(h, p)
         IN /\ m.frame_number = h.frame_number
            /\ m.frame_state = h.frame_state
            /\ m.total_packets_received = h.total_packets_received
            /\ m.total_sof_marker_count =
                 h.total_sof_marker_count + (IF p = 0 THEN 1 ELSE 0)
            /\ m.total_eof_marker_count =
                 h.total_eof_marker_count
                   + (IF p = num_fem_frame_packets - 1 THEN 1 ELSE 0)
BY DEF Marked, FrameHeader

LEMMA InitialisedFields ==
  ASSUME NEW h \in FrameHeader, NEW f \in Frames
  PROVE  LET i == Initialised(h, f)
         IN /\ i.frame_number = f
            /\ i.total_packets_received = 0
            /\ i.total_sof_marker_count = 0 /\ i.total_eof_marker_count = 0
BY DEF Initialised, FrameHeader

LEMMA ReceivedFields ==
  ASSUME NEW h \in FrameHeader,
         NEW r \in {Received(h), [Received(h) EXCEPT !.frame_state = "complete"]}
  PROVE  /\ r.frame_number = h.frame_number
         /\ r.total_packets_received = h.total_packets_received + 1
         /\ r.total_sof_marker_count = h.total_sof_marker_count
         /\ r.total_eof_marker_count = h.total_eof_marker_count
BY DEF Received, FrameHeader

LEMMA PacketsFinite ==
  /\ IsFiniteSet(PacketNumbers)
  /\ Cardinality(PacketNumbers) = num_fem_frame_packets
BY PacketsNat, FS_Interval DEF PacketNumbers

LEMMA SlotsFinite ==
  ASSUME NEW b, NEW f
  PROVE  IsFiniteSet(Slots(b, f)) /\ Cardinality(Slots(b, f)) \in Nat
<1>1. Slots(b, f) \in SUBSET PacketNumbers
  BY DEF Slots
<1> QED
  BY <1>1, PacketsFinite, FS_Subset, FS_CardinalityType

\* A frame whose buffer, header and packet under way are untouched.
LEMMA FillingKept ==
  ASSUME NEW f \in Frames, Filling(f),
         frame_buffer_map'[f] = frame_buffer_map[f],
         header'[frame_buffer_map[f]] = header[frame_buffer_map[f]],
         payload'[frame_buffer_map[f]] = payload[frame_buffer_map[f]],
         announced'[f] = announced[f],
         Awaits(f)' <=> Awaits(f),
         Awaits(f) => pending' = pending
  PROVE  Filling(f)'
<1>1. Slots(frame_buffer_map[f], f)' = Slots(frame_buffer_map[f], f)
  BY DEF Slots
<1>2. Begun(f)' = Begun(f)
  BY DEF Begun
<1> QED
  BY <1>1, <1>2 DEF Filling, Count

LEMMA InitContents == Init => ContentsInv
<1> SUFFICES ASSUME Init PROVE ContentsInv
  OBVIOUS
<1>1. FillingInv /\ ArrivalInv /\ AnnouncedInv /\ ScratchInv
  BY BuffersAssumption
  DEF Init, FillingInv, ArrivalInv, AnnouncedInv, ScratchInv, PacketNumbers,
      NoPacket
<1>2. ContentInv
  BY DefaultNotAFrame DEF Init, ContentInv, AllBuffers
<1>3. FrameAnnouncedOnce /\ CompleteHasAllPackets
  BY DEF Init, FrameAnnouncedOnce, CompleteHasAllPackets
<1> QED
  BY <1>1, <1>2, <1>3 DEF ContentsInv

-----------------------------------------------------------------------------
(* The header handler *)

LEMMA HeaderHandlerContents ==
  ASSUME OwnershipInv, ContentsInv, ~LateArrivals, MaxCopies <= 1,
         NEW f \in Frames, NEW p \in PacketNumbers,
         ProcessPacketHeader(f, p)
  PROVE  ContentsInv'
<1> USE DEF ContentsInv, OwnershipInv, TypeOK
<1>1. /\ pending = NoPacket /\ pending' = p /\ pending \notin PacketNumbers
      /\ UNCHANGED <<payload, downstream, announced, timed_out>>
  BY DEF ProcessPacketHeader, Idle, PacketNumbers, NoPacket
<1>2. /\ arrived[f][p] = 0 /\ f \notin timed_out /\ arrived'[f][p] # 0
      /\ \A g \in Frames, q \in PacketNumbers :
           arrived[g][q] # 0 => arrived'[g][q] # 0
  <2>1. /\ arrived[f][p] < MaxCopies /\ f \notin timed_out
        /\ arrived' = [arrived EXCEPT ![f][p] = @ + 1]
    BY DEF ProcessPacketHeader, Arrives
  <2>2. arrived \in [Frames -> [PacketNumbers -> Nat]]
    BY DEF HistoryTyped
  <2>3. \A g \in Frames, q \in PacketNumbers :
          /\ arrived[g][q] \in Nat
          /\ arrived'[g][q] = IF g = f /\ q = p THEN arrived[g][q] + 1
                              ELSE arrived[g][q]
    BY <2>1, <2>2
  <2> QED
    BY <2>1, <2>3, BoundsAssumption
<1>3. announced[f] = 0
  BY <1>2 DEF AnnouncedInv
<1>4. \A b \in Buffers : payload[b][p] # f
  BY <1>2 DEF ContentInv
<1>5. current_frame_seen' = f
  BY DEF ProcessPacketHeader, SameFrame, DropFrame, AllocateBuffer,
         RevisitFrame, current
<1>6. AnnouncedInv' /\ FrameAnnouncedOnce'
  BY <1>1, <1>2 DEF AnnouncedInv, FrameAnnouncedOnce
<1>7. \A g \in Frames : ~Awaits(g) /\ (g # f => ~Awaits(g)')
  BY <1>1, <1>5 DEF Awaits
<1>8. header \in [AllBuffers -> FrameHeader]
      /\ frame_buffer_map \in [Frames -> Buffers \cup {NoBuffer}]
  BY DEF ContentTyped, BuffersTyped
\* A packet of a frame that is mapped to b, or was just now.
<1>9. ASSUME NEW b \in Buffers, NEW h \in FrameHeader,
             header' = [header EXCEPT ![b] = Marked(h, p)],
             h.frame_number = f,
             h.total_packets_received = Cardinality(Slots(b, f)),
             h.total_sof_marker_count = Count(Slots(b, f), 0),
             h.total_eof_marker_count =
               Count(Slots(b, f), num_fem_frame_packets - 1),
             frame_buffer_map' = [frame_buffer_map EXCEPT ![f] = b],
             \A g \in Frames : frame_buffer_map[g] = b => g = f,
             downstream[b] = 0, current_frame_buffer' = b,
             frame_buffer_map[f] \in {b, NoBuffer}
      PROVE  ContentsInv'
  <2>1. header'[b] = Marked(h, p) /\ \A d \in Buffers \ {b} : header'[d] = header[d]
    BY <1>8, <1>9 DEF AllBuffers
  <2>2. frame_buffer_map'[f] = b
        /\ \A g \in Frames \ {f} : frame_buffer_map'[g] = frame_buffer_map[g]
    BY <1>8, <1>9
  <2>3. p \notin Slots(b, f) /\ Slots(b, f)' = Slots(b, f)
    BY <1>1, <1>4 DEF Slots
  <2>4. Begun(f)' = Slots(b, f) \cup {p}
    BY <1>1, <1>5, <2>2 DEF Begun, Slots, Awaits
  <2>5. Filling(f)'
    <3>1. /\ header'[b].frame_number = f
          /\ header'[b].total_packets_received = Cardinality(Slots(b, f))
          /\ header'[b].total_sof_marker_count =
               Count(Slots(b, f), 0) + (IF p = 0 THEN 1 ELSE 0)
          /\ header'[b].total_eof_marker_count =
               Count(Slots(b, f), num_fem_frame_packets - 1)
                 + (IF p = num_fem_frame_packets - 1 THEN 1 ELSE 0)
      BY <1>9, <2>1, MarkedFields
    <3>2. \A q \in {0, num_fem_frame_packets - 1} :
            Count(Begun(f)', q) = Count(Slots(b, f), q) + (IF p = q THEN 1 ELSE 0)
      BY <2>3, <2>4 DEF Count
    <3>3. Count(Begun(f), 0)' = Count(Begun(f)', 0)
          /\ Count(Begun(f), num_fem_frame_packets - 1)' =
               Count(Begun(f)', num_fem_frame_packets - 1)
      BY DEF Count
    <3> QED
      BY <1>1, <1>3, <2>2, <2>3, <3>1, <3>2, <3>3 DEF Filling
  <2>6. FillingInv'
    <3>1. ASSUME NEW g \in Frames, g # f, frame_buffer_map'[g] # NoBuffer
          PROVE  Filling(g)'
      <4>1. frame_buffer_map'[g] = frame_buffer_map[g]
            /\ frame_buffer_map[g] \in Buffers \ {b}
        BY <1>8, <1>9, <2>2, <3>1
      <4>2. Filling(g) /\ header'[frame_buffer_map[g]] = header[frame_buffer_map[g]]
        BY <2>1, <3>1, <4>1 DEF FillingInv
      <4> QED
        BY <1>1, <1>7, <3>1, <4>1, <4>2, FillingKept
    <3> QED
      BY <2>5, <3>1 DEF FillingInv
  <2>7. ArrivalInv'
    BY <1>1, <1>2, <1>4, <1>5, <2>2 DEF ArrivalInv
  <2>8. ContentInv'
    <3>1. ASSUME NEW d \in Buffers, NEW g \in Frames, NEW q \in PacketNumbers,
                 payload[d][q] = g
          PROVE  arrived'[g][q] # 0
                 /\ (frame_buffer_map'[g] = d \/ announced[g] # 0)
      <4>1. arrived[g][q] # 0 /\ (frame_buffer_map[g] = d \/ announced[g] # 0)
        BY <3>1 DEF ContentInv
      <4> QED
        BY <1>2, <1>9, <2>2, <4>1, BuffersAssumption
    <3> QED
      BY <1>1, <3>1 DEF ContentInv
  <2>9. ScratchInv'
    BY <1>9, BuffersAssumption DEF ScratchInv
  <2>10. CompleteHasAllPackets'
    BY <1>1, <1>9, <2>1 DEF CompleteHasAllPackets
  <2> QED
    BY <1>6, <2>6, <2>7, <2>8, <2>9, <2>10
\* The frame is mapped already.
<1>10. ASSUME NEW b \in Buffers, frame_buffer_map[f] = b, Mark(b, p),
              frame_buffer_map' = frame_buffer_map, current_frame_buffer' = b
       PROVE  ContentsInv'
  <2>1. Filling(f) /\ Begun(f) = Slots(b, f)
    BY <1>7, <1>10, BuffersAssumption DEF FillingInv, Begun, Slots
  <2>2. header[b] \in FrameHeader
        /\ header' = [header EXCEPT ![b] = Marked(header[b], p)]
    BY <1>8, <1>10 DEF Mark, AllBuffers
  <2>3. frame_buffer_map' = [frame_buffer_map EXCEPT ![f] = b]
    BY <1>8, <1>10
  <2>4. downstream[b] = 0 /\ \A g \in Frames : frame_buffer_map[g] = b => g = f
    <3>1. Mapped(b) /\ empty_buffer_queue[b] \in Nat /\ downstream[b] \in Nat
          /\ returning[b] \in Nat
      BY <1>10 DEF Mapped, BuffersTyped
    <3>2. empty_buffer_queue[b] + downstream[b] + returning[b]
            + (IF Mapped(b) THEN 1 ELSE 0) = 1
      BY DEF BufferOwnership
    <3>3. \A g \in Frames : frame_buffer_map[g] = b => g = f
      BY <1>10 DEF BufferOwnership
    <3> QED
      BY <3>1, <3>2, <3>3
  <2> QED
    BY <1>9, <1>10, <2>1, <2>2, <2>3, <2>4 DEF Filling
<1>11. CASE SameFrame(f, p) /\ frame_buffer_map[f] # NoBuffer
  <2>1. frame_buffer_map[f] = current_frame_buffer /\ frame_buffer_map[f] \in Buffers
    BY <1>2, <1>8, <1>11, DefaultNotAFrame DEF SameFrame, CurrentInv, ScratchInv
  <2> QED
    BY <1>10, <1>11, <2>1 DEF SameFrame, current
<1>12. CASE RevisitFrame(f, p)
  <2>1. frame_buffer_map[f] \in Buffers
    BY <1>8, <1>12 DEF RevisitFrame
  <2> QED
    BY <1>10, <1>12, <2>1 DEF RevisitFrame, PointTo
<1>13. CASE AllocateBuffer(f, p)
  <2>1. PICK b \in Buffers :
          /\ PopEmptyBuffer(b)
          /\ frame_buffer_map' = [frame_buffer_map EXCEPT ![f] = b]
          /\ PointTo(b)
          /\ MarkFirst(b, f, p)
    BY <1>13 DEF AllocateBuffer
  <2>2. frame_buffer_map[f] = NoBuffer
    BY <1>13 DEF AllocateBuffer
  <2>3. Slots(b, f) = {}
    BY <1>3, <2>2, BuffersAssumption DEF ContentInv, Slots
  <2>4. /\ Cardinality(Slots(b, f)) = 0
        /\ Count(Slots(b, f), 0) = 0
        /\ Count(Slots(b, f), num_fem_frame_packets - 1) = 0
    BY <2>3, FS_EmptySet DEF Count
  <2>5. downstream[b] = 0 /\ \A g \in Frames : frame_buffer_map[g] # b
    <3>1. /\ empty_buffer_queue[b] \in Nat /\ empty_buffer_queue[b] > 0
          /\ downstream[b] \in Nat /\ returning[b] \in Nat
      BY <2>1 DEF PopEmptyBuffer, BuffersTyped
    <3>2. ~Mapped(b) /\ downstream[b] = 0
      BY <3>1 DEF BufferOwnership
    <3> QED
      BY <3>2 DEF Mapped
  <2> DEFINE h == Initialised(header[b], f)
  <2>6. h \in FrameHeader /\ header' = [header EXCEPT ![b] = Marked(h, p)]
    BY <1>8, <2>1, InitialisedTypes DEF MarkFirst, AllBuffers
  <2>7. /\ h.frame_number = f /\ h.total_packets_received = 0
        /\ h.total_sof_marker_count = 0 /\ h.total_eof_marker_count = 0
    BY <1>8, InitialisedFields DEF AllBuffers
  <2> HIDE DEF h
  <2> QED
    BY <1>9, <2>1, <2>2, <2>4, <2>5, <2>6, <2>7 DEF PointTo
\* The packet goes to the scratch buffer.
<1>14. CASE \/ DropFrame(f, p)
            \/ SameFrame(f, p) /\ frame_buffer_map[f] = NoBuffer
  <2>1. current_frame_buffer' = dropped_frame_buffer
    BY <1>2, <1>14, DefaultNotAFrame, BuffersAssumption
    DEF DropFrame, SameFrame, CurrentInv, current
  <2>2. /\ frame_buffer_map[f] = NoBuffer
        /\ frame_buffer_map' = frame_buffer_map
        /\ \A d \in Buffers : header'[d] = header[d]
    <3>1. frame_buffer_map[f] = NoBuffer /\ frame_buffer_map' = frame_buffer_map
      BY <1>14 DEF DropFrame, SameFrame
    <3>2. Mark(dropped_frame_buffer, p) \/ MarkFirst(dropped_frame_buffer, f, p)
      BY <1>14, <2>1 DEF DropFrame, SameFrame, current
    <3>3. ASSUME NEW d \in Buffers PROVE header'[d] = header[d]
      BY <1>8, <3>2, BuffersAssumption DEF Mark, MarkFirst, AllBuffers
    <3> QED
      BY <3>1, <3>3
  <2>3. FillingInv'
    <3>1. ASSUME NEW g \in Frames, frame_buffer_map[g] # NoBuffer
          PROVE  Filling(g)'
      <4>1. g # f /\ frame_buffer_map[g] \in Buffers /\ Filling(g)
        BY <1>8, <2>2, <3>1 DEF FillingInv
      <4> QED
        BY <1>1, <1>7, <2>2, <4>1, FillingKept
    <3> QED
      BY <2>2, <3>1 DEF FillingInv
  <2>4. ArrivalInv' /\ ScratchInv'
    BY <1>1, <1>2, <1>5, <2>2 DEF ArrivalInv, ScratchInv
  <2>5. ContentInv' /\ CompleteHasAllPackets'
    BY <1>1, <1>2, <2>2 DEF ContentInv, CompleteHasAllPackets
  <2> QED
    BY <1>6, <2>3, <2>4, <2>5
<1> QED
  BY <1>11, <1>12, <1>13, <1>14 DEF ProcessPacketHeader

-----------------------------------------------------------------------------
(* The payload handler *)

\* The payload of the packet in hand goes into slot p of buffer b.
LEMMA PayloadStored ==
  ASSUME OwnershipInv, NEW b \in AllBuffers, current_frame_buffer = b,
         NEW p \in PacketNumbers, pending = p, StorePayload
  PROVE  /\ payload'[b][p] = current_frame_seen
         /\ \A d \in AllBuffers, q \in PacketNumbers :
              d # b \/ q # p => payload'[d][q] = payload[d][q]
         /\ \A d \in AllBuffers : d # b => payload'[d] = payload[d]
BY DEF OwnershipInv, TypeOK, ContentTyped, StorePayload

\* A dropped frame's packet touches the scratch buffer only.
LEMMA ScratchContents ==
  ASSUME OwnershipInv, ContentsInv, ProcessPacket, pending \in PacketNumbers,
         current_frame_buffer = dropped_frame_buffer
  PROVE  ContentsInv'
<1> USE DEF OwnershipInv, TypeOK
<1>1. dropping_frame_data /\ current_frame_seen \in Frames
  BY DefaultNotAFrame, BuffersAssumption DEF CurrentInv, PendingInv
<1>2. CollectPacket \/ CompleteWhileDropping
  BY <1>1 DEF ProcessPacket, CompleteFrame, IgnorePacket, PacketNumbers,
              IgnoredPacket
<1>3. /\ StorePayload
      /\ UNCHANGED <<frame_buffer_map, current_frame_seen, current_frame_buffer,
                     downstream, announced, arrived, timed_out>>
      /\ pending' = NoPacket
  BY <1>2 DEF CollectPacket, CompleteWhileDropping, ProcessPacket, current
<1>4. \A d \in Buffers : header'[d] = header[d]
  BY <1>2, BuffersAssumption
  DEF CollectPacket, CompleteWhileDropping, ContentTyped, AllBuffers
<1>5. \A d \in Buffers : payload'[d] = payload[d]
  BY <1>3, PayloadStored, BuffersAssumption DEF AllBuffers
<1>6. frame_buffer_map[current_frame_seen] = NoBuffer
  BY <1>1 DEF ContentsInv, ScratchInv
<1>7. \A f \in Frames : frame_buffer_map[f] # NoBuffer =>
        frame_buffer_map[f] \in Buffers /\ ~Awaits(f) /\ ~Awaits(f)'
  BY <1>3, <1>6 DEF Awaits, BuffersTyped, PacketNumbers, NoPacket
<1>8. FillingInv'
  <2>1. ASSUME NEW f \in Frames, frame_buffer_map[f] # NoBuffer
        PROVE  Filling(f)'
    BY <1>3, <1>4, <1>5, <1>7, <2>1, FillingKept DEF ContentsInv, FillingInv
  <2> QED
    BY <1>3, <2>1 DEF FillingInv
<1>9. ArrivalInv' /\ ScratchInv' /\ AnnouncedInv' /\ FrameAnnouncedOnce'
  BY <1>3 DEF ContentsInv, ArrivalInv, ScratchInv, AnnouncedInv,
              FrameAnnouncedOnce, PacketNumbers, NoPacket
<1>10. ContentInv' /\ CompleteHasAllPackets'
  BY <1>3, <1>4, <1>5 DEF ContentsInv, ContentInv, CompleteHasAllPackets
<1> QED
  BY <1>8, <1>9, <1>10 DEF ContentsInv

\* What a packet of frame f adds to buffer b.
LEMMA SlotAdded ==
  ASSUME OwnershipInv, ContentsInv, NEW b \in Buffers, NEW f \in Frames,
         NEW p \in PacketNumbers, pending = p, current_frame_seen = f,
         current_frame_buffer = b, frame_buffer_map[f] = b, StorePayload
  PROVE  /\ Slots(b, f)' = Slots(b, f) \cup {p}
         /\ Begun(f) = Slots(b, f) \cup {p}
         /\ p \notin Slots(b, f)
         /\ Cardinality(Slots(b, f)') = Cardinality(Slots(b, f)) + 1
<1>1. b \in AllBuffers /\ b # NoBuffer
  BY BuffersAssumption DEF AllBuffers
<1>2. payload'[b][p] = f
      /\ \A q \in PacketNumbers : q # p => payload'[b][q] = payload[b][q]
  BY <1>1, PayloadStored
<1>3. payload[b][p] # f
  BY <1>1 DEF ContentsInv, ArrivalInv
<1>4. /\ Slots(b, f)' = Slots(b, f) \cup {p}
      /\ Begun(f) = Slots(b, f) \cup {p}
      /\ p \notin Slots(b, f)
  BY <1>2, <1>3 DEF Slots, Begun, Awaits
<1>5. Cardinality(Slots(b, f) \cup {p}) = Cardinality(Slots(b, f)) + 1
  BY <1>4, SlotsFinite, FS_AddElement
<1> QED
  BY <1>4, <1>5

\* A packet goes into the buffer of its frame, and another frame is not
\* affected: what both endings of the payload handler have in common.
LEMMA StoredInBuffer ==
  ASSUME OwnershipInv, ContentsInv, ProcessPacket, pending \in PacketNumbers,
         current_frame_buffer # dropped_frame_buffer
  PROVE  \E b \in Buffers, f \in Frames :
           /\ current_frame_buffer = b /\ current_frame_buffer_id = b
           /\ current_frame_seen = f /\ frame_buffer_map[f] = b
           /\ StorePayload /\ downstream[b] = 0
           /\ \A g \in Frames : frame_buffer_map[g] = b => g = f
<1> USE DEF OwnershipInv, TypeOK
<1>1. /\ current_frame_seen \in Frames
      /\ frame_buffer_map[current_frame_seen] = current_frame_buffer
      /\ current_frame_buffer_id = current_frame_buffer
      /\ current_frame_buffer \in Buffers
  BY DefaultNotAFrame DEF CurrentInv, PendingInv
<1>2. StorePayload
  BY DEF ProcessPacket, CollectPacket, CompleteWhileDropping, CompleteFrame,
         IgnorePacket, PacketNumbers, IgnoredPacket
<1> DEFINE b == current_frame_buffer
<1>3. /\ Mapped(b) /\ empty_buffer_queue[b] \in Nat /\ downstream[b] \in Nat
      /\ returning[b] \in Nat
  BY <1>1 DEF Mapped, BuffersTyped
<1>4. empty_buffer_queue[b] + downstream[b] + returning[b]
        + (IF Mapped(b) THEN 1 ELSE 0) = 1
  BY <1>1 DEF BufferOwnership
<1>5. downstream[b] = 0
  BY <1>3, <1>4
<1>6. \A g \in Frames : frame_buffer_map[g] = b => g = current_frame_seen
  BY <1>1 DEF BufferOwnership
<1> QED
  BY <1>1, <1>2, <1>5, <1>6

LEMMA CollectContents ==
  ASSUME OwnershipInv, ContentsInv, ProcessPacket, pending \in PacketNumbers,
         current_frame_buffer # dropped_frame_buffer,
         CollectPacket \/ CompleteWhileDropping
  PROVE  ContentsInv'
<1> USE DEF OwnershipInv, TypeOK
<1> PICK b \in Buffers, f \in Frames :
      /\ current_frame_buffer = b /\ current_frame_buffer_id = b
      /\ current_frame_seen = f /\ frame_buffer_map[f] = b
      /\ StorePayload /\ downstream[b] = 0
      /\ \A g \in Frames : frame_buffer_map[g] = b => g = f
  BY StoredInBuffer
<1>1. /\ UNCHANGED <<frame_buffer_map, current_frame_seen, current_frame_buffer,
                     downstream, announced, arrived, timed_out>>
      /\ pending' = NoPacket /\ pending' \notin PacketNumbers
  BY DEF CollectPacket, CompleteWhileDropping, ProcessPacket, current,
         PacketNumbers, NoPacket
<1>2. b # NoBuffer /\ b # dropped_frame_buffer /\ b \in AllBuffers
  BY BuffersAssumption DEF AllBuffers
<1>3. header[b] \in FrameHeader
  BY <1>2 DEF ContentTyped
<1>4. header'[b] \in {Received(header[b]),
                      [Received(header[b]) EXCEPT !.frame_state = "complete"]}
      /\ \A d \in Buffers : d # b => header'[d] = header[d]
  BY <1>2 DEF CollectPacket, CompleteWhileDropping, ContentTyped, AllBuffers
<1>5. /\ Slots(b, f)' = Slots(b, f) \cup {pending}
      /\ Begun(f) = Slots(b, f) \cup {pending}
      /\ Cardinality(Slots(b, f)') = Cardinality(Slots(b, f)) + 1
  BY SlotAdded
<1>6. Begun(f)' = Begun(f)
  <2>1. Begun(f)' = Slots(b, f)'
    BY <1>1 DEF Begun, Slots, Awaits
  <2> QED
    BY <1>5, <2>1
<1>7. Filling(f)'
  <2>1. Filling(f)
    BY <1>2 DEF ContentsInv, FillingInv
  <2>2. /\ header'[b].frame_number = header[b].frame_number
        /\ header'[b].total_packets_received =
             header[b].total_packets_received + 1
        /\ header'[b].total_sof_marker_count = header[b].total_sof_marker_count
        /\ header'[b].total_eof_marker_count = header[b].total_eof_marker_count
    BY <1>3, <1>4, ReceivedFields
  <2>3. Cardinality(Slots(b, f))' = Cardinality(Slots(b, f)) + 1
    BY <1>5
  <2> QED
    BY <1>1, <1>6, <2>1, <2>2, <2>3 DEF Filling, Count
<1>8. \A d \in Buffers : d # b => payload'[d] = payload[d]
  BY <1>2, PayloadStored DEF AllBuffers
<1>9. FillingInv'
  <2>1. ASSUME NEW g \in Frames, g # f, frame_buffer_map[g] # NoBuffer
        PROVE  Filling(g)'
    <3>1. frame_buffer_map[g] \in Buffers /\ frame_buffer_map[g] # b
      BY <2>1 DEF BuffersTyped
    <3>2. ~Awaits(g) /\ ~Awaits(g)'
      BY <1>1, <2>1 DEF Awaits
    <3> QED
      BY <1>1, <1>4, <1>8, <2>1, <3>1, <3>2, FillingKept
      DEF ContentsInv, FillingInv
  <2> QED
    BY <1>1, <1>7, <2>1 DEF FillingInv
<1>10. ArrivalInv' /\ ScratchInv' /\ AnnouncedInv' /\ FrameAnnouncedOnce'
  BY <1>1, <1>2 DEF ContentsInv, ArrivalInv, ScratchInv, AnnouncedInv,
                    FrameAnnouncedOnce
<1>11. ContentInv'
  <2> SUFFICES ASSUME NEW d \in Buffers, NEW g \in Frames,
                      NEW q \in PacketNumbers, payload'[d][q] = g
               PROVE  arrived[g][q] # 0
                      /\ (frame_buffer_map[g] = d \/ announced[g] # 0)
    BY <1>1 DEF ContentInv
  <2>1. CASE d = b /\ q = pending
    <3>1. g = f
      BY <1>2, <2>1, PayloadStored
    <3> QED
      BY <2>1, <3>1 DEF ContentsInv, ArrivalInv
  <2>2. CASE ~(d = b /\ q = pending)
    <3>1. payload[d][q] = g
      BY <1>2, <2>2, PayloadStored DEF AllBuffers
    <3> QED
      BY <3>1 DEF ContentsInv, ContentInv
  <2> QED
    BY <2>1, <2>2
<1>12. CompleteHasAllPackets'
  <2> SUFFICES ASSUME NEW d \in Buffers, downstream[d] > 0
               PROVE  d # b /\ payload'[d] = payload[d] /\ header'[d] = header[d]
    BY <1>1 DEF ContentsInv, CompleteHasAllPackets
  <2> QED
    BY <1>4, <1>8
<1> QED
  BY <1>9, <1>10, <1>11, <1>12 DEF ContentsInv

LEMMA CompleteContents ==
  ASSUME OwnershipInv, ContentsInv, ProcessPacket, pending \in PacketNumbers,
         current_frame_buffer # dropped_frame_buffer, CompleteFrame
  PROVE  ContentsInv'
<1> USE DEF OwnershipInv, TypeOK
<1> PICK b \in Buffers, f \in Frames :
      /\ current_frame_buffer = b /\ current_frame_buffer_id = b
      /\ current_frame_seen = f /\ frame_buffer_map[f] = b
      /\ StorePayload /\ downstream[b] = 0
      /\ \A g \in Frames : frame_buffer_map[g] = b => g = f
  BY StoredInBuffer
<1>1. /\ UNCHANGED <<arrived, timed_out>>
      /\ current_frame_seen' = default_frame_number
      /\ pending' \notin PacketNumbers
      /\ header[b].total_packets_received + 1 = num_fem_frame_packets
  BY DEF CompleteFrame, ProcessPacket, ResetFrameSeen, IsLast, PacketNumbers,
         NoPacket
<1>2. b # NoBuffer /\ b # dropped_frame_buffer /\ b \in AllBuffers
  BY BuffersAssumption DEF AllBuffers
<1>3. header[b] \in FrameHeader
  BY <1>2 DEF ContentTyped
<1>4. Filling(f)
  BY <1>2 DEF ContentsInv, FillingInv
<1>5. /\ frame_buffer_map'[f] = NoBuffer
      /\ \A g \in Frames : g # f => frame_buffer_map'[g] = frame_buffer_map[g]
      /\ announced'[f] = 1
      /\ \A g \in Frames : g # f => announced'[g] = announced[g]
  <2>1. frame_buffer_map' = [frame_buffer_map EXCEPT ![f] = NoBuffer]
        /\ announced' = [announced EXCEPT ![f] = @ + 1]
    BY <1>4 DEF CompleteFrame, Erase, Announce, Filling
  <2> QED
    BY <1>4, <2>1 DEF BuffersTyped, HistoryTyped, Filling
<1>6. header'[b] = [Received(header[b]) EXCEPT !.frame_state = "complete"]
      /\ \A d \in Buffers : d # b =>
           header'[d] = header[d] /\ downstream'[d] = downstream[d]
  BY <1>2 DEF CompleteFrame, HandOver, ContentTyped, BuffersTyped, AllBuffers
<1>7. \A d \in Buffers : d # b => payload'[d] = payload[d]
  BY <1>2, PayloadStored DEF AllBuffers
\* The buffer is full: it holds as many packets as the frame has.
<1>8. Slots(b, f)' = PacketNumbers /\ Begun(f) = PacketNumbers
  <2>1. /\ Slots(b, f)' = Slots(b, f) \cup {pending}
        /\ Begun(f) = Slots(b, f) \cup {pending}
        /\ Cardinality(Slots(b, f)') = Cardinality(Slots(b, f)) + 1
    BY SlotAdded
  <2>2. Cardinality(Slots(b, f)') = Cardinality(PacketNumbers)
    BY <1>1, <1>4, <2>1, PacketsFinite DEF Filling
  <2>3. Slots(b, f)' \in SUBSET PacketNumbers
    BY DEF Slots
  <2> QED
    BY <2>1, <2>2, <2>3, PacketsFinite, FS_Subset
<1>9. FillingInv'
  <2> SUFFICES ASSUME NEW g \in Frames, frame_buffer_map'[g] # NoBuffer
               PROVE  Filling(g)'
    BY DEF FillingInv
  <2>1. g # f /\ frame_buffer_map'[g] = frame_buffer_map[g]
        /\ announced'[g] = announced[g]
    BY <1>5
  <2>2. frame_buffer_map[g] \in Buffers /\ frame_buffer_map[g] # b
    BY <2>1 DEF BuffersTyped
  <2>3. ~Awaits(g) /\ ~Awaits(g)'
    BY <1>1, <2>1 DEF Awaits
  <2> QED
    BY <1>6, <1>7, <2>1, <2>2, <2>3, FillingKept DEF ContentsInv, FillingInv
<1>10. ContentInv'
  <2> SUFFICES ASSUME NEW d \in Buffers, NEW g \in Frames,
                      NEW q \in PacketNumbers, payload'[d][q] = g
               PROVE  arrived[g][q] # 0
                      /\ (frame_buffer_map'[g] = d \/ announced'[g] # 0)
    BY <1>1 DEF ContentInv
  <2>1. CASE d = b /\ q = pending
    <3>1. g = f
      BY <1>2, <2>1, PayloadStored
    <3> QED
      BY <1>2, <1>5, <2>1, <3>1 DEF ContentsInv, ArrivalInv
  <2>2. CASE ~(d = b /\ q = pending)
    <3>1. payload[d][q] = g
      BY <1>2, <2>2, PayloadStored DEF AllBuffers
    <3> QED
      BY <1>5, <3>1 DEF ContentsInv, ContentInv
  <2> QED
    BY <2>1, <2>2
<1>11. ArrivalInv' /\ ScratchInv'
  BY <1>1, DefaultNotAFrame DEF ArrivalInv, ScratchInv
<1>12. AnnouncedInv'
  <2>1. \A q \in PacketNumbers : payload'[b][q] = f
    BY <1>8 DEF Slots
  <2>2. \A q \in PacketNumbers : arrived'[f][q] # 0
    BY <1>10, <2>1 DEF ContentInv
  <2> QED
    BY <1>1, <1>5, <2>2 DEF ContentsInv, AnnouncedInv
<1>13. FrameAnnouncedOnce'
  BY <1>5 DEF ContentsInv, FrameAnnouncedOnce
<1>14. CompleteHasAllPackets'
  <2>1. /\ header'[b].frame_number = f
        /\ header'[b].total_sof_marker_count = Count(PacketNumbers, 0)
        /\ header'[b].total_eof_marker_count =
             Count(PacketNumbers, num_fem_frame_packets - 1)
    BY <1>3, <1>4, <1>6, <1>8, ReceivedFields DEF Filling
  <2>2. 0 \in PacketNumbers /\ num_fem_frame_packets - 1 \in PacketNumbers
    BY PacketsNat DEF PacketNumbers
  <2>3. \A q \in PacketNumbers : payload'[b][q] = f
    BY <1>8 DEF Slots
  <2>4. /\ header'[b].total_sof_marker_count = 1
        /\ header'[b].total_eof_marker_count = 1
    BY <2>1, <2>2 DEF Count
  <2>5. ASSUME NEW d \in Buffers, d # b, downstream'[d] > 0,
               header'[d].frame_state = "complete"
        PROVE  /\ \A q \in PacketNumbers : payload'[d][q] = header'[d].frame_number
               /\ header'[d].total_sof_marker_count = 1
               /\ header'[d].total_eof_marker_count = 1
    BY <1>6, <1>7, <2>5 DEF ContentsInv, CompleteHasAllPackets
  <2> QED
    BY <2>1, <2>3, <2>4, <2>5 DEF CompleteHasAllPackets
<1> QED
  BY <1>9, <1>10, <1>11, <1>12, <1>13, <1>14 DEF ContentsInv

LEMMA IgnoreContents ==
  ASSUME ContentsInv, ProcessPacket, pending \notin PacketNumbers
  PROVE  ContentsInv'
<1>1. /\ UNCHANGED <<frame_buffer_map, current_frame_seen, current_frame_buffer,
                     header, payload, downstream, announced, arrived, timed_out>>
      /\ pending' \notin PacketNumbers
  BY DEF ProcessPacket, CollectPacket, CompleteWhileDropping, CompleteFrame,
         IgnorePacket, current, PacketNumbers, NoPacket
<1>2. ASSUME NEW f \in Frames, Filling(f), frame_buffer_map[f] # NoBuffer
      PROVE  Filling(f)'
  BY <1>1, <1>2, FillingKept DEF Awaits
<1>3. FillingInv'
  BY <1>1, <1>2 DEF ContentsInv, FillingInv
<1> QED
  BY <1>1, <1>3
  DEF ContentsInv, ArrivalInv, ContentInv, AnnouncedInv, ScratchInv,
      FrameAnnouncedOnce, CompleteHasAllPackets

LEMMA PayloadHandlerContents ==
  ASSUME OwnershipInv, ContentsInv, ProcessPacket
  PROVE  ContentsInv'
<1>1. CASE pending \notin PacketNumbers
  BY <1>1, IgnoreContents
<1>2. CASE pending \in PacketNumbers /\ current_frame_buffer = dropped_frame_buffer
  BY <1>2, ScratchContents
<1>3. CASE pending \in PacketNumbers /\ current_frame_buffer # dropped_frame_buffer
  <2>1. CollectPacket \/ CompleteWhileDropping \/ CompleteFrame
    BY <1>3 DEF ProcessPacket, IgnorePacket, PacketNumbers, IgnoredPacket
  <2> QED
    BY <1>3, <2>1, CollectContents, CompleteContents
<1> QED
  BY <1>1, <1>2, <1>3

-----------------------------------------------------------------------------
(* The timeout and the other steps *)

LEMMA ReleaseTimedOutContents ==
  ASSUME OwnershipInv, ContentsInv, NEW f \in Frames, ReleaseTimedOut(f)
  PROVE  ContentsInv'
<1> USE DEF OwnershipInv, TypeOK
<1> DEFINE b == frame_buffer_map[f]
<1>1. b \in Buffers /\ b # NoBuffer /\ pending = NoPacket
      /\ pending \notin PacketNumbers /\ pending' \notin PacketNumbers
  BY BuffersAssumption
  DEF ReleaseTimedOut, MonitorInv, BuffersTyped, PacketNumbers, NoPacket
<1>2. Filling(f) /\ announced[f] = 0
  BY <1>1 DEF ContentsInv, FillingInv, Filling
<1>3. /\ UNCHANGED <<payload, arrived, current_frame_seen, current_frame_buffer>>
      /\ timed_out' = timed_out \cup {f}
      /\ frame_buffer_map'[f] = NoBuffer
      /\ \A g \in Frames : g # f => frame_buffer_map'[g] = frame_buffer_map[g]
      /\ announced'[f] = 1
      /\ \A g \in Frames : g # f => announced'[g] = announced[g]
  <2>1. frame_buffer_map' = [frame_buffer_map EXCEPT ![f] = NoBuffer]
        /\ announced' = [announced EXCEPT ![f] = @ + 1]
    BY DEF ReleaseTimedOut, Erase, Announce
  <2>2. /\ UNCHANGED <<payload, arrived, current_frame_seen, current_frame_buffer>>
        /\ timed_out' = timed_out \cup {f}
    BY DEF ReleaseTimedOut, current
  <2> QED
    BY <1>2, <2>1, <2>2 DEF BuffersTyped, HistoryTyped
<1>4. /\ header'[b].frame_state = "timedout"
      /\ \A d \in Buffers : d # b =>
           header'[d] = header[d] /\ downstream'[d] = downstream[d]
  <2>1. header[b] \in FrameHeader /\ b \in AllBuffers
    BY <1>1 DEF ContentTyped, AllBuffers
  <2>2. header' = [header EXCEPT ![b].frame_state = "timedout"]
        /\ downstream' = [downstream EXCEPT ![b] = @ + 1]
    BY DEF ReleaseTimedOut, HandOver
  <2> QED
    BY <1>1, <2>1, <2>2 DEF ContentTyped, BuffersTyped, FrameHeader, AllBuffers
<1>5. FillingInv'
  <2> SUFFICES ASSUME NEW g \in Frames, frame_buffer_map'[g] # NoBuffer
               PROVE  Filling(g)'
    BY DEF FillingInv
  <2>1. g # f /\ frame_buffer_map'[g] = frame_buffer_map[g]
        /\ announced'[g] = announced[g] /\ Filling(g)
    BY <1>3 DEF ContentsInv, FillingInv
  <2>2. frame_buffer_map[g] \in Buffers /\ frame_buffer_map[g] # b
    BY <1>1, <2>1 DEF BuffersTyped, BufferOwnership
  <2> QED
    BY <1>1, <1>3, <1>4, <2>1, <2>2, FillingKept DEF Awaits
<1>6. ContentInv'
  BY <1>3 DEF ContentsInv, ContentInv
<1>7. ArrivalInv' /\ ScratchInv' /\ AnnouncedInv' /\ FrameAnnouncedOnce'
  BY <1>1, <1>3 DEF ContentsInv, ArrivalInv, ScratchInv, AnnouncedInv,
                    FrameAnnouncedOnce
<1>8. CompleteHasAllPackets'
  <2> SUFFICES ASSUME NEW d \in Buffers, downstream'[d] > 0,
                      header'[d].frame_state = "complete"
               PROVE  d # b /\ downstream[d] > 0 /\ header'[d] = header[d]
    BY <1>3 DEF ContentsInv, CompleteHasAllPackets
  <2> QED
    BY <1>4
<1> QED
  BY <1>5, <1>6, <1>7, <1>8 DEF ContentsInv

\* Steps that touch neither a frame's content nor its place in the map.
LEMMA OtherContents ==
  ASSUME OwnershipInv, ContentsInv,
         \/ IgnorePacketHeader
         \/ MonitorBuffers
         \/ Tick
         \/ \E b \in Buffers : ProcessorReleases(b) \/ PushEmptyBuffer(b)
         \/ UNCHANGED vars
  PROVE  ContentsInv'
<1> USE DEF OwnershipInv, TypeOK
<1>1. /\ UNCHANGED <<frame_buffer_map, current_frame_seen, current_frame_buffer,
                     header, payload, announced, arrived, timed_out>>
      /\ \/ pending' = pending
         \/ pending \notin PacketNumbers /\ pending' \notin PacketNumbers
  <2>1. CASE IgnorePacketHeader
    BY <2>1 DEF IgnorePacketHeader, Idle, current, history, PacketNumbers,
                NoPacket, IgnoredPacket
  <2>2. CASE MonitorBuffers \/ Tick
    BY <2>2 DEF MonitorBuffers, Tick, current, history
  <2>3. CASE \E b \in Buffers : ProcessorReleases(b) \/ PushEmptyBuffer(b)
    BY <2>3 DEF ProcessorReleases, PushEmptyBuffer, current, history
  <2>4. CASE UNCHANGED vars
    BY <2>4 DEF vars, current, history
  <2> QED
    BY <2>1, <2>2, <2>3, <2>4
<1>2. \A d \in Buffers : downstream'[d] > 0 => downstream[d] > 0
  <2>1. CASE UNCHANGED downstream
    BY <2>1
  <2>2. ASSUME NEW b \in Buffers, ProcessorReleases(b)
        PROVE  \A d \in Buffers : downstream'[d] > 0 => downstream[d] > 0
    BY <2>2 DEF ProcessorReleases, BuffersTyped
  <2> QED
    BY <2>1, <2>2
    DEF IgnorePacketHeader, MonitorBuffers, Tick, PushEmptyBuffer, vars
<1>3. ASSUME NEW f \in Frames, Filling(f), frame_buffer_map[f] # NoBuffer
      PROVE  Filling(f)'
  BY <1>1, <1>3, FillingKept DEF Awaits
<1>4. FillingInv'
  BY <1>1, <1>3 DEF ContentsInv, FillingInv
<1> QED
  BY <1>1, <1>2, <1>4
  DEF ContentsInv, ArrivalInv, ContentInv, AnnouncedInv, ScratchInv,
      FrameAnnouncedOnce, CompleteHasAllPackets

LEMMA ContentsStep ==
  ASSUME ~LateArrivals, MaxCopies <= 1, OwnershipInv, ContentsInv, [Next]_vars
  PROVE  OwnershipInv' /\ ContentsInv'
<1>1. ContentsInv'
  BY HeaderHandlerContents, PayloadHandlerContents, ReleaseTimedOutContents,
     OtherContents DEF Next
<1> QED
  BY <1>1, OwnershipStep

\* A network that neither duplicates packets nor delays them past their
\* frame's timeout: the frame processor gets each frame at most once, as
\* complete or as timed out, never as both.
THEOREM FramesAnnouncedOnce ==
  ASSUME ~LateArrivals, MaxCopies <= 1
  PROVE  Spec => []FrameAnnouncedOnce
<1>1. Init => OwnershipInv /\ ContentsInv
  BY InitOwnership, InitContents
<1>2. OwnershipInv /\ ContentsInv /\ [Next]_vars => (OwnershipInv /\ ContentsInv)'
  BY ContentsStep
<1>3. ContentsInv => FrameAnnouncedOnce
  BY DEF ContentsInv
<1> QED
  BY <1>1, <1>2, <1>3, PTL DEF Spec

\* On such a network a frame handed over as complete holds each of its own
\* packets, and nothing of the frame that was in its buffer before, though
\* the decoder only counts packets.
THEOREM CompleteFramesWhole ==
  ASSUME ~LateArrivals, MaxCopies <= 1
  PROVE  Spec => []CompleteHasAllPackets
<1>1. Init => OwnershipInv /\ ContentsInv
  BY InitOwnership, InitContents
<1>2. OwnershipInv /\ ContentsInv /\ [Next]_vars => (OwnershipInv /\ ContentsInv)'
  BY ContentsStep
<1>3. ContentsInv => CompleteHasAllPackets
  BY DEF ContentsInv
<1> QED
  BY <1>1, <1>2, <1>3, PTL DEF Spec
-----------------------------------------------------------------------------
(* The loss counter *)

\* A frame that has timed out is not mapped again, so its share of the losses is
\* added once.
LossInv ==
  /\ \A f \in Frames : frame_buffer_map[f] # NoBuffer => f \notin timed_out
  /\ LossesCounted

\* The packets of frame f that have not arrived.
NeverArrived(f) == {p \in PacketNumbers : arrived[f][p] = 0}

LEMMA MissingFinite ==
  ASSUME TypeOK
  PROVE  /\ IsFiniteSet(timed_out) /\ Cardinality(timed_out) \in Nat
         /\ IsFiniteSet(MissingPackets) /\ Cardinality(MissingPackets) \in Nat
<1>1. timed_out \in SUBSET Frames
  BY DEF TypeOK, HistoryTyped
<1>2. IsFiniteSet(timed_out)
  BY <1>1, FS_Subset, FramesAssumption
<1>3. MissingPackets \in SUBSET (timed_out \X PacketNumbers)
  BY DEF MissingPackets
<1>4. IsFiniteSet(timed_out \X PacketNumbers)
  BY <1>2, PacketsFinite, FS_Product
<1> QED
  BY <1>2, <1>3, <1>4, FS_Subset, FS_CardinalityType

LEMMA ShareOfLosses ==
  ASSUME NEW k \in Nat, NEW n \in Nat, k + 1 <= n
  PROVE  k * num_fem_frame_packets + num_fem_frame_packets
           <= n * num_fem_frame_packets
<1>1. /\ (k + 1) * num_fem_frame_packets
           = k * num_fem_frame_packets + num_fem_frame_packets
      /\ (n - (k + 1)) * num_fem_frame_packets \in Nat
      /\ n * num_fem_frame_packets
           = (k + 1) * num_fem_frame_packets
               + (n - (k + 1)) * num_fem_frame_packets
  BY PacketsNat
<1> QED
  BY <1>1, PacketsNat

\* The steps that neither give up on a frame nor add to the losses.
LEMMA LossKept ==
  ASSUME TypeOK, LossInv, UNCHANGED <<timed_out, packets_lost>>,
         \A f \in Frames : frame_buffer_map'[f] # NoBuffer =>
           frame_buffer_map[f] # NoBuffer \/ f \notin timed_out,
         \A f \in timed_out : arrived'[f] = arrived[f]
  PROVE  LossInv'
<1>1. MissingPackets' = MissingPackets
  BY DEF MissingPackets
<1> QED
  BY <1>1 DEF LossInv, LossesCounted

LEMMA HeaderHandlerLoss ==
  ASSUME TypeOK, LossInv, ~LateArrivals,
         NEW f \in Frames, NEW p \in PacketNumbers,
         ProcessPacketHeader(f, p)
  PROVE  LossInv'
<1> USE DEF ProcessPacketHeader
<1>1. /\ f \notin timed_out /\ UNCHANGED <<timed_out, packets_lost>>
      /\ arrived' = [arrived EXCEPT ![f][p] = @ + 1]
  BY DEF Arrives, counters
<1>2. \A g \in timed_out : arrived'[g] = arrived[g]
  BY <1>1 DEF TypeOK, HistoryTyped
<1>3. \A g \in Frames \ {f} : frame_buffer_map'[g] = frame_buffer_map[g]
  BY DEF SameFrame, DropFrame, AllocateBuffer, RevisitFrame, TypeOK, BuffersTyped
<1> QED
  BY <1>1, <1>2, <1>3, LossKept

LEMMA ReleaseTimedOutLoss ==
  ASSUME TypeOK, MonitorInv, FillingInv, ContentInv, LossInv,
         Cardinality(Frames) * num_fem_frame_packets < CounterModulus,
         NEW f \in Frames, ReleaseTimedOut(f)
  PROVE  LossInv'
<1> DEFINE b == frame_buffer_map[f]
           short == num_fem_frame_packets - Cardinality(Slots(b, f))
<1>1. /\ b \in Buffers /\ b # NoBuffer
      /\ timed_out' = timed_out \cup {f}
      /\ arrived' = arrived
      /\ frame_buffer_map' = [frame_buffer_map EXCEPT ![f] = NoBuffer]
      /\ packets_lost' = (packets_lost + PacketsLost(header[b])) % CounterModulus
  BY BuffersAssumption
  DEF ReleaseTimedOut, Erase, MonitorInv, TypeOK, BuffersTyped
<1>2. f \notin timed_out /\ timed_out \in SUBSET Frames
  BY <1>1 DEF LossInv, TypeOK, HistoryTyped
<1>3. header[b].total_packets_received = Cardinality(Slots(b, f))
  BY <1>1 DEF FillingInv, Filling
<1>4. Slots(b, f) \in SUBSET PacketNumbers /\ NeverArrived(f) \in SUBSET PacketNumbers
  BY DEF Slots, NeverArrived
<1>5. /\ IsFiniteSet(Slots(b, f)) /\ Cardinality(Slots(b, f)) \in Nat
      /\ Cardinality(Slots(b, f)) <= num_fem_frame_packets
  BY <1>4, PacketsFinite, FS_Subset, FS_CardinalityType
<1>6. short \in 0 .. num_fem_frame_packets
  BY <1>5, PacketsNat
\* The packets that have not arrived are among those without a payload.
<1>7. /\ IsFiniteSet(NeverArrived(f)) /\ Cardinality(NeverArrived(f)) \in Nat
      /\ Cardinality(NeverArrived(f)) <= short
  <2>1. PacketNumbers \cap Slots(b, f) = Slots(b, f)
    BY <1>4
  <2>2. /\ IsFiniteSet(PacketNumbers \ Slots(b, f))
        /\ Cardinality(PacketNumbers \ Slots(b, f)) = short
    BY <2>1, PacketsFinite, FS_Difference
  <2>3. NeverArrived(f) \in SUBSET (PacketNumbers \ Slots(b, f))
    BY <1>1 DEF ContentInv, NeverArrived, Slots
  <2> QED
    BY <2>2, <2>3, FS_Subset, FS_CardinalityType
<1>8. /\ IsFiniteSet(MissingPackets) /\ Cardinality(MissingPackets) \in Nat
      /\ IsFiniteSet(timed_out) /\ Cardinality(timed_out) \in Nat
  BY MissingFinite
\* One more frame is given up.
<1>9. /\ Cardinality(timed_out') = Cardinality(timed_out) + 1
      /\ Cardinality(timed_out') <= Cardinality(Frames)
      /\ Cardinality(Frames) \in Nat
  <2>1. timed_out' \in SUBSET Frames
    BY <1>1, <1>2
  <2> QED
    BY <1>1, <1>2, <1>8, <2>1, FramesAssumption, FS_AddElement, FS_Subset,
       FS_CardinalityType
<1>10. Cardinality(MissingPackets') <= Cardinality(MissingPackets) + short
  <2> DEFINE New == {f} \X NeverArrived(f)
  <2>1. MissingPackets' = MissingPackets \cup New
    BY <1>1 DEF MissingPackets, NeverArrived
  <2>2. IsFiniteSet(New) /\ Cardinality(New) = Cardinality(NeverArrived(f))
    <3>1. IsFiniteSet({f}) /\ Cardinality({f}) = 1
      BY FS_Singleton
    <3>2. IsFiniteSet(New)
          /\ Cardinality(New) = Cardinality({f}) * Cardinality(NeverArrived(f))
      BY <1>7, <3>1, FS_Product
    <3> QED
      BY <1>7, <3>1, <3>2
  <2> HIDE DEF New
  <2>3. /\ Cardinality(MissingPackets \cup New) = Cardinality(MissingPackets)
             + Cardinality(New) - Cardinality(MissingPackets \cap New)
        /\ Cardinality(MissingPackets \cap New) \in Nat
    <3>1. MissingPackets \cap New \in SUBSET MissingPackets
      OBVIOUS
    <3> QED
      BY <1>8, <2>2, <3>1, FS_Union, FS_Subset, FS_CardinalityType
  <2> QED
    BY <1>6, <1>7, <1>8, <2>1, <2>2, <2>3
<1> HIDE DEF short
<1>11. /\ packets_lost \in Nat /\ packets_lost >= Cardinality(MissingPackets)
       /\ packets_lost <= Cardinality(timed_out) * num_fem_frame_packets
  BY DEF LossInv, LossesCounted, TypeOK, CountersTyped, Counter
\* The counter does not wrap.
<1>12. packets_lost' = packets_lost + short
       /\ packets_lost' <= Cardinality(timed_out') * num_fem_frame_packets
  <2>1. /\ Cardinality(timed_out) * num_fem_frame_packets + num_fem_frame_packets
             <= Cardinality(Frames) * num_fem_frame_packets
        /\ Cardinality(timed_out) * num_fem_frame_packets + num_fem_frame_packets
             <= Cardinality(timed_out') * num_fem_frame_packets
    BY <1>8, <1>9, ShareOfLosses
  <2> DEFINE all == Cardinality(Frames) * num_fem_frame_packets
             before == Cardinality(timed_out) * num_fem_frame_packets
             after == Cardinality(timed_out') * num_fem_frame_packets
  <2>2. all \in Nat /\ before \in Nat /\ after \in Nat
    BY <1>8, <1>9, PacketsNat
  <2>3. /\ before + num_fem_frame_packets <= all
        /\ before + num_fem_frame_packets <= after
        /\ packets_lost <= before /\ all < CounterModulus
    BY <1>11, <2>1
  <2>4. PacketsLost(header[b]) = short % CounterModulus
    BY <1>3 DEF PacketsLost, short
  <2> HIDE DEF all, before, after, b
  <2>5. short % CounterModulus = short
        /\ (packets_lost + short) % CounterModulus = packets_lost + short
        /\ packets_lost + short <= after
    BY <1>6, <1>11, <2>2, <2>3, PacketsNat, BoundsAssumption
  <2> QED
    BY <1>1, <2>4, <2>5 DEF after
<1>13. \A g \in Frames : frame_buffer_map'[g] # NoBuffer => g \notin timed_out'
  BY <1>1 DEF LossInv, TypeOK, BuffersTyped
<1>14. packets_lost' >= Cardinality(MissingPackets')
  <2>1. MissingPackets' \in SUBSET (timed_out' \X PacketNumbers)
        /\ IsFiniteSet(timed_out')
    BY <1>1, <1>8, FS_AddElement DEF MissingPackets
  <2>2. IsFiniteSet(MissingPackets') /\ Cardinality(MissingPackets') \in Nat
    BY <2>1, PacketsFinite, FS_Product, FS_Subset, FS_CardinalityType
  <2> QED
    BY <1>6, <1>8, <1>10, <1>11, <1>12, <2>2
<1> QED
  BY <1>12, <1>13, <1>14 DEF LossInv, LossesCounted

LEMMA OtherLoss ==
  ASSUME TypeOK, LossInv,
         \/ ProcessPacket \/ IgnorePacketHeader \/ MonitorBuffers \/ Tick
         \/ \E b \in Buffers : ProcessorReleases(b) \/ PushEmptyBuffer(b)
         \/ UNCHANGED vars
  PROVE  LossInv'
<1>1. UNCHANGED <<timed_out, packets_lost, arrived>>
  BY DEF ProcessPacket, IgnorePacketHeader, MonitorBuffers, Tick,
         ProcessorReleases, PushEmptyBuffer, vars, counters, history
<1>2. frame_buffer_map' = frame_buffer_map \/ Erase(current_frame_seen)
  BY DEF ProcessPacket, CollectPacket, CompleteWhileDropping, CompleteFrame,
         IgnorePacket, IgnorePacketHeader, MonitorBuffers, Tick,
         ProcessorReleases, PushEmptyBuffer, vars
<1>3. \A f \in Frames : frame_buffer_map'[f] # NoBuffer =>
        frame_buffer_map[f] # NoBuffer
  BY <1>2 DEF Erase, TypeOK, BuffersTyped
<1> QED
  BY <1>1, <1>3, LossKept

LEMMA InitLoss == Init => LossInv
<1> SUFFICES ASSUME Init PROVE LossInv
  OBVIOUS
<1>1. MissingPackets = {} /\ timed_out = {}
  BY DEF Init, MissingPackets
<1>2. Cardinality(MissingPackets) = 0 /\ Cardinality(timed_out) = 0
  BY <1>1, FS_EmptySet
<1>3. packets_lost = 0
      /\ \A f \in Frames : frame_buffer_map[f] = NoBuffer
  BY DEF Init
<1> QED
  BY <1>2, <1>3, PacketsNat DEF LossInv, LossesCounted

\* As long as 32 bits can count all the packets of all the frames, the loss
\* counter hides no loss and invents none: it counts at least the packets that
\* never arrived of the frames monitor_buffers gave up, and at most all their
\* packets.
THEOREM LossesAreCounted ==
  ASSUME ~LateArrivals, MaxCopies <= 1,
         Cardinality(Frames) * num_fem_frame_packets < CounterModulus
  PROVE  Spec => []LossesCounted
<1> DEFINE Inv == OwnershipInv /\ ContentsInv /\ LossInv
<1>1. Init => Inv
  BY InitOwnership, InitContents, InitLoss
<1>2. Inv /\ [Next]_vars => Inv'
  <2> SUFFICES ASSUME Inv, [Next]_vars PROVE Inv'
    OBVIOUS
  <2>1. OwnershipInv' /\ ContentsInv'
    BY ContentsStep
  <2>2. TypeOK /\ MonitorInv /\ FillingInv /\ ContentInv
    BY DEF OwnershipInv, ContentsInv
  <2>3. LossInv'
    BY <2>2, HeaderHandlerLoss, ReleaseTimedOutLoss, OtherLoss DEF Next
  <2> QED
    BY <2>1, <2>3
<1>3. Inv => LossesCounted
  BY DEF LossInv
<1> QED
  BY <1>1, <1>2, <1>3, PTL DEF Spec
=============================================================================
