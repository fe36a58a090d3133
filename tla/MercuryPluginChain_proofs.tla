---------------------- MODULE MercuryPluginChain_proofs ----------------------
(***************************************************************************)
(* Theorems about the plugin chain, for any pixels, any number of frames   *)
(* and of calls of configure, and any period of the histograms.            *)
(***************************************************************************)
EXTENDS MercuryPluginChain, TLAPS, FiniteSetTheorems, SequenceTheorems

LEMMA HitsCount ==
  ASSUME NEW hits \in SUBSET Pixels
  PROVE  Cardinality(hits) \in Nat
BY ChainAssumption, FS_Subset, FS_CardinalityType

\* A frame and a spectrum are told apart by their datasets.
LEMMA ItemKinds ==
  /\ \A item \in Frame : item.dataset \notin Spectra
  /\ \A item \in PushedSpectrum : item.dataset \in Spectra
BY DEF Frame, PushedSpectrum, Spectra

LEMMA TailTyped ==
  ASSUME NEW S, NEW s \in Seq(S), s # <<>>
  PROVE  /\ Head(s) \in S /\ Tail(s) \in Seq(S)
         /\ \A k \in DOMAIN Tail(s) : k + 1 \in DOMAIN s /\ Tail(s)[k] = s[k + 1]
         /\ Len(s) > 0 /\ Head(s) = s[1] /\ 1 \in DOMAIN s
OBVIOUS

\* What is at the places of a sequence that was appended to.
LEMMA AppendPlaces ==
  ASSUME NEW S, NEW s \in Seq(S), NEW x
  PROVE  \A k \in DOMAIN Append(s, x) :
           (k \in DOMAIN s /\ Append(s, x)[k] = s[k]) \/ Append(s, x)[k] = x
<1>1. Len(s) \in Nat /\ DOMAIN s = 1 .. Len(s)
  BY LenProperties
<1>2. /\ DOMAIN Append(s, x) = 1 .. (Len(s) + 1)
      /\ Append(s, x)[Len(s) + 1] = x
      /\ \A k \in 1 .. Len(s) : Append(s, x)[k] = s[k]
  BY <1>1
<1> QED
  BY <1>1, <1>2

-----------------------------------------------------------------------------
(* Types *)

LEMMA InitTypes == Init => TypeOK
<1> SUFFICES ASSUME Init PROVE TypeOK
  OBVIOUS
<1>1. frames_received \in 0 .. MaxFrames /\ configurations \in 0 .. MaxConfigurations
  BY ChainAssumption DEF Init
<1>2. memory \in Seq(Nat) /\ DOMAIN memory = 1 .. 2
  BY DEF Init
<1>3. spectra \in [Spectra -> DOMAIN memory]
  BY <1>2 DEF Init
<1>4. /\ reorder \in [step : {"idle", "raw", "load", "increment"}, number : Nat,
                      hits : SUBSET Pixels, loaded : Nat]
      /\ histogram \in [step : HistogramSteps, frame : Frame, loaded : Nat]
  BY DEF Init, NoReorder, NoHistogram, NoFrame, HistogramSteps, Frame
<1>5. /\ frame_number \in Nat /\ write_raw_data \in BOOLEAN
      /\ nextframe_queue \in Seq(Frame) /\ histogram_queue \in Seq(Frame)
      /\ last_frame_number \in Nat \cup {-1} /\ last_frame \subseteq Pixels
      /\ frames_processed \in Nat /\ histograms_written \in Nat
      /\ configuring \in ConfigureSteps
      /\ writer_queue \in Seq(Frame \cup PushedSpectrum)
      /\ written \in Seq(Frame \cup WrittenSpectrum)
  BY DEF Init, ConfigureSteps
<1> QED
  BY <1>1, <1>2, <1>3, <1>4, <1>5 DEF TypeOK

LEMMA ReorderTypes ==
  ASSUME TypeOK,
         \/ \E hits \in SUBSET Pixels : ReorderProcessed(hits)
         \/ ReorderRaw
         \/ ReorderIncrement
         \/ ConfigureReorder
  PROVE  TypeOK'
<1> USE DEF TypeOK
<1>1. ASSUME NEW hits \in SUBSET Pixels, ReorderProcessed(hits) PROVE TypeOK'
  <2>1. nextframe_queue' \in Seq(Frame)
    BY <1>1 DEF ReorderProcessed, PushNextFrame, Frame
  <2>2. frames_received' \in 0 .. MaxFrames
    BY <1>1, ChainAssumption DEF ReorderProcessed
  <2>3. reorder' \in [step : {"idle", "raw", "load", "increment"}, number : Nat,
                      hits : SUBSET Pixels, loaded : Nat]
    BY <1>1 DEF ReorderProcessed
  <2> QED
    BY <1>1, <2>1, <2>2, <2>3
    DEF ReorderProcessed, nextframeVars, histogramVars, controlVars
<1>2. CASE ReorderRaw
  <2>1. nextframe_queue' \in Seq(Frame)
    <3> DEFINE raw == [dataset |-> "raw_frames", number |-> RawNumber,
                       hits |-> reorder.hits]
    <3>1. raw \in Frame
      BY DEF RawNumber, Frame
    <3>2. \/ nextframe_queue' = nextframe_queue
          \/ nextframe_queue' = Append(nextframe_queue, raw)
      <4>1. CASE write_raw_data
        BY <1>2, <4>1 DEF ReorderRaw, PushNextFrame
      <4>2. CASE ~write_raw_data
        BY <1>2, <4>2 DEF ReorderRaw
      <4> QED
        BY <4>1, <4>2
    <3>3. nextframe_queue \in Seq(Frame)
      OBVIOUS
    <3> HIDE DEF raw, TypeOK
    <3> QED
      BY <3>1, <3>2, <3>3
  <2>2. reorder' \in [step : {"idle", "raw", "load", "increment"}, number : Nat,
                      hits : SUBSET Pixels, loaded : Nat]
    BY <1>2 DEF ReorderRaw
  <2> QED
    BY <1>2, <2>1, <2>2
    DEF ReorderRaw, nextframeVars, histogramVars, controlVars
<1>3. CASE ReorderIncrement
  <2>1. frame_number' \in Nat
        /\ reorder' \in [step : {"idle", "raw", "load", "increment"}, number : Nat,
                         hits : SUBSET Pixels, loaded : Nat]
    <3>1. CASE reorder.step = "load"
      BY <1>3, <3>1 DEF ReorderIncrement
    <3>2. CASE reorder.step = "increment"
      BY <1>3, <3>2 DEF ReorderIncrement, NoReorder
    <3> QED
      BY <1>3, <3>1, <3>2 DEF ReorderIncrement
  <2> QED
    BY <1>3, <2>1 DEF ReorderIncrement, nextframeVars, histogramVars, controlVars
<1>4. CASE ConfigureReorder
  <2>1. /\ frame_number' \in Nat /\ write_raw_data' \in BOOLEAN
        /\ configuring' \in ConfigureSteps /\ configurations' \in 0 .. MaxConfigurations
    <3>1. configuring' = "no" /\ configurations' = configurations + 1
          /\ configurations < MaxConfigurations
      BY <1>4 DEF ConfigureReorder, BeginConfigure
    <3>2. frame_number' \in Nat
      BY <1>4, ChainAssumption DEF ConfigureReorder
    <3>3. write_raw_data' \in BOOLEAN
      BY <1>4, Zenon DEF ConfigureReorder
    <3> QED
      BY <3>1, <3>2, <3>3, ChainAssumption DEF ConfigureSteps
  <2> QED
    BY <1>4, <2>1 DEF ConfigureReorder, nextframeVars, histogramVars
<1> QED
  BY <1>1, <1>2, <1>3, <1>4

LEMMA CorrectedTypes ==
  ASSUME NEW frame \in Frame
  PROVE  Corrected(frame) \in Frame /\ Corrected(frame).hits \subseteq Pixels
BY DEF Corrected, Frame

LEMMA NextFrameTypes ==
  ASSUME TypeOK, NextFrameProcess
  PROVE  TypeOK'
<1> USE DEF TypeOK
<1> DEFINE frame == Head(nextframe_queue)
<1>1. frame \in Frame /\ nextframe_queue' \in Seq(Frame)
  BY TailTyped DEF NextFrameProcess
<1>2. frame.number \in Nat
  BY <1>1 DEF Frame
<1>3. /\ histogram_queue' \in Seq(Frame)
      /\ last_frame_number' \in Nat \cup {-1} /\ last_frame' \subseteq Pixels
  <2>1. CASE frame.dataset = "raw_frames"
    <3>1. /\ histogram_queue' = Append(histogram_queue, frame)
          /\ UNCHANGED <<last_frame_number, last_frame>>
      BY <2>1 DEF NextFrameProcess, nextframeVars
    <3> QED
      BY <1>1, <3>1
  <2>2. CASE frame.dataset # "raw_frames"
    <3>1. histogram_queue' = Append(histogram_queue, Corrected(frame))
          /\ last_frame_number' = frame.number
          /\ last_frame' = Corrected(frame).hits
      BY <2>2 DEF NextFrameProcess, Remember
    <3> QED
      BY <1>1, <1>2, <3>1, CorrectedTypes
  <2> QED
    BY <2>1, <2>2
<1> QED
  BY <1>1, <1>3 DEF NextFrameProcess, reorderVars, histogramVars, controlVars

\* What a pushed spectrum is, and that its block exists.
LEMMA PushTypes ==
  ASSUME TypeOK, NEW dataset \in Spectra, PushSpectrum(dataset)
  PROVE  /\ spectra[dataset] \in DOMAIN memory /\ DOMAIN memory \subseteq Nat
         /\ \E item \in PushedSpectrum :
              /\ item.dataset = dataset /\ item.block = spectra[dataset]
              /\ item.counted = memory[item.block]
              /\ item.cleared = ~Uncleared(dataset)
              /\ writer_queue' = Append(writer_queue, item)
         /\ writer_queue' \in Seq(Frame \cup PushedSpectrum)
<1> USE DEF TypeOK
<1> DEFINE block == spectra[dataset]
           item == [dataset |-> dataset, block |-> block,
                    counted |-> memory[block], cleared |-> ~Uncleared(dataset)]
<1>1. block \in DOMAIN memory /\ DOMAIN memory \subseteq Nat
  OBVIOUS
<1>2. memory[block] \in Nat /\ (~Uncleared(dataset)) \in BOOLEAN
  BY <1>1 DEF Uncleared
<1>3. item \in PushedSpectrum
  BY <1>1, <1>2 DEF PushedSpectrum
<1>4. writer_queue' = Append(writer_queue, item)
  BY DEF PushSpectrum
<1>5. /\ item.dataset = dataset /\ item.block = spectra[dataset]
      /\ item.counted = memory[item.block]
      /\ item.cleared = ~Uncleared(dataset)
  OBVIOUS
<1>6. writer_queue' \in Seq(Frame \cup PushedSpectrum)
  BY <1>3, <1>4
<1> HIDE DEF item
<1> QED
  BY <1>1, <1>3, <1>4, <1>5, <1>6

LEMMA CountedTypes ==
  ASSUME TypeOK, NEW hits \in SUBSET Pixels
  PROVE  /\ Counted(hits) \in Seq(Nat) /\ DOMAIN Counted(hits) = DOMAIN memory
         /\ \A block \in DOMAIN memory : Counted(hits)[block] >= memory[block]
<1>1. Cardinality(hits) \in Nat
  BY HitsCount
<1>2. memory \in [1 .. Len(memory) -> Nat] /\ Len(memory) \in Nat
      /\ DOMAIN memory = 1 .. Len(memory)
  BY DEF TypeOK
<1>3. /\ DOMAIN Counted(hits) = DOMAIN memory
      /\ \A block \in DOMAIN memory :
           /\ Counted(hits)[block] \in Nat
           /\ Counted(hits)[block] >= memory[block]
  BY <1>1, <1>2 DEF Counted
<1>4. Counted(hits) \in [1 .. Len(memory) -> Nat]
  BY <1>2, <1>3 DEF Counted
<1> QED
  BY <1>2, <1>3, <1>4

LEMMA ClearedTypes ==
  ASSUME TypeOK
  PROVE  Cleared \in Seq(Nat) /\ DOMAIN Cleared = DOMAIN memory
<1>1. memory \in [1 .. Len(memory) -> Nat] /\ Len(memory) \in Nat
      /\ DOMAIN memory = 1 .. Len(memory)
  BY DEF TypeOK
<1>2. Cleared \in [1 .. Len(memory) -> Nat]
  BY <1>1 DEF Cleared
<1> QED
  BY <1>1, <1>2

LEMMA HistogramTypes ==
  ASSUME TypeOK, HistogramProcess
  PROVE  TypeOK'
<1> USE DEF TypeOK
<1>1. CASE HistogramTake
  <2> DEFINE frame == Head(histogram_queue)
  <2>1. frame \in Frame /\ histogram_queue' \in Seq(Frame)
    BY <1>1, TailTyped DEF HistogramTake
  <2>2. /\ writer_queue' \in Seq(Frame \cup PushedSpectrum)
        /\ memory' \in Seq(Nat) /\ DOMAIN memory' = DOMAIN memory
        /\ histogram' \in [step : HistogramSteps, frame : Frame, loaded : Nat]
    <3>1. CASE frame.dataset = "raw_frames"
      <4>1. /\ writer_queue' = Append(writer_queue, frame)
            /\ UNCHANGED <<histogram, memory>>
        BY <1>1, <3>1 DEF HistogramTake
      <4> QED
        BY <2>1, <4>1
    <3>2. CASE frame.dataset # "raw_frames"
      <4>1. /\ memory' = Counted(frame.hits) /\ writer_queue' = writer_queue
            /\ histogram' = [step |-> "check", frame |-> frame, loaded |-> 0]
        BY <1>1, <3>2 DEF HistogramTake
      <4>2. frame.hits \in SUBSET Pixels
        BY <2>1 DEF Frame
      <4>3. histogram' \in [step : HistogramSteps, frame : Frame, loaded : Nat]
        BY <2>1, <4>1 DEF HistogramSteps
      <4> QED
        BY <4>1, <4>2, <4>3, CountedTypes
    <3> QED
      BY <3>1, <3>2
  <2> QED
    BY <1>1, <2>1, <2>2
    DEF HistogramTake, reorderVars, nextframeVars, controlVars
<1>2. CASE HistogramCheck
  <2>1. histogram' \in [step : HistogramSteps, frame : Frame, loaded : Nat]
    BY <1>2 DEF HistogramCheck, HistogramGoesTo, HistogramSteps, Spectra
  <2> QED
    BY <1>2, <2>1 DEF HistogramCheck, reorderVars, nextframeVars, controlVars
<1>3. CASE HistogramPush
  <2>1. histogram' \in [step : HistogramSteps, frame : Frame, loaded : Nat]
        /\ histograms_written' \in Nat
    BY <1>3 DEF HistogramPush, HistogramGoesTo, HistogramSteps, Spectra
  <2>2. writer_queue' \in Seq(Frame \cup PushedSpectrum)
    BY <1>3, PushTypes DEF HistogramPush
  <2> QED
    BY <1>3, <2>1, <2>2
    DEF HistogramPush, reorderVars, nextframeVars, controlVars
<1>4. CASE HistogramPass
  <2>1. histogram' \in [step : HistogramSteps, frame : Frame, loaded : Nat]
    BY <1>4 DEF HistogramPass, HistogramGoesTo, HistogramSteps
  <2>2. writer_queue' \in Seq(Frame \cup PushedSpectrum)
    BY <1>4 DEF HistogramPass
  <2> QED
    BY <1>4, <2>1, <2>2
    DEF HistogramPass, reorderVars, nextframeVars, controlVars
<1>5. CASE HistogramIncrement
  <2>1. histogram' \in [step : HistogramSteps, frame : Frame, loaded : Nat]
        /\ frames_processed' \in Nat
    <3>1. CASE histogram.step = "load"
      BY <1>5, <3>1 DEF HistogramIncrement, HistogramSteps
    <3>2. CASE histogram.step = "increment"
      BY <1>5, <3>2 DEF HistogramIncrement, NoHistogram, NoFrame,
                        HistogramSteps, Frame
    <3> QED
      BY <1>5, <3>1, <3>2 DEF HistogramIncrement
  <2> QED
    BY <1>5, <2>1 DEF HistogramIncrement, reorderVars, nextframeVars, controlVars
<1>6. CASE HistogramWritten
  <2>1. histogram' \in [step : HistogramSteps, frame : Frame, loaded : Nat]
        /\ histograms_written' \in Nat
    BY <1>6 DEF HistogramWritten, HistogramGoesTo, HistogramSteps
  <2> QED
    BY <1>6, <2>1 DEF HistogramWritten, reorderVars, nextframeVars, controlVars
<1> QED
  BY <1>1, <1>2, <1>3, <1>4, <1>5, <1>6 DEF HistogramProcess

\* A spectrum points to a new block behind the others.
LEMMA AllocateTypes ==
  ASSUME TypeOK, NEW dataset \in Spectra, Allocate(dataset)
  PROVE  /\ memory' \in Seq(Nat) /\ spectra' \in [Spectra -> DOMAIN memory']
         /\ DOMAIN memory' = 1 .. (Len(memory) + 1) /\ DOMAIN memory = 1 .. Len(memory)
         /\ \A block \in DOMAIN memory : memory'[block] = memory[block]
         /\ spectra'[dataset] = Len(memory) + 1
         /\ \A d \in Spectra : d # dataset => spectra'[d] = spectra[d]
<1> USE DEF TypeOK
<1>1. /\ memory' \in Seq(Nat) /\ Len(memory') = Len(memory) + 1
      /\ Len(memory) \in Nat
      /\ DOMAIN memory' = 1 .. (Len(memory) + 1) /\ DOMAIN memory = 1 .. Len(memory)
      /\ \A block \in DOMAIN memory : memory'[block] = memory[block]
  BY SMTT(30) DEF Allocate
<1>2. spectra' = [spectra EXCEPT ![dataset] = Len(memory) + 1]
  BY <1>1 DEF Allocate
<1> QED
  BY <1>1, <1>2, SMTT(30)

LEMMA ControlTypes ==
  ASSUME TypeOK, ConfigureHistogram \/ FlushHistograms \/ InitialiseHistograms
  PROVE  TypeOK'
<1> USE DEF TypeOK
<1>1. CASE ConfigureHistogram
  <2>1. /\ configuring' \in ConfigureSteps /\ configurations' \in 0 .. MaxConfigurations
        /\ frames_processed' \in Nat
    BY <1>1, ChainAssumption, SMTT(30)
    DEF ConfigureHistogram, BeginConfigure, ConfigureSteps, Spectra
  <2> QED
    BY <1>1, <2>1 DEF ConfigureHistogram, reorderVars, nextframeVars
<1>2. CASE FlushHistograms
  <2>1. configuring' \in ConfigureSteps /\ frames_processed' \in Nat
    BY <1>2, SMTT(30) DEF FlushHistograms, ConfigureSteps, Spectra
  <2>2. writer_queue' \in Seq(Frame \cup PushedSpectrum)
    BY <1>2, PushTypes DEF FlushHistograms
  <2> QED
    BY <1>2, <2>1, <2>2 DEF FlushHistograms, reorderVars, nextframeVars
<1>3. CASE InitialiseHistograms
  <2>1. configuring' \in ConfigureSteps
    BY <1>3 DEF InitialiseHistograms, ConfigureSteps
  <2>2. memory' \in Seq(Nat) /\ spectra' \in [Spectra -> DOMAIN memory']
    <3>1. CASE Allocate("summed_spectra") \/ Allocate("pixel_spectra")
      BY <3>1, AllocateTypes DEF Spectra
    <3>2. CASE memory' = Cleared /\ UNCHANGED spectra
      BY <3>2, ClearedTypes
    <3> QED
      BY <1>3, <3>1, <3>2 DEF InitialiseHistograms
  <2> QED
    BY <1>3, <2>1, <2>2 DEF InitialiseHistograms, reorderVars, nextframeVars
<1> QED
  BY <1>1, <1>2, <1>3

\* What the writer writes of the item at the head of its queue.
LEMMA WriterTypes ==
  ASSUME TypeOK, FileWriterWrites,
         \A k \in DOMAIN writer_queue : writer_queue[k].dataset \in Spectra =>
           writer_queue[k].block \in DOMAIN memory
  PROVE  TypeOK'
<1> USE DEF TypeOK
<1> DEFINE item == Head(writer_queue)
<1>1. /\ item \in Frame \cup PushedSpectrum
      /\ writer_queue' \in Seq(Frame \cup PushedSpectrum)
      /\ item.dataset \in Spectra => item.block \in DOMAIN memory
  BY TailTyped DEF FileWriterWrites
<1>2. written' \in Seq(Frame \cup WrittenSpectrum)
  <2>1. CASE item.dataset \in Spectra
    <3>1. item \in PushedSpectrum
      BY <1>1, <2>1, ItemKinds
    <3>3. memory[item.block] \in Nat
      BY <1>1, <2>1, SMTT(30)
    <3>2. [dataset |-> item.dataset, counts |-> memory[item.block],
           counted |-> item.counted, cleared |-> item.cleared]
            \in WrittenSpectrum
      BY <3>1, <3>3 DEF PushedSpectrum, WrittenSpectrum
    <3> QED
      BY <2>1, <3>2 DEF FileWriterWrites
  <2>2. CASE item.dataset \notin Spectra
    BY <1>1, <2>2, ItemKinds DEF FileWriterWrites
  <2> QED
    BY <2>1, <2>2
<1> QED
  BY <1>1, <1>2
  DEF FileWriterWrites, reorderVars, nextframeVars, histogramVars, controlVars

-----------------------------------------------------------------------------
(* What a spectrum had counted when it was pushed is not lost, if it was    *)
(* cleared by then.                                                         *)

\* A spectrum in the writer's queue: if it was cleared, its block holds what it
\* had counted, and is none that configure has still to clear.
Preserved(item) ==
  item.dataset \in Spectra =>
    /\ item.block \in DOMAIN memory
    /\ item.cleared => item.counted <= memory[item.block]
    /\ \A d \in Spectra :
         Uncleared(d) /\ item.block = spectra[d] => ~item.cleared

QueuePreserved == \A k \in DOMAIN writer_queue : Preserved(writer_queue[k])

\* The spectra never share a block.
BlocksDistinct == spectra["summed_spectra"] # spectra["pixel_spectra"]

SpectraInv ==
  TypeOK /\ QueuePreserved /\ BlocksDistinct /\ PushedCountsAreWritten

LEMMA InitSpectra == Init => SpectraInv
<1> SUFFICES ASSUME Init PROVE SpectraInv
  OBVIOUS
<1>1. QueuePreserved /\ PushedCountsAreWritten
  BY DEF Init, QueuePreserved, PushedCountsAreWritten
<1>2. BlocksDistinct
  BY DEF Init, BlocksDistinct, Spectra
<1> QED
  BY <1>1, <1>2, InitTypes DEF SpectraInv

\* Items stay preserved while the memory grows and no block becomes uncleared.
LEMMA PreservedKept ==
  ASSUME TypeOK, NEW item \in Frame \cup PushedSpectrum, Preserved(item),
         DOMAIN memory' = DOMAIN memory, UNCHANGED spectra,
         \A block \in DOMAIN memory :
           memory'[block] \in Nat /\ memory'[block] >= memory[block],
         \A d \in Spectra : Uncleared(d)' => Uncleared(d)
  PROVE  Preserved(item)'
<1> SUFFICES ASSUME item.dataset \in Spectra
             PROVE  /\ item.block \in DOMAIN memory'
                    /\ item.cleared => item.counted <= memory'[item.block]
                    /\ \A d \in Spectra : Uncleared(d)' /\ item.block = spectra'[d]
                         => ~item.cleared
  BY DEF Preserved
<1>1. item \in PushedSpectrum
  BY ItemKinds
<1>2. /\ item.counted \in Nat /\ item.block \in DOMAIN memory
      /\ item.cleared => item.counted <= memory[item.block]
      /\ memory[item.block] \in Nat
  BY <1>1, SMTT(30) DEF PushedSpectrum, Preserved, TypeOK
<1>3. memory'[item.block] \in Nat /\ memory'[item.block] >= memory[item.block]
  BY <1>2
<1>4. item.cleared => item.counted <= memory'[item.block]
  BY <1>2, <1>3
<1>5. \A d \in Spectra : Uncleared(d) /\ item.block = spectra[d] => ~item.cleared
  BY DEF Preserved
<1> QED
  BY <1>2, <1>4, <1>5

\* A frame that is pushed, or a spectrum.
LEMMA FramePreserved ==
  ASSUME NEW frame \in Frame
  PROVE  Preserved(frame) /\ Preserved(frame)'
BY ItemKinds DEF Preserved

LEMMA PushPreserved ==
  ASSUME SpectraInv, NEW dataset \in Spectra, PushSpectrum(dataset),
         UNCHANGED <<memory, spectra>>,
         \A d \in Spectra : Uncleared(d)' <=> Uncleared(d)
  PROVE  QueuePreserved'
<1> USE DEF SpectraInv
<1>1. PICK item \in PushedSpectrum :
        /\ item.dataset = dataset /\ item.block = spectra[dataset]
        /\ item.counted = memory[item.block]
        /\ item.cleared = ~Uncleared(dataset)
        /\ writer_queue' = Append(writer_queue, item)
  BY PushTypes
<1>2. item.block \in DOMAIN memory /\ memory[item.block] \in Nat
  BY <1>1 DEF TypeOK
<1>3. Preserved(item)
  <2>1. item.counted <= memory[item.block]
    BY <1>1, <1>2
  <2>2. ASSUME NEW d \in Spectra, Uncleared(d), item.block = spectra[d]
        PROVE  ~item.cleared
    <3>1. d = dataset
      BY <1>1, <2>2 DEF BlocksDistinct, Spectra
    <3> QED
      BY <1>1, <2>2, <3>1
  <2> QED
    BY <1>2, <2>1, <2>2 DEF Preserved
<1>4. \A k \in DOMAIN writer_queue' :
        \/ k \in DOMAIN writer_queue /\ writer_queue'[k] = writer_queue[k]
        \/ writer_queue'[k] = item
  <2>1. writer_queue \in Seq(Frame \cup PushedSpectrum)
    BY DEF TypeOK
  <2> QED
    BY <1>1, <2>1, AppendPlaces
<1>5. \A k \in DOMAIN writer_queue' : Preserved(writer_queue'[k])
  BY <1>3, <1>4 DEF QueuePreserved
<1> QED
  BY <1>5 DEF QueuePreserved, Preserved

\* The steps that push no spectrum and leave the writer alone.
LEMMA QueueKept ==
  ASSUME SpectraInv,
         \/ writer_queue' = writer_queue
         \/ \E frame \in Frame : writer_queue' = Append(writer_queue, frame),
         DOMAIN memory' = DOMAIN memory, UNCHANGED spectra,
         \A block \in DOMAIN memory :
           memory'[block] \in Nat /\ memory'[block] >= memory[block],
         \A d \in Spectra : Uncleared(d)' => Uncleared(d)
  PROVE  QueuePreserved'
<1> USE DEF SpectraInv
<1>1. \A k \in DOMAIN writer_queue' :
        \/ /\ k \in DOMAIN writer_queue /\ writer_queue'[k] = writer_queue[k]
           /\ writer_queue[k] \in Frame \cup PushedSpectrum
        \/ writer_queue'[k] \in Frame
  <2>1. /\ writer_queue \in Seq(Frame \cup PushedSpectrum)
        /\ \A k \in DOMAIN writer_queue : writer_queue[k] \in Frame \cup PushedSpectrum
    BY DEF TypeOK
  <2>2. CASE writer_queue' = writer_queue
    BY <2>1, <2>2
  <2>3. ASSUME NEW frame \in Frame, writer_queue' = Append(writer_queue, frame),
               NEW k \in DOMAIN writer_queue'
        PROVE  \/ k \in DOMAIN writer_queue /\ writer_queue'[k] = writer_queue[k]
               \/ writer_queue'[k] \in Frame
    BY <2>1, <2>3, AppendPlaces
  <2> QED
    BY <2>1, <2>2, <2>3
<1>2. ASSUME NEW item \in Frame \cup PushedSpectrum, Preserved(item)
      PROVE  Preserved(item)'
  BY <1>2, PreservedKept
<1>3. ASSUME NEW k \in DOMAIN writer_queue' PROVE Preserved(writer_queue[k])'
  <2>1. CASE k \in DOMAIN writer_queue /\ writer_queue'[k] = writer_queue[k]
    <3> DEFINE item == writer_queue[k]
    <3>1. item \in Frame \cup PushedSpectrum /\ Preserved(item)
      BY <2>1 DEF QueuePreserved, TypeOK
    <3> QED
      BY <1>2, <2>1, <3>1 DEF Preserved
  <2>2. CASE writer_queue'[k] \in Frame
    BY <2>2, ItemKinds DEF Preserved
  <2> QED
    BY <1>1, <2>1, <2>2
<1> QED
  BY <1>3 DEF QueuePreserved

\* Steps of threads that do not touch the spectra.
LEMMA OtherPluginsSpectra ==
  ASSUME SpectraInv,
         \/ \E hits \in SUBSET Pixels : ReorderProcessed(hits)
         \/ ReorderRaw
         \/ ReorderIncrement
         \/ NextFrameProcess
         \/ ConfigureReorder
         \/ ConfigureHistogram
         \/ UNCHANGED vars
  PROVE  QueuePreserved' /\ BlocksDistinct' /\ UNCHANGED written
<1>1. UNCHANGED <<writer_queue, memory, spectra, written>>
  BY DEF ReorderProcessed, ReorderRaw, ReorderIncrement, NextFrameProcess,
         ConfigureReorder, ConfigureHistogram, vars, histogramVars
<1>2. \/ configuring' = configuring
      \/ configuring' \notin {"new_pixel", "clear"}
  BY DEF ReorderProcessed, ReorderRaw, ReorderIncrement, NextFrameProcess,
         ConfigureReorder, ConfigureHistogram, BeginConfigure, vars, controlVars
<1>3. \A d \in Spectra : Uncleared(d)' => Uncleared(d)
  BY <1>2 DEF Uncleared
<1>4. \A block \in DOMAIN memory :
        memory'[block] \in Nat /\ memory'[block] >= memory[block]
  BY <1>1 DEF SpectraInv, TypeOK
<1>5. QueuePreserved'
  BY <1>1, <1>3, <1>4, QueueKept
<1> QED
  BY <1>1, <1>5 DEF SpectraInv, BlocksDistinct

LEMMA HistogramSpectra ==
  ASSUME SpectraInv, HistogramProcess
  PROVE  QueuePreserved' /\ BlocksDistinct' /\ UNCHANGED written
<1> USE DEF SpectraInv
<1>1. UNCHANGED <<spectra, configuring, written>>
  BY DEF HistogramProcess, HistogramTake, HistogramCheck, HistogramPush,
         HistogramWritten, HistogramPass, HistogramIncrement, controlVars
<1>2. BlocksDistinct'
  BY <1>1 DEF BlocksDistinct
<1>3. \A d \in Spectra : Uncleared(d)' <=> Uncleared(d)
  BY <1>1 DEF Uncleared
<1>4. \A block \in DOMAIN memory :
        memory[block] \in Nat /\ memory[block] >= memory[block]
  BY DEF TypeOK
<1>5. CASE HistogramTake
  <2> DEFINE frame == Head(histogram_queue)
  <2>1. frame \in Frame
    BY <1>5, TailTyped DEF HistogramTake, TypeOK
  <2>2. CASE frame.dataset = "raw_frames"
    <3>1. writer_queue' = Append(writer_queue, frame) /\ memory' = memory
      BY <1>5, <2>2 DEF HistogramTake
    <3> HIDE DEF frame
    <3> QED
      BY <1>1, <1>2, <1>3, <1>4, <2>1, <3>1, QueueKept
  <2>3. CASE frame.dataset # "raw_frames"
    <3>1. writer_queue' = writer_queue /\ memory' = Counted(frame.hits)
      BY <1>5, <2>3 DEF HistogramTake
    <3>2. frame.hits \in SUBSET Pixels
      BY <2>1 DEF Frame
    <3>3. /\ DOMAIN memory' = DOMAIN memory
          /\ \A block \in DOMAIN memory :
               memory'[block] \in Nat /\ memory'[block] >= memory[block]
      BY <3>1, <3>2, CountedTypes
    <3> QED
      BY <1>1, <1>2, <1>3, <3>1, <3>3, QueueKept
  <2> QED
    BY <2>2, <2>3
<1>6. CASE HistogramPush
  <2>1. UNCHANGED memory /\ PushSpectrum(histogram.step) /\ histogram.step \in Spectra
    BY <1>6 DEF HistogramPush
  <2> QED
    BY <1>1, <1>2, <1>3, <2>1, PushPreserved
<1>7. CASE HistogramPass
  <2>1. histogram.frame \in Frame
    BY DEF TypeOK
  <2>2. UNCHANGED memory
        /\ (writer_queue' = writer_queue
            \/ writer_queue' = Append(writer_queue, histogram.frame))
    BY <1>7 DEF HistogramPass
  <2> QED
    BY <1>1, <1>2, <1>3, <1>4, <2>1, <2>2, QueueKept
<1>8. CASE HistogramCheck \/ HistogramWritten \/ HistogramIncrement
  <2>1. UNCHANGED <<memory, writer_queue>>
    BY <1>8 DEF HistogramCheck, HistogramWritten, HistogramIncrement
  <2> QED
    BY <1>1, <1>2, <1>3, <1>4, <2>1, QueueKept
<1> QED
  BY <1>5, <1>6, <1>7, <1>8 DEF HistogramProcess

LEMMA FlushSpectra ==
  ASSUME SpectraInv, FlushHistograms
  PROVE  QueuePreserved' /\ BlocksDistinct' /\ UNCHANGED written
<1> USE DEF SpectraInv
<1>1. UNCHANGED <<spectra, memory, written>>
  BY DEF FlushHistograms, histogramVars
<1>2. BlocksDistinct'
  BY <1>1 DEF BlocksDistinct
<1>3. \A d \in Spectra : ~Uncleared(d) /\ ~Uncleared(d)'
  BY DEF FlushHistograms, Uncleared, Spectra
<1>4. CASE configuring \in Spectra /\ PushSpectrum(configuring)
  BY <1>1, <1>2, <1>3, <1>4, PushPreserved
<1>5. CASE UNCHANGED writer_queue
  <2>1. \A block \in DOMAIN memory :
          memory'[block] \in Nat /\ memory'[block] >= memory[block]
    BY <1>1 DEF TypeOK
  <2> QED
    BY <1>1, <1>2, <1>3, <1>5, <2>1, QueueKept
<1> QED
  BY <1>4, <1>5 DEF FlushHistograms

\* configure's new blocks are referred to by nothing in the writer's queue,
\* and it clears only blocks that were pushed uncleared.
LEMMA InitialiseSpectra ==
  ASSUME SpectraInv, InitialiseHistograms
  PROVE  QueuePreserved' /\ BlocksDistinct' /\ UNCHANGED written
<1> USE DEF SpectraInv
<1>1. UNCHANGED <<writer_queue, written>>
  BY DEF InitialiseHistograms
<1>2. ASSUME NEW dataset \in Spectra, Allocate(dataset),
             \A d \in Spectra : Uncleared(d)' => d = dataset \/ Uncleared(d)
      PROVE  QueuePreserved' /\ BlocksDistinct'
  <2>1. /\ DOMAIN memory' = 1 .. (Len(memory) + 1)
        /\ DOMAIN memory = 1 .. Len(memory) /\ Len(memory) \in Nat
        /\ \A block \in DOMAIN memory : memory'[block] = memory[block]
        /\ spectra'[dataset] = Len(memory) + 1
        /\ \A d \in Spectra : d # dataset => spectra'[d] = spectra[d]
    BY <1>2, AllocateTypes, SMTT(30) DEF TypeOK
  <2>2. \A d \in Spectra : spectra[d] \in DOMAIN memory
    BY DEF TypeOK
  <2>3. BlocksDistinct'
    BY <2>1, <2>2 DEF BlocksDistinct, Spectra
  <2>4. ASSUME NEW k \in DOMAIN writer_queue PROVE Preserved(writer_queue[k])'
    <3> DEFINE item == writer_queue[k]
    <3>1. Preserved(item)
      BY DEF QueuePreserved
    <3> SUFFICES ASSUME item.dataset \in Spectra
                 PROVE  /\ item.block \in DOMAIN memory'
                        /\ item.cleared => item.counted <= memory'[item.block]
                        /\ \A d \in Spectra :
                             Uncleared(d)' /\ item.block = spectra'[d]
                               => ~item.cleared
      BY <1>1 DEF Preserved
    <3>2. /\ item.block \in DOMAIN memory
          /\ item.cleared => item.counted <= memory[item.block]
      BY <3>1 DEF Preserved
    <3>3. ASSUME NEW d \in Spectra, Uncleared(d)', item.block = spectra'[d]
          PROVE  ~item.cleared
      <4>1. d # dataset
        BY <2>1, <3>2, <3>3
      <4>2. Uncleared(d) /\ item.block = spectra[d]
        BY <1>2, <2>1, <3>3, <4>1
      <4> QED
        BY <3>1, <4>2 DEF Preserved
    <3> HIDE DEF item
    <3> QED
      BY <2>1, <3>2, <3>3
  <2> QED
    BY <1>1, <2>3, <2>4 DEF QueuePreserved
<1>3. CASE Allocate("summed_spectra") /\ configuring = "new_summed"
           /\ configuring' = "new_pixel"
  <2>1. \A d \in Spectra : Uncleared(d)' => d = "summed_spectra" \/ Uncleared(d)
    BY <1>3 DEF Uncleared
  <2> QED
    BY <1>1, <1>2, <1>3, <2>1 DEF Spectra
<1>4. CASE Allocate("pixel_spectra") /\ configuring = "new_pixel"
           /\ configuring' = "clear"
  <2>1. \A d \in Spectra : Uncleared(d)' => d = "pixel_spectra" \/ Uncleared(d)
    BY <1>4 DEF Uncleared
  <2> QED
    BY <1>1, <1>2, <1>4, <2>1 DEF Spectra
<1>5. CASE configuring = "clear" /\ memory' = Cleared /\ configuring' = "no"
           /\ UNCHANGED spectra
  <2>1. BlocksDistinct'
    BY <1>5 DEF BlocksDistinct
  <2>2. \A d \in Spectra : Uncleared(d) /\ ~Uncleared(d)'
    BY <1>5 DEF Uncleared, Spectra
  <2>3. DOMAIN memory' = DOMAIN memory
    BY <1>5, ClearedTypes
  <2>4. ASSUME NEW k \in DOMAIN writer_queue PROVE Preserved(writer_queue[k])'
    <3> DEFINE item == writer_queue[k]
    <3>1. Preserved(item)
      BY DEF QueuePreserved
    <3> SUFFICES ASSUME item.dataset \in Spectra
                 PROVE  /\ item.block \in DOMAIN memory'
                        /\ item.cleared => item.counted <= memory'[item.block]
      BY <1>1, <2>2 DEF Preserved
    <3>2. /\ item.block \in DOMAIN memory
          /\ item.cleared => item.counted <= memory[item.block]
      BY <3>1 DEF Preserved
    <3>3. CASE \E d \in Spectra : spectra[d] = item.block
      <4>1. ~item.cleared
        BY <2>2, <3>1, <3>3 DEF Preserved
      <4> QED
        BY <2>3, <3>2, <4>1
    <3>4. CASE ~ \E d \in Spectra : spectra[d] = item.block
      <4>1. memory'[item.block] = memory[item.block]
        BY <1>5, <3>2, <3>4 DEF Cleared
      <4> QED
        BY <2>3, <3>2, <4>1
    <3> QED
      BY <3>3, <3>4
  <2> QED
    BY <1>1, <2>1, <2>4 DEF QueuePreserved
<1> QED
  BY <1>3, <1>4, <1>5 DEF InitialiseHistograms

LEMMA WriterSpectra ==
  ASSUME SpectraInv, FileWriterWrites
  PROVE  QueuePreserved' /\ BlocksDistinct' /\ PushedCountsAreWritten'
<1> USE DEF SpectraInv
<1> DEFINE item == Head(writer_queue)
<1>1. UNCHANGED <<spectra, memory, configuring>>
      /\ writer_queue' = Tail(writer_queue) /\ writer_queue # <<>>
  BY DEF FileWriterWrites, histogramVars, controlVars
<1>2. /\ \A k \in DOMAIN writer_queue' :
           k + 1 \in DOMAIN writer_queue /\ writer_queue'[k] = writer_queue[k + 1]
      /\ 1 \in DOMAIN writer_queue /\ item = writer_queue[1]
  BY <1>1, TailTyped DEF TypeOK
<1>3. QueuePreserved'
  <2>1. ASSUME NEW k \in DOMAIN writer_queue' PROVE Preserved(writer_queue[k])'
    <3>1. Preserved(writer_queue[k + 1])
      BY <1>2 DEF QueuePreserved
    <3> QED
      BY <1>1, <1>2, <3>1 DEF Preserved, Uncleared
  <2> QED
    BY <2>1 DEF QueuePreserved
<1>4. Preserved(item)
  BY <1>2 DEF QueuePreserved
<1> DEFINE line == IF item.dataset \in Spectra
                   THEN [dataset |-> item.dataset, counts |-> memory[item.block],
                         counted |-> item.counted, cleared |-> item.cleared]
                   ELSE item
<1>5. line.dataset \in Spectra /\ line.cleared => line.counts >= line.counted
  <2>1. CASE item.dataset \in Spectra
    BY <1>4, <2>1 DEF Preserved
  <2>2. CASE item.dataset \notin Spectra
    BY <2>2
  <2> QED
    BY <2>1, <2>2
<1>6. written' = Append(written, line)
  BY DEF FileWriterWrites
<1>7. \A k \in DOMAIN written' :
        \/ k \in DOMAIN written /\ written'[k] = written[k]
        \/ written'[k] = line
  <2> HIDE DEF line
  <2>1. written \in Seq(Frame \cup WrittenSpectrum)
    BY DEF TypeOK
  <2> QED
    BY <1>6, <2>1, AppendPlaces
<1>8. PushedCountsAreWritten'
  <2> HIDE DEF line
  <2> QED
    BY <1>5, <1>7 DEF PushedCountsAreWritten
<1> QED
  BY <1>1, <1>3, <1>8 DEF BlocksDistinct

LEMMA SpectraStep ==
  ASSUME SpectraInv, [Next]_vars
  PROVE  SpectraInv'
<1>1. TypeOK'
  <2>1. \A k \in DOMAIN writer_queue : writer_queue[k].dataset \in Spectra =>
          writer_queue[k].block \in DOMAIN memory
    BY DEF SpectraInv, QueuePreserved, Preserved
  <2>2. CASE UNCHANGED vars
    BY <2>2 DEF SpectraInv, TypeOK, vars, reorderVars, nextframeVars,
                histogramVars, controlVars
  <2> QED
    BY <2>1, <2>2, ReorderTypes, NextFrameTypes, HistogramTypes, ControlTypes,
       WriterTypes DEF Next, SpectraInv
<1>2. QueuePreserved' /\ BlocksDistinct' /\ PushedCountsAreWritten'
  <2>1. UNCHANGED written => PushedCountsAreWritten'
    BY DEF SpectraInv, PushedCountsAreWritten
  <2> QED
    BY <2>1, OtherPluginsSpectra, HistogramSpectra, FlushSpectra,
       InitialiseSpectra, WriterSpectra DEF Next
<1> QED
  BY <1>1, <1>2 DEF SpectraInv

\* Every member, queue and file of the chain keeps its type; in particular
\* each spectrum in the writer's queue points to memory that exists, however
\* often configure replaced the histograms since.
THEOREM ChainTypes == Spec => []TypeOK
<1>1. SpectraInv => TypeOK
  BY DEF SpectraInv
<1> QED
  BY <1>1, InitSpectra, SpectraStep, PTL DEF Spec

\* What a cleared histogram had counted when it was pushed reaches the file,
\* for any number of frames and calls of configure: initialiseHistograms
\* replaces the blocks, and clears only what it allocated itself, so that the
\* only pushed histograms it can wipe are those pushed before it cleared them.
THEOREM CountsReachFile == Spec => []PushedCountsAreWritten
<1>1. SpectraInv => PushedCountsAreWritten
  BY DEF SpectraInv
<1> QED
  BY <1>1, InitSpectra, SpectraStep, PTL DEF Spec

-----------------------------------------------------------------------------
(* Streams: sequences of frames and spectra on their way to the file.      *)

Item == Frame \cup PushedSpectrum \cup WrittenSpectrum
ProcessedFrame == {frame \in Frame : IsProcessed(frame)}
RawFrame == Frame \ ProcessedFrame

LEMMA FrameKinds ==
  /\ \A frame \in Frame : /\ frame \in RawFrame <=> frame.dataset = "raw_frames"
                          /\ frame \in ProcessedFrame <=> IsProcessed(frame)
                          /\ frame.number \in Nat /\ frame.hits \subseteq Pixels
  /\ \A item \in PushedSpectrum \cup WrittenSpectrum :
       item.dataset \in Spectra /\ item \notin Frame
  /\ \A item \in Item : item \in Frame <=> item.dataset \notin Spectra
<1>1. \A frame \in Frame : frame.dataset \in {"processed_frames", "raw_frames"}
        /\ frame.number \in Nat /\ frame.hits \subseteq Pixels
  BY DEF Frame
<1>2. \A item \in PushedSpectrum \cup WrittenSpectrum : item.dataset \in Spectra
  BY DEF PushedSpectrum, WrittenSpectrum
<1> QED
  BY <1>1, <1>2 DEF RawFrame, ProcessedFrame, IsProcessed, Spectra, Item

\* Concatenation, by index.
LEMMA Concat ==
  ASSUME NEW S, NEW s \in Seq(S), NEW t \in Seq(S)
  PROVE  /\ s \o t \in Seq(S) /\ Len(s \o t) = Len(s) + Len(t)
         /\ Len(s) \in Nat /\ Len(t) \in Nat
         /\ \A i \in 1 .. Len(s) : (s \o t)[i] = s[i]
         /\ \A i \in 1 .. Len(t) : (s \o t)[Len(s) + i] = t[i]
<1>1. /\ s \o t \in Seq(S) /\ Len(s \o t) = Len(s) + Len(t)
      /\ Len(s) \in Nat /\ Len(t) \in Nat
      /\ \A i \in 1 .. Len(s) + Len(t) :
           (s \o t)[i] = IF i <= Len(s) THEN s[i] ELSE t[i - Len(s)]
  BY ConcatProperties, LenProperties
<1>2. ASSUME NEW i \in 1 .. Len(t) PROVE (s \o t)[Len(s) + i] = t[i]
  <2>1. Len(s) + i \in 1 .. Len(s) + Len(t) /\ ~(Len(s) + i <= Len(s))
        /\ (Len(s) + i) - Len(s) = i
    BY <1>1
  <2> QED
    BY <1>1, <2>1
<1>3. ASSUME NEW i \in 1 .. Len(s) PROVE (s \o t)[i] = s[i]
  <2>1. i \in 1 .. Len(s) + Len(t) /\ i <= Len(s)
    BY <1>1
  <2> QED
    BY <1>1, <2>1
<1> QED
  BY <1>1, <1>2, <1>3

\* The head of one queue moves to the end of the queue before it.
LEMMA MoveHead ==
  ASSUME NEW S, NEW s \in Seq(S), NEW t \in Seq(S), NEW x \in S
  PROVE  /\ <<x>> \o t \in Seq(S)
         /\ s \o (<<x>> \o t) = Append(s, x) \o t
<1>1. <<x>> \in Seq(S)
  OBVIOUS
<1>2. <<x>> \o t \in Seq(S) /\ s \o (<<x>> \o t) = (s \o <<x>>) \o t
  BY <1>1, ConcatAssociative, ConcatProperties
<1> QED
  BY <1>2, AppendIsConcat

LEMMA HeadThenTail ==
  ASSUME NEW S, NEW s \in Seq(S), s # <<>>
  PROVE  /\ Head(s) \in S /\ Tail(s) \in Seq(S)
         /\ s = <<Head(s)>> \o Tail(s)
<1> DEFINE h == Head(s)
           t == Tail(s)
<1>1. /\ h \in S /\ t \in Seq(S) /\ Len(s) \in Nat /\ Len(s) > 0
      /\ Len(t) = Len(s) - 1 /\ h = s[1]
      /\ \A i \in 1 .. Len(t) : t[i] = s[i + 1]
  BY HeadTailProperties, EmptySeq, LenProperties
<1>2. <<h>> \in Seq(S) /\ Len(<<h>>) = 1 /\ <<h>>[1] = h
  BY <1>1
<1> HIDE DEF h, t
<1> DEFINE g == <<h>>
<1>3. g \in Seq(S) /\ Len(g) = 1 /\ g[1] = h
  BY <1>2
<1> HIDE DEF g
<1>4. /\ g \o t \in Seq(S) /\ Len(g \o t) = Len(s)
      /\ \A i \in 1 .. Len(s) : (g \o t)[i] = IF i <= 1 THEN g[i] ELSE t[i - 1]
  <2>3. g \in Seq(S) /\ t \in Seq(S)
    BY <1>1, <1>3
  <2>1. /\ g \o t \in Seq(S) /\ Len(g \o t) = Len(g) + Len(t)
        /\ \A i \in 1 .. Len(g) + Len(t) :
             (g \o t)[i] = IF i <= Len(g) THEN g[i] ELSE t[i - Len(g)]
    BY <2>3, ConcatProperties
  <2>2. Len(g) + Len(t) = Len(s) /\ Len(g) = 1
    BY <1>1, <1>3
  <2> QED
    BY <2>1, <2>2
<1>5. \A i \in 1 .. Len(s) : (g \o t)[i] = s[i]
  <2> TAKE i \in 1 .. Len(s)
  <2>1. CASE i = 1
    BY <1>1, <1>3, <1>4, <2>1
  <2>2. CASE i # 1
    <3>1. i - 1 \in 1 .. Len(t) /\ (i - 1) + 1 = i /\ ~(i <= 1)
      BY <1>1, <2>2
    <3> QED
      BY <1>1, <1>4, <3>1
  <2> QED
    BY <2>1, <2>2
<1>6. s = g \o t
  BY <1>4, <1>5, SeqEqual
<1> QED
  BY <1>1, <1>6 DEF g, h, t

LEMMA AppendLast ==
  ASSUME NEW S, NEW s \in Seq(S), NEW t \in Seq(S), NEW x \in S
  PROVE  s \o Append(t, x) = Append(s \o t, x)
<1>1. <<x>> \in Seq(S)
  OBVIOUS
<1>2. s \o t \in Seq(S) /\ s \o (t \o <<x>>) = (s \o t) \o <<x>>
  BY <1>1, ConcatAssociative, ConcatProperties
<1> QED
  BY <1>2, AppendIsConcat

\* An item put between s and t shifts t by one.
LEMMA Inserted ==
  ASSUME NEW S, NEW s \in Seq(S), NEW t \in Seq(S), NEW x \in S
  PROVE  /\ s \o t \in Seq(S) /\ Append(s, x) \o t \in Seq(S)
         /\ Len(s) \in Nat /\ Len(s \o t) \in Nat /\ Len(s) <= Len(s \o t)
         /\ Len(Append(s, x) \o t) = Len(s \o t) + 1
         /\ (Append(s, x) \o t)[Len(s) + 1] = x
         /\ \A i \in 1 .. Len(s) : (Append(s, x) \o t)[i] = (s \o t)[i]
         /\ \A i \in (Len(s) + 1) .. Len(s \o t) :
              (Append(s, x) \o t)[i + 1] = (s \o t)[i]
<1> DEFINE a == Append(s, x)
<1>1. a \in Seq(S) /\ Len(a) = Len(s) + 1 /\ a[Len(s) + 1] = x
      /\ \A i \in 1 .. Len(s) : a[i] = s[i]
  BY AppendProperties
<1> HIDE DEF a
<1>2. /\ s \o t \in Seq(S) /\ Len(s \o t) = Len(s) + Len(t)
      /\ Len(s) \in Nat /\ Len(t) \in Nat
      /\ \A i \in 1 .. Len(s) : (s \o t)[i] = s[i]
      /\ \A i \in 1 .. Len(t) : (s \o t)[Len(s) + i] = t[i]
  BY Concat
<1>3. /\ a \o t \in Seq(S) /\ Len(a \o t) = Len(a) + Len(t)
      /\ \A i \in 1 .. Len(a) : (a \o t)[i] = a[i]
      /\ \A i \in 1 .. Len(t) : (a \o t)[Len(a) + i] = t[i]
  <2>1. a \in Seq(S)
    BY <1>1
  <2> QED
    BY <2>1, Concat
<1>4. ASSUME NEW i \in 1 .. Len(s) PROVE (a \o t)[i] = (s \o t)[i]
  <2>1. i \in 1 .. Len(a)
    BY <1>1, <1>2
  <2> QED
    BY <1>1, <1>2, <1>3, <2>1
<1>5. ASSUME NEW i \in (Len(s) + 1) .. Len(s \o t) PROVE (a \o t)[i + 1] = (s \o t)[i]
  <2>1. i - Len(s) \in 1 .. Len(t) /\ Len(s) + (i - Len(s)) = i
        /\ Len(a) + (i - Len(s)) = i + 1
    BY <1>1, <1>2
  <2>2. (a \o t)[Len(a) + (i - Len(s))] = t[i - Len(s)]
    BY <1>3, <2>1
  <2>3. (s \o t)[Len(s) + (i - Len(s))] = t[i - Len(s)]
    BY <1>2, <2>1
  <2> QED
    BY <2>1, <2>2, <2>3
<1>6. (a \o t)[Len(s) + 1] = x
  <2>1. Len(s) + 1 \in 1 .. Len(a)
    BY <1>1, <1>2
  <2> QED
    BY <1>1, <1>3, <2>1
<1>7. Len(s) <= Len(s \o t) /\ Len(s \o t) \in Nat /\ Len(a \o t) = Len(s \o t) + 1
  BY <1>1, <1>2, <1>3
<1> QED
  BY <1>2, <1>3, <1>4, <1>5, <1>6, <1>7 DEF a

-----------------------------------------------------------------------------
(* Raw frames follow the processed frames they belong to.                  *)

Belongs(processed, raw) ==
  /\ processed \in ProcessedFrame
  /\ processed.number = raw.number
  /\ processed.hits \subseteq raw.hits

Follows(s) ==
  \A k \in 1 .. Len(s) : s[k] \in RawFrame =>
    \E j \in 1 .. (k - 1) :
      Belongs(s[j], s[k]) /\ \A i \in (j + 1) .. (k - 1) : s[i] \notin Frame

LEMMA FollowsInsert ==
  ASSUME NEW s \in Seq(Item), NEW t \in Seq(Item), NEW x \in Item,
         x \notin Frame, Follows(s \o t)
  PROVE  Follows(Append(s, x) \o t)
<1> DEFINE u == Append(s, x) \o t
           v == s \o t
           n == Len(s)
<1>1. /\ n \in Nat /\ Len(v) \in Nat /\ n <= Len(v) /\ Len(u) = Len(v) + 1
      /\ u[n + 1] = x
      /\ \A i \in 1 .. n : u[i] = v[i]
      /\ \A i \in (n + 1) .. Len(v) : u[i + 1] = v[i]
  BY Inserted
<1>2. \A k \in 1 .. Len(v) : v[k] \in RawFrame =>
        \E j \in 1 .. (k - 1) :
          Belongs(v[j], v[k]) /\ \A i \in (j + 1) .. (k - 1) : v[i] \notin Frame
  BY DEF Follows
<1> HIDE DEF u, v, n
<1>3. ASSUME NEW k \in 1 .. Len(u), u[k] \in RawFrame
      PROVE  \E j \in 1 .. (k - 1) :
               Belongs(u[j], u[k]) /\ \A i \in (j + 1) .. (k - 1) : u[i] \notin Frame
  <2>0. u[k] # x
    BY <1>3 DEF RawFrame
  <2>1. CASE k <= n
    <3>1. k \in 1 .. n /\ k \in 1 .. Len(v) /\ u[k] = v[k]
      BY <1>1, <2>1
    <3>2. PICK j \in 1 .. (k - 1) :
            Belongs(v[j], v[k]) /\ \A i \in (j + 1) .. (k - 1) : v[i] \notin Frame
      BY <1>2, <1>3, <3>1
    <3>3. \A i \in 1 .. (k - 1) : u[i] = v[i]
      BY <1>1, <3>1
    <3>4. \A i \in (j + 1) .. (k - 1) : i \in 1 .. (k - 1)
      OBVIOUS
    <3> QED
      BY <3>1, <3>2, <3>3, <3>4
  <2>2. CASE k > n
    <3>1. k > n + 1
      <4>1. k # n + 1
        BY <1>1, <2>0
      <4> QED
        BY <1>1, <2>2, <4>1
    <3>2. k - 1 \in (n + 1) .. Len(v) /\ k - 1 \in 1 .. Len(v) /\ (k - 1) + 1 = k
      BY <1>1, <3>1
    <3>3. u[k] = v[k - 1]
      BY <1>1, <3>2
    <3>4. PICK j \in 1 .. ((k - 1) - 1) :
            /\ Belongs(v[j], v[k - 1])
            /\ \A i \in (j + 1) .. ((k - 1) - 1) : v[i] \notin Frame
      BY <1>2, <1>3, <3>2, <3>3
    <3>5. \A i \in (n + 2) .. (k - 1) : u[i] = v[i - 1] /\ i - 1 \in 1 .. Len(v)
      <4> TAKE i \in (n + 2) .. (k - 1)
      <4>1. i - 1 \in (n + 1) .. Len(v) /\ (i - 1) + 1 = i /\ i - 1 \in 1 .. Len(v)
        BY <1>1
      <4> QED
        BY <1>1, <4>1
    <3>6. CASE j <= n
      <4>1. j \in 1 .. n /\ j \in 1 .. (k - 1) /\ u[j] = v[j]
        BY <1>1, <3>6, <3>2
      <4>2. ASSUME NEW i \in (j + 1) .. (k - 1) PROVE u[i] \notin Frame
        <5>1. CASE i <= n
          <6>1. i \in 1 .. n /\ i \in (j + 1) .. ((k - 1) - 1)
            BY <1>1, <3>1, <5>1
          <6> QED
            BY <1>1, <3>4, <6>1
        <5>2. CASE i = n + 1
          BY <1>1, <5>2
        <5>3. CASE i > n + 1
          <6>1. i \in (n + 2) .. (k - 1) /\ i - 1 \in (j + 1) .. ((k - 1) - 1)
            BY <1>1, <3>6, <5>3
          <6> QED
            BY <3>4, <3>5, <6>1
        <5> QED
          BY <1>1, <5>1, <5>2, <5>3
      <4>3. Belongs(u[j], u[k])
        BY <3>3, <3>4, <4>1
      <4> QED
        BY <4>1, <4>2, <4>3
    <3>7. CASE j > n
      <4>1. j + 1 \in (n + 2) .. (k - 1) /\ j + 1 \in 1 .. (k - 1) /\ (j + 1) - 1 = j
        BY <1>1, <3>7, <3>2
      <4>2. u[j + 1] = v[j]
        BY <3>5, <4>1
      <4>3. ASSUME NEW i \in ((j + 1) + 1) .. (k - 1) PROVE u[i] \notin Frame
        <5>1. i \in (n + 2) .. (k - 1) /\ i - 1 \in (j + 1) .. ((k - 1) - 1)
          BY <1>1, <3>7
        <5> QED
          BY <3>4, <3>5, <5>1
      <4>4. Belongs(u[j + 1], u[k])
        BY <3>3, <3>4, <4>2
      <4> QED
        BY <4>1, <4>3, <4>4
    <3> QED
      BY <1>1, <3>6, <3>7
  <2> QED
    BY <1>1, <2>1, <2>2
<1>4. Follows(u)
  BY <1>3 DEF Follows
<1> QED
  BY <1>4 DEF u

LEMMA FollowsPrefix ==
  ASSUME NEW s \in Seq(Item), NEW t \in Seq(Item), Follows(s \o t)
  PROVE  Follows(s)
<1>1. /\ Len(s \o t) = Len(s) + Len(t) /\ Len(s) \in Nat /\ Len(t) \in Nat
      /\ \A i \in 1 .. Len(s) : (s \o t)[i] = s[i]
  BY Concat
<1> DEFINE v == s \o t
<1>2. \A k \in 1 .. Len(v) : v[k] \in RawFrame =>
        \E j \in 1 .. (k - 1) :
          Belongs(v[j], v[k]) /\ \A i \in (j + 1) .. (k - 1) : v[i] \notin Frame
  BY DEF Follows
<1>3. Len(v) = Len(s) + Len(t) /\ \A i \in 1 .. Len(s) : v[i] = s[i]
  BY <1>1
<1> HIDE DEF v
<1>4. ASSUME NEW k \in 1 .. Len(s), s[k] \in RawFrame
      PROVE  \E j \in 1 .. (k - 1) :
               Belongs(s[j], s[k]) /\ \A i \in (j + 1) .. (k - 1) : s[i] \notin Frame
  <2>1. k \in 1 .. Len(v) /\ v[k] = s[k] /\ \A i \in 1 .. (k - 1) : v[i] = s[i]
    BY <1>1, <1>3
  <2>2. PICK j \in 1 .. (k - 1) :
          Belongs(v[j], v[k]) /\ \A i \in (j + 1) .. (k - 1) : v[i] \notin Frame
    BY <1>2, <1>4, <2>1
  <2>3. \A i \in (j + 1) .. (k - 1) : i \in 1 .. (k - 1)
    OBVIOUS
  <2> QED
    BY <2>1, <2>2, <2>3
<1> QED
  BY <1>4 DEF Follows

LEMMA FollowsPair ==
  ASSUME NEW s \in Seq(Item), Follows(s),
         NEW p \in Item, NEW r \in Item, Belongs(p, r)
  PROVE  Follows(Append(Append(s, p), r))
<1> DEFINE a == Append(s, p)
           u == Append(a, r)
           n == Len(s)
<1>1. /\ a \in Seq(Item) /\ n \in Nat /\ Len(a) = n + 1
      /\ a[n + 1] = p /\ \A i \in 1 .. n : a[i] = s[i]
  BY AppendProperties, LenProperties
<1> HIDE DEF a, n
<1>2. /\ u \in Seq(Item) /\ Len(u) = n + 2
      /\ u[n + 2] = r /\ \A i \in 1 .. (n + 1) : u[i] = a[i]
  <2>1. Len(a) + 1 = n + 2
    BY <1>1
  <2> QED
    BY <1>1, <2>1, AppendProperties
<1>3. u[n + 1] = p /\ \A i \in 1 .. n : u[i] = s[i]
  <2>1. n + 1 \in 1 .. (n + 1) /\ \A i \in 1 .. n : i \in 1 .. (n + 1)
    BY <1>1
  <2> QED
    BY <1>1, <1>2, <2>1
<1> HIDE DEF u
<1>4. ASSUME NEW k \in 1 .. Len(u), u[k] \in RawFrame
      PROVE  \E j \in 1 .. (k - 1) :
               Belongs(u[j], u[k]) /\ \A i \in (j + 1) .. (k - 1) : u[i] \notin Frame
  <2>1. CASE k <= n
    <3>1. k \in 1 .. Len(s) /\ u[k] = s[k] /\ \A i \in 1 .. (k - 1) : u[i] = s[i]
      BY <1>1, <1>3, <2>1 DEF n
    <3>2. PICK j \in 1 .. (k - 1) :
            Belongs(s[j], s[k]) /\ \A i \in (j + 1) .. (k - 1) : s[i] \notin Frame
      BY <1>4, <3>1 DEF Follows
    <3>3. \A i \in (j + 1) .. (k - 1) : i \in 1 .. (k - 1)
      OBVIOUS
    <3> QED
      BY <3>1, <3>2, <3>3
  <2>2. CASE k = n + 1
    BY <1>3, <1>4, <2>2 DEF Belongs, RawFrame
  <2>3. CASE k = n + 2
    <3>1. n + 1 \in 1 .. (k - 1) /\ \A i \in ((n + 1) + 1) .. (k - 1) : FALSE
      BY <1>1, <2>3
    <3>2. Belongs(u[n + 1], u[k])
      BY <1>2, <1>3, <2>3
    <3> QED
      BY <3>1, <3>2
  <2> QED
    BY <1>1, <1>2, <2>1, <2>2, <2>3
<1>5. Follows(u)
  BY <1>4 DEF Follows
<1> QED
  BY <1>5 DEF u, a

\* Frames stay where they are, raw ones as they are; processed ones may lose
\* hits.
LEMMA FollowsMapped ==
  ASSUME NEW s \in Seq(Item), NEW u \in Seq(Item), Follows(s), Len(u) = Len(s),
         \A k \in 1 .. Len(s) :
           /\ s[k] \in Frame <=> u[k] \in Frame
           /\ u[k] \in RawFrame => u[k] = s[k]
           /\ s[k] \in ProcessedFrame =>
                /\ u[k] \in ProcessedFrame
                /\ u[k].number = s[k].number /\ u[k].hits \subseteq s[k].hits
  PROVE  Follows(u)
<1>1. ASSUME NEW k \in 1 .. Len(u), u[k] \in RawFrame
      PROVE  \E j \in 1 .. (k - 1) :
               Belongs(u[j], u[k]) /\ \A i \in (j + 1) .. (k - 1) : u[i] \notin Frame
  <2>1. PICK j \in 1 .. (k - 1) :
          Belongs(s[j], s[k]) /\ \A i \in (j + 1) .. (k - 1) : s[i] \notin Frame
    BY <1>1 DEF Follows
  <2>2. Len(s) \in Nat
    BY LenProperties
  <2>3. j \in 1 .. Len(s) /\ \A i \in (j + 1) .. (k - 1) : i \in 1 .. Len(s)
    BY <2>2
  <2>4. u[k] = s[k]
    BY <1>1
  <2>5. Belongs(u[j], u[k])
    BY <2>1, <2>3, <2>4 DEF Belongs
  <2> QED
    BY <2>1, <2>3, <2>5
<1> QED
  BY <1>1 DEF Follows

-----------------------------------------------------------------------------
(* Processed frames of successive numbers share no pixel.                  *)

Apart(s) ==
  \A j, k \in 1 .. Len(s) :
    /\ j < k /\ s[j] \in ProcessedFrame /\ s[k] \in ProcessedFrame
    /\ \A i \in (j + 1) .. (k - 1) : s[i] \notin ProcessedFrame
    /\ s[k].number = s[j].number + 1
    => s[j].hits \cap s[k].hits = {}

\* The last processed frame of s, if there is one, has this number and hits.
EndsIn(s, number, hits) ==
  \A j \in 1 .. Len(s) :
    /\ s[j] \in ProcessedFrame
    /\ \A i \in (j + 1) .. Len(s) : s[i] \notin ProcessedFrame
    => s[j].number = number /\ s[j].hits = hits

LEMMA ApartInsert ==
  ASSUME NEW s \in Seq(Item), NEW t \in Seq(Item), NEW x \in Item,
         x \notin ProcessedFrame, NEW number, NEW hits,
         Apart(s \o t), EndsIn(s \o t, number, hits)
  PROVE  /\ Apart(Append(s, x) \o t)
         /\ EndsIn(Append(s, x) \o t, number, hits)
<1> DEFINE u == Append(s, x) \o t
           v == s \o t
           n == Len(s)
           At(k) == IF k <= n THEN k ELSE k - 1
<1>1. /\ n \in Nat /\ Len(v) \in Nat /\ n <= Len(v) /\ Len(u) = Len(v) + 1
      /\ u[n + 1] = x
      /\ \A i \in 1 .. n : u[i] = v[i]
      /\ \A i \in (n + 1) .. Len(v) : u[i + 1] = v[i]
  BY Inserted
<1>2. Apart(v) /\ EndsIn(v, number, hits)
  OBVIOUS
<1> HIDE DEF u, v, n
<1>3. ASSUME NEW k \in 1 .. Len(u), k # n + 1
      PROVE  At(k) \in 1 .. Len(v) /\ u[k] = v[At(k)]
  <2>1. CASE k <= n
    BY <1>1, <2>1
  <2>2. CASE k > n + 1
    <3>1. k - 1 \in (n + 1) .. Len(v) /\ (k - 1) + 1 = k /\ k - 1 \in 1 .. Len(v)
          /\ At(k) = k - 1
      BY <1>1, <2>2
    <3> QED
      BY <1>1, <3>1
  <2> QED
    BY <1>1, <1>3, <2>1, <2>2
\* Items of v between two positions are items of u between theirs.
<1>4. ASSUME NEW j \in 1 .. Len(u), NEW last \in Nat, last <= Len(u), j # n + 1,
             \A i \in (j + 1) .. last : u[i] \notin ProcessedFrame,
             NEW m \in (At(j) + 1) .. Len(v),
             (IF m <= n THEN m ELSE m + 1) <= last
      PROVE  v[m] \notin ProcessedFrame
  <2>1. CASE m <= n
    <3>1. m \in 1 .. n /\ m \in (j + 1) .. last
      BY <1>1, <1>4, <2>1
    <3> QED
      BY <1>1, <1>4, <3>1
  <2>2. CASE m > n
    <3>1. m \in (n + 1) .. Len(v) /\ m + 1 \in (j + 1) .. last
      BY <1>1, <1>4, <2>2
    <3> QED
      BY <1>1, <1>4, <3>1
  <2> QED
    BY <1>1, <2>1, <2>2
<1>5. ASSUME NEW j \in 1 .. Len(u), NEW k \in 1 .. Len(u), j < k,
             u[j] \in ProcessedFrame, u[k] \in ProcessedFrame,
             \A i \in (j + 1) .. (k - 1) : u[i] \notin ProcessedFrame,
             u[k].number = u[j].number + 1
      PROVE  u[j].hits \cap u[k].hits = {}
  <2>1. j # n + 1 /\ k # n + 1
    BY <1>1, <1>5
  <2>2. /\ At(j) \in 1 .. Len(v) /\ u[j] = v[At(j)]
        /\ At(k) \in 1 .. Len(v) /\ u[k] = v[At(k)]
    BY <1>3, <2>1
  <2>3. At(j) < At(k)
    BY <1>1, <1>5, <2>1
  <2>4. ASSUME NEW m \in (At(j) + 1) .. (At(k) - 1) PROVE v[m] \notin ProcessedFrame
    <3>1. /\ m \in (At(j) + 1) .. Len(v) /\ k - 1 \in Nat /\ k - 1 <= Len(u)
          /\ (IF m <= n THEN m ELSE m + 1) <= k - 1
      BY <1>1, <2>1, <2>2
    <3> HIDE DEF At
    <3> QED
      BY <1>4, <1>5, <2>1, <3>1
  <2> HIDE DEF At
  <2> QED
    BY <1>2, <1>5, <2>2, <2>3, <2>4 DEF Apart
<1>6. ASSUME NEW j \in 1 .. Len(u), u[j] \in ProcessedFrame,
             \A i \in (j + 1) .. Len(u) : u[i] \notin ProcessedFrame
      PROVE  u[j].number = number /\ u[j].hits = hits
  <2>1. j # n + 1
    BY <1>1, <1>6
  <2>2. At(j) \in 1 .. Len(v) /\ u[j] = v[At(j)]
    BY <1>3, <2>1
  <2>4. ASSUME NEW m \in (At(j) + 1) .. Len(v) PROVE v[m] \notin ProcessedFrame
    <3>1. /\ Len(u) \in Nat /\ Len(u) <= Len(u)
          /\ (IF m <= n THEN m ELSE m + 1) <= Len(u)
      BY <1>1, <2>2
    <3> HIDE DEF At
    <3> QED
      BY <1>4, <1>6, <2>1, <3>1
  <2> HIDE DEF At
  <2> QED
    BY <1>2, <1>6, <2>2, <2>4 DEF EndsIn
<1>7. Apart(u) /\ EndsIn(u, number, hits)
  BY <1>5, <1>6 DEF Apart, EndsIn
<1> QED
  BY <1>7 DEF u

LEMMA ApartPrefix ==
  ASSUME NEW s \in Seq(Item), NEW t \in Seq(Item), Apart(s \o t)
  PROVE  Apart(s)
<1> DEFINE v == s \o t
<1>1. /\ Len(v) = Len(s) + Len(t) /\ Len(s) \in Nat /\ Len(t) \in Nat
      /\ \A i \in 1 .. Len(s) : v[i] = s[i]
  BY Concat
<1>2. Apart(v)
  OBVIOUS
<1> HIDE DEF v
<1>3. ASSUME NEW j \in 1 .. Len(s), NEW k \in 1 .. Len(s), j < k,
             s[j] \in ProcessedFrame, s[k] \in ProcessedFrame,
             \A i \in (j + 1) .. (k - 1) : s[i] \notin ProcessedFrame,
             s[k].number = s[j].number + 1
      PROVE  s[j].hits \cap s[k].hits = {}
  <2>1. /\ j \in 1 .. Len(v) /\ k \in 1 .. Len(v) /\ v[j] = s[j] /\ v[k] = s[k]
        /\ \A i \in (j + 1) .. (k - 1) : i \in 1 .. Len(s)
    BY <1>1
  <2>2. \A i \in (j + 1) .. (k - 1) : v[i] \notin ProcessedFrame
    BY <1>1, <1>3, <2>1
  <2> QED
    BY <1>2, <1>3, <2>1, <2>2 DEF Apart
<1> QED
  BY <1>3 DEF Apart

\* Any processed frame may follow that has the next number only if it shares
\* no pixel with the last one.
LEMMA ApartAppend ==
  ASSUME NEW s \in Seq(Item), NEW number, NEW hits, NEW frame \in ProcessedFrame,
         Apart(s), EndsIn(s, number, hits),
         frame.number = number + 1 => hits \cap frame.hits = {}
  PROVE  /\ Apart(Append(s, frame))
         /\ EndsIn(Append(s, frame), frame.number, frame.hits)
<1> DEFINE u == Append(s, frame)
           n == Len(s)
<1>1. /\ n \in Nat /\ Len(u) = n + 1 /\ u[n + 1] = frame
      /\ \A i \in 1 .. n : u[i] = s[i]
  <2>1. frame \in Item
    BY DEF ProcessedFrame, Item
  <2> QED
    BY <2>1, AppendProperties, LenProperties
<1> HIDE DEF u
<1>2. ASSUME NEW j \in 1 .. Len(u), NEW k \in 1 .. Len(u), j < k,
             u[j] \in ProcessedFrame, u[k] \in ProcessedFrame,
             \A i \in (j + 1) .. (k - 1) : u[i] \notin ProcessedFrame,
             u[k].number = u[j].number + 1
      PROVE  u[j].hits \cap u[k].hits = {}
  <2>1. j \in 1 .. n /\ u[j] = s[j] /\ \A i \in (j + 1) .. (k - 1) : u[i] = s[i]
    <3>1. j \in 1 .. n /\ \A i \in (j + 1) .. (k - 1) : i \in 1 .. n
      BY <1>1, <1>2
    <3> QED
      BY <1>1, <3>1
  <2>2. CASE k <= n
    <3>1. k \in 1 .. n /\ u[k] = s[k]
      BY <1>1, <2>2
    <3> QED
      BY <1>2, <2>1, <3>1 DEF Apart
  <2>3. CASE k = n + 1
    <3>1. u[k] = frame /\ (j + 1) .. (k - 1) = (j + 1) .. n
      BY <1>1, <2>3
    <3>2. s[j].number = number /\ s[j].hits = hits
      BY <1>2, <2>1, <3>1 DEF EndsIn
    <3> QED
      BY <1>2, <2>1, <3>1, <3>2
  <2> QED
    BY <1>1, <2>2, <2>3
<1>3. ASSUME NEW j \in 1 .. Len(u),
             \A i \in (j + 1) .. Len(u) : u[i] \notin ProcessedFrame
      PROVE  u[j].number = frame.number /\ u[j].hits = frame.hits
  <2>1. CASE j = n + 1
    BY <1>1, <2>1
  <2>2. CASE j # n + 1
    <3>1. n + 1 \in (j + 1) .. Len(u)
      BY <1>1, <2>2
    <3> QED
      BY <1>1, <1>3, <3>1
  <2> QED
    BY <2>1, <2>2
<1>4. Apart(u) /\ EndsIn(u, frame.number, frame.hits)
  BY <1>2, <1>3 DEF Apart, EndsIn
<1> QED
  BY <1>4 DEF u

\* Processed frames stay where and what they are.
LEMMA ApartMapped ==
  ASSUME NEW s \in Seq(Item), NEW u \in Seq(Item), NEW number, NEW hits,
         Apart(s), EndsIn(s, number, hits), Len(u) = Len(s),
         \A k \in 1 .. Len(s) :
           /\ s[k] \in ProcessedFrame <=> u[k] \in ProcessedFrame
           /\ u[k] \in ProcessedFrame => u[k] = s[k]
  PROVE  Apart(u) /\ EndsIn(u, number, hits)
<1>0. Len(s) \in Nat
  BY LenProperties
<1>1. ASSUME NEW j \in 1 .. Len(u), NEW k \in 1 .. Len(u), j < k,
             u[j] \in ProcessedFrame, u[k] \in ProcessedFrame,
             \A i \in (j + 1) .. (k - 1) : u[i] \notin ProcessedFrame,
             u[k].number = u[j].number + 1
      PROVE  u[j].hits \cap u[k].hits = {}
  <2>1. \A i \in (j + 1) .. (k - 1) : i \in 1 .. Len(s)
    BY <1>0
  <2>2. s[j] = u[j] /\ s[k] = u[k]
        /\ \A i \in (j + 1) .. (k - 1) : s[i] \notin ProcessedFrame
    BY <1>1, <2>1
  <2> QED
    BY <1>1, <2>2 DEF Apart
<1>2. ASSUME NEW j \in 1 .. Len(u), u[j] \in ProcessedFrame,
             \A i \in (j + 1) .. Len(u) : u[i] \notin ProcessedFrame
      PROVE  u[j].number = number /\ u[j].hits = hits
  <2>1. \A i \in (j + 1) .. Len(u) : i \in 1 .. Len(s)
    BY <1>0
  <2>2. s[j] = u[j] /\ \A i \in (j + 1) .. Len(s) : s[i] \notin ProcessedFrame
    BY <1>2, <2>1
  <2> QED
    BY <1>2, <2>2 DEF EndsIn
<1> QED
  BY <1>1, <1>2 DEF Apart, EndsIn

-----------------------------------------------------------------------------
(* The stream of the chain, from the file back to the reorder plugin.      *)

\* The frame in the histogram plugin's hands, before it is pushed.
Held == IF histogram.step \in {"idle", "load", "increment"} THEN <<>>
        ELSE <<histogram.frame>>

\* The raw frame that the reorder plugin is about to push.
Pending ==
  IF reorder.step = "raw"
  THEN <<[dataset |-> "raw_frames", number |-> RawNumber, hits |-> reorder.hits]>>
  ELSE <<>>

Out == written \o writer_queue
Behind == Held \o histogram_queue
Passed == Out \o Behind
Ahead == nextframe_queue \o Pending

StreamInv ==
  IF pass_processed
  THEN /\ Follows(Passed \o Ahead)
       /\ Apart(Passed) /\ EndsIn(Passed, last_frame_number, last_frame)
  ELSE \A k \in 1 .. Len(Out) : Out[k] \notin ProcessedFrame

StreamTyped ==
  /\ written \in Seq(Item) /\ writer_queue \in Seq(Item)
  /\ Held \in Seq(Item) /\ histogram_queue \in Seq(Item)
  /\ nextframe_queue \in Seq(Item) /\ Pending \in Seq(Item)
  /\ Out \in Seq(Item) /\ Behind \in Seq(Item) /\ Passed \in Seq(Item)
  /\ Ahead \in Seq(Item)

LEMMA StreamTypes == TypeOK => StreamTyped
<1> SUFFICES ASSUME TypeOK PROVE StreamTyped
  OBVIOUS
<1>1. /\ written \in Seq(Frame \cup WrittenSpectrum)
      /\ writer_queue \in Seq(Frame \cup PushedSpectrum)
      /\ histogram_queue \in Seq(Frame) /\ nextframe_queue \in Seq(Frame)
  BY DEF TypeOK
<1>2. /\ Frame \subseteq Item /\ Frame \cup WrittenSpectrum \subseteq Item
      /\ Frame \cup PushedSpectrum \subseteq Item
  BY DEF Item
<1>3. /\ written \in Seq(Item) /\ writer_queue \in Seq(Item)
      /\ histogram_queue \in Seq(Item) /\ nextframe_queue \in Seq(Item)
  BY <1>1, <1>2, SeqMonotonic
<1>4. Held \in Seq(Item)
  <2>1. histogram.frame \in Item
    BY <1>2 DEF TypeOK
  <2> QED
    BY <2>1 DEF Held
<1>5. Pending \in Seq(Item)
  <2> DEFINE raw == [dataset |-> "raw_frames", number |-> RawNumber,
                     hits |-> reorder.hits]
  <2>1. raw \in Item
    <3>1. raw \in Frame
      BY DEF TypeOK, RawNumber, Frame
    <3> QED
      BY <1>2, <3>1
  <2> HIDE DEF raw
  <2>2. <<raw>> \in Seq(Item)
    BY <2>1
  <2>3. Pending = <<raw>> \/ Pending = <<>>
    BY DEF Pending, raw
  <2> QED
    BY <2>2, <2>3, EmptySeq
<1>6. Out \in Seq(Item) /\ Behind \in Seq(Item) /\ Ahead \in Seq(Item)
  BY <1>3, <1>4, <1>5, ConcatProperties DEF Out, Behind, Ahead
<1>7. Passed \in Seq(Item)
  BY <1>6, ConcatProperties DEF Passed
<1> QED
  BY <1>3, <1>4, <1>5, <1>6, <1>7 DEF StreamTyped

LEMMA StreamTypesNext == TypeOK' => StreamTyped'
BY StreamTypes, PTL

LEMMA Middle ==
  ASSUME NEW S, NEW s \in Seq(S), NEW t \in Seq(S), NEW w \in Seq(S), NEW x \in S
  PROVE  /\ (s \o t) \o w = s \o (t \o w)
         /\ (s \o Append(t, x)) \o w = Append(s \o t, x) \o w
BY ConcatAssociative, AppendLast, SMTT(30)

\* What is appended in the end.
LEMMA AheadAppend ==
  ASSUME NEW x \in Item, StreamTyped
  PROVE  Passed \o Append(Ahead, x) = Append(Passed \o Ahead, x)
BY AppendLast, SMTT(30) DEF StreamTyped

\* The same frames, and spectra of the same datasets, at the same places.
SameFrames(s, u) ==
  /\ Len(u) = Len(s)
  /\ \A k \in 1 .. Len(s) :
       \/ u[k] = s[k]
       \/ s[k] \notin Frame /\ u[k] \notin Frame /\ u[k].dataset = s[k].dataset

LEMMA SameFramesConcat ==
  ASSUME NEW s \in Seq(Item), NEW u \in Seq(Item), NEW t \in Seq(Item),
         SameFrames(s, u)
  PROVE  SameFrames(s \o t, u \o t)
<1>1. /\ s \o t \in Seq(Item) /\ Len(s \o t) = Len(s) + Len(t)
      /\ Len(s) \in Nat /\ Len(t) \in Nat
      /\ \A i \in 1 .. Len(s) : (s \o t)[i] = s[i]
      /\ \A i \in 1 .. Len(t) : (s \o t)[Len(s) + i] = t[i]
  BY Concat
<1>2. /\ u \o t \in Seq(Item) /\ Len(u \o t) = Len(u) + Len(t)
      /\ \A i \in 1 .. Len(u) : (u \o t)[i] = u[i]
      /\ \A i \in 1 .. Len(t) : (u \o t)[Len(u) + i] = t[i]
  BY Concat
<1>3. Len(u) = Len(s)
  BY DEF SameFrames
<1>4. ASSUME NEW k \in 1 .. Len(s \o t)
      PROVE  \/ (u \o t)[k] = (s \o t)[k]
             \/ /\ (s \o t)[k] \notin Frame /\ (u \o t)[k] \notin Frame
                /\ (u \o t)[k].dataset = (s \o t)[k].dataset
  <2>1. CASE k <= Len(s)
    <3>1. k \in 1 .. Len(s)
      BY <1>1, <2>1
    <3> QED
      BY <1>1, <1>2, <1>3, <3>1 DEF SameFrames
  <2>2. CASE k > Len(s)
    <3>1. k - Len(s) \in 1 .. Len(t) /\ Len(s) + (k - Len(s)) = k
      BY <1>1, <2>2
    <3> QED
      BY <1>1, <1>2, <1>3, <3>1
  <2>3. k \in Int /\ Len(s) \in Int
    BY <1>1
  <2>4. k <= Len(s) \/ k > Len(s)
    BY <2>3
  <2> QED
    BY <2>1, <2>2, <2>4
<1> QED
  BY <1>1, <1>2, <1>3, <1>4 DEF SameFrames

LEMMA SameFramesKept ==
  ASSUME NEW s \in Seq(Item), NEW u \in Seq(Item), SameFrames(s, u)
  PROVE  /\ Follows(s) => Follows(u)
         /\ \A number, hits :
              Apart(s) /\ EndsIn(s, number, hits)
                => Apart(u) /\ EndsIn(u, number, hits)
<1>1. ProcessedFrame \subseteq Frame /\ RawFrame \subseteq Frame
  BY DEF ProcessedFrame, RawFrame
<1>2. ASSUME Follows(s) PROVE Follows(u)
  <2>1. \A k \in 1 .. Len(s) :
           /\ s[k] \in Frame <=> u[k] \in Frame
           /\ u[k] \in RawFrame => u[k] = s[k]
           /\ s[k] \in ProcessedFrame =>
                /\ u[k] \in ProcessedFrame
                /\ u[k].number = s[k].number /\ u[k].hits \subseteq s[k].hits
    BY <1>1 DEF SameFrames
  <2> QED
    BY <1>2, <2>1, FollowsMapped DEF SameFrames
<1>3. ASSUME NEW number, NEW hits, Apart(s), EndsIn(s, number, hits)
      PROVE  Apart(u) /\ EndsIn(u, number, hits)
  <2>1. \A k \in 1 .. Len(s) :
           /\ s[k] \in ProcessedFrame <=> u[k] \in ProcessedFrame
           /\ u[k] \in ProcessedFrame => u[k] = s[k]
    BY <1>1 DEF SameFrames
  <2> QED
    BY <1>3, <2>1, ApartMapped DEF SameFrames
<1> QED
  BY <1>2, <1>3

-----------------------------------------------------------------------------
(* The steps of the chain as steps of the stream.                          *)

\* What the next frame plugin keeps of the last frame.
lastVars == <<last_frame_number, last_frame>>

\* The reorder plugin pushes a frame in two datasets, or gives the raw one up.
LEMMA AheadChanges ==
  ASSUME StreamInv, StreamTyped, StreamTyped', UNCHANGED <<Out, Passed, lastVars>>,
         \/ UNCHANGED Ahead
         \/ \E p, r \in Item : /\ Belongs(p, r)
                              /\ Ahead' = Append(Append(Ahead, p), r)
         \/ \E r \in Item : Ahead = Append(Ahead', r)
  PROVE  StreamInv'
<1>1. CASE ~pass_processed
  BY <1>1 DEF StreamInv
<1>2. CASE pass_processed
  <2>1. /\ Follows(Passed \o Ahead) /\ Apart(Passed)
        /\ EndsIn(Passed, last_frame_number, last_frame)
    BY <1>2 DEF StreamInv
  <2>2. Passed \in Seq(Item) /\ Ahead \in Seq(Item) /\ Ahead' \in Seq(Item)
    BY DEF StreamTyped
  <2>3. Passed' = Passed /\ last_frame_number' = last_frame_number
        /\ last_frame' = last_frame
    BY DEF lastVars
  <2>4. Follows(Passed \o Ahead')
    <3>1. CASE UNCHANGED Ahead
      BY <2>1, <3>1
    <3>2. ASSUME NEW p \in Item, NEW r \in Item, Belongs(p, r),
                 Ahead' = Append(Append(Ahead, p), r)
          PROVE  Follows(Passed \o Ahead')
      <4>1. /\ Passed \o Ahead \in Seq(Item) /\ Append(Ahead, p) \in Seq(Item)
        BY <2>2, ConcatProperties, AppendProperties
      <4>2. Passed \o Ahead' = Append(Passed \o Append(Ahead, p), r)
        BY <2>2, <3>2, <4>1, AppendLast
      <4>3. Passed \o Append(Ahead, p) = Append(Passed \o Ahead, p)
        BY <2>2, AppendLast
      <4>4. Follows(Append(Append(Passed \o Ahead, p), r))
        BY <2>1, <3>2, <4>1, FollowsPair
      <4> QED
        BY <4>2, <4>3, <4>4
    <3>3. ASSUME NEW r \in Item, Ahead = Append(Ahead', r)
          PROVE  Follows(Passed \o Ahead')
      <4>1. /\ Passed \o Ahead' \in Seq(Item) /\ <<r>> \in Seq(Item)
        BY <2>2, ConcatProperties
      <4>2. Passed \o Ahead = Append(Passed \o Ahead', r)
        BY <2>2, <3>3, AppendLast
      <4>3. Append(Passed \o Ahead', r) = (Passed \o Ahead') \o <<r>>
        BY <4>1, AppendIsConcat
      <4> QED
        BY <2>1, <4>1, <4>2, <4>3, FollowsPrefix
    <3> QED
      BY <3>1, <3>2, <3>3
  <2> QED
    BY <1>2, <2>1, <2>3, <2>4 DEF StreamInv
<1> QED
  BY <1>1, <1>2

LEMMA FollowsReplaced ==
  ASSUME NEW r \in Seq(Item), NEW w \in Seq(Item), NEW x \in Item, NEW y \in Item,
         Follows(r \o (<<x>> \o w)),
         \/ y = x
         \/ /\ x \in ProcessedFrame /\ y \in ProcessedFrame
            /\ y.number = x.number /\ y.hits \subseteq x.hits
  PROVE  Follows(Append(r, y) \o w)
<1> DEFINE s == Append(r, x) \o w
           u == Append(r, y) \o w
           n == Len(r)
           v == r \o w
<1>1. Follows(s)
  BY MoveHead, ZenonT(30)
<1>2. /\ n \in Nat /\ Len(v) \in Nat /\ s \in Seq(Item) /\ Len(s) = Len(v) + 1
      /\ s[n + 1] = x
      /\ \A i \in 1 .. n : s[i] = v[i]
      /\ \A i \in (n + 1) .. Len(v) : s[i + 1] = v[i]
  BY Inserted
<1>3. /\ u \in Seq(Item) /\ Len(u) = Len(v) + 1
      /\ u[n + 1] = y
      /\ \A i \in 1 .. n : u[i] = v[i]
      /\ \A i \in (n + 1) .. Len(v) : u[i + 1] = v[i]
  BY Inserted
<1> HIDE DEF s, u, n, v
<1>4. ASSUME NEW k \in 1 .. Len(s) PROVE u[k] = s[k] \/ k = n + 1
  <2>1. CASE k <= n
    <3>1. k \in 1 .. n
      BY <1>2, <2>1
    <3> QED
      BY <1>2, <1>3, <3>1
  <2>2. CASE k > n + 1
    <3>1. k - 1 \in (n + 1) .. Len(v) /\ (k - 1) + 1 = k
      BY <1>2, <2>2
    <3>2. s[(k - 1) + 1] = v[k - 1]
      BY <1>2, <3>1
    <3>3. u[(k - 1) + 1] = v[k - 1]
      BY <1>3, <3>1
    <3> QED
      BY <3>1, <3>2, <3>3
  <2>3. k <= n \/ k = n + 1 \/ k > n + 1
    BY <1>2
  <2> QED
    BY <2>1, <2>2, <2>3
<1>5. \A k \in 1 .. Len(s) :
         /\ s[k] \in Frame <=> u[k] \in Frame
         /\ u[k] \in RawFrame => u[k] = s[k]
         /\ s[k] \in ProcessedFrame =>
              /\ u[k] \in ProcessedFrame
              /\ u[k].number = s[k].number /\ u[k].hits \subseteq s[k].hits
  <2> TAKE k \in 1 .. Len(s)
  <2>1. CASE u[k] = s[k]
    BY <2>1
  <2>2. CASE k = n + 1
    <3>1. s[k] = x /\ u[k] = y
      BY <1>2, <1>3, <2>2
    <3> QED
      BY <3>1 DEF RawFrame, ProcessedFrame
  <2> QED
    BY <1>4, <2>1, <2>2
<1>6. Len(u) = Len(s)
  BY <1>2, <1>3
<1>7. Follows(u)
  BY <1>1, <1>2, <1>3, <1>5, <1>6, FollowsMapped
<1> QED
  BY <1>7 DEF u

\* The next frame plugin passes a frame on, in the end of Behind.
LEMMA CorrectionChanges ==
  ASSUME StreamInv, StreamTyped, StreamTyped', UNCHANGED Out,
         NEW frame \in Frame, NEW corrected \in Frame,
         Ahead = <<frame>> \o Ahead', Behind' = Append(Behind, corrected),
         \/ frame \in RawFrame /\ corrected = frame /\ UNCHANGED lastVars
         \/ /\ frame \in ProcessedFrame /\ corrected \in ProcessedFrame
            /\ corrected.number = frame.number
            /\ corrected.hits \subseteq frame.hits
            /\ corrected.number = last_frame_number + 1
                 => last_frame \cap corrected.hits = {}
            /\ last_frame_number' = corrected.number
            /\ last_frame' = corrected.hits
  PROVE  StreamInv'
<1>1. CASE ~pass_processed
  BY <1>1 DEF StreamInv
<1>2. CASE pass_processed
  <2>1. /\ Follows(Passed \o Ahead) /\ Apart(Passed)
        /\ EndsIn(Passed, last_frame_number, last_frame)
    BY <1>2 DEF StreamInv
  <2>2. /\ Passed \in Seq(Item) /\ Out \in Seq(Item) /\ Behind \in Seq(Item)
        /\ Ahead' \in Seq(Item) /\ Passed' \in Seq(Item)
    BY DEF StreamTyped
  <2>3. frame \in Item /\ corrected \in Item
    BY DEF Item
  <2>4. Passed' = Append(Passed, corrected)
    BY <2>2, <2>3, AppendLast DEF Passed
  <2>11. Follows(Append(Passed, corrected) \o Ahead')
    <3>1. Follows(Passed \o (<<frame>> \o Ahead'))
      BY <2>1
    <3>2. \/ corrected = frame
          \/ /\ frame \in ProcessedFrame /\ corrected \in ProcessedFrame
             /\ corrected.number = frame.number
             /\ corrected.hits \subseteq frame.hits
      OBVIOUS
    <3> QED
      BY <2>2, <2>3, <3>1, <3>2, FollowsReplaced
  <2>12. Follows(Passed' \o Ahead')
    BY <2>4, <2>11
  <2>13. Apart(Passed') /\ EndsIn(Passed', last_frame_number', last_frame')
    <3>1. CASE frame \in RawFrame /\ corrected = frame /\ UNCHANGED lastVars
      <4>1. corrected \notin ProcessedFrame
        BY <3>1 DEF RawFrame
      <4>2. /\ Passed \o <<>> = Passed /\ Append(Passed, corrected) \in Seq(Item)
            /\ <<>> \in Seq(Item)
        BY <2>2, <2>3, ConcatEmptySeq, AppendProperties, EmptySeq
      <4>3. Append(Passed, corrected) \o <<>> = Append(Passed, corrected)
        BY <4>2, ConcatEmptySeq
      <4>4. /\ Apart(Append(Passed, corrected) \o <<>>)
            /\ EndsIn(Append(Passed, corrected) \o <<>>, last_frame_number, last_frame)
        BY <2>1, <2>2, <2>3, <4>1, <4>2, ApartInsert
      <4> QED
        BY <2>4, <3>1, <4>3, <4>4 DEF lastVars
    <3>2. CASE corrected \in ProcessedFrame
               /\ (corrected.number = last_frame_number + 1
                     => last_frame \cap corrected.hits = {})
               /\ last_frame_number' = corrected.number
               /\ last_frame' = corrected.hits
      BY <2>1, <2>2, <2>4, <3>2, ApartAppend
    <3> QED
      BY <3>1, <3>2
  <2> QED
    BY <1>2, <2>12, <2>13 DEF StreamInv
<1> QED
  BY <1>1, <1>2

\* The histogram plugin pushes a frame to the writer.
LEMMA FramePushed ==
  ASSUME StreamInv, StreamTyped, StreamTyped', UNCHANGED <<Ahead, lastVars>>,
         NEW frame \in Frame, pass_processed \/ frame \in RawFrame,
         Behind = <<frame>> \o Behind', Out' = Append(Out, frame)
  PROVE  StreamInv'
<1>0. /\ Out \in Seq(Item) /\ Out' \in Seq(Item) /\ Behind' \in Seq(Item)
      /\ frame \in Item
  BY DEF StreamTyped, Item
<1>1. CASE ~pass_processed
  <2>1. \A k \in 1 .. Len(Out) : Out[k] \notin ProcessedFrame
    BY <1>1 DEF StreamInv
  <2>2. frame \notin ProcessedFrame
    BY <1>1 DEF RawFrame
  <2>3. /\ Len(Out') = Len(Out) + 1 /\ Out'[Len(Out) + 1] = frame
        /\ \A i \in 1 .. Len(Out) : Out'[i] = Out[i]
        /\ Len(Out) \in Nat
    BY <1>0, AppendProperties, LenProperties
  <2>4. \A k \in 1 .. Len(Out') : Out'[k] \notin ProcessedFrame
    <3> TAKE k \in 1 .. Len(Out')
    <3>1. k \in 1 .. Len(Out) \/ k = Len(Out) + 1
      BY <2>3
    <3> QED
      BY <2>1, <2>2, <2>3, <3>1
  <2> QED
    BY <1>1, <2>4 DEF StreamInv
<1>2. CASE pass_processed
  <2>1. Passed = Passed'
    BY <1>0, MoveHead DEF Passed
  <2> QED
    BY <1>2, <2>1 DEF StreamInv, lastVars
<1> QED
  BY <1>1, <1>2

\* So it, or configure, does with a spectrum.
LEMMA SpectrumPushed ==
  ASSUME StreamInv, StreamTyped, StreamTyped', UNCHANGED <<Ahead, Behind, lastVars>>,
         NEW item \in PushedSpectrum, Out' = Append(Out, item)
  PROVE  StreamInv'
<1>0. /\ Out \in Seq(Item) /\ Out' \in Seq(Item) /\ Behind \in Seq(Item)
      /\ Ahead \in Seq(Item) /\ item \in Item /\ Behind \o Ahead \in Seq(Item)
  BY ConcatProperties DEF StreamTyped, Item
<1>00. item \notin Frame /\ item \notin ProcessedFrame
  BY FrameKinds DEF ProcessedFrame
<1>1. CASE ~pass_processed
  <2>1. \A k \in 1 .. Len(Out) : Out[k] \notin ProcessedFrame
    BY <1>1 DEF StreamInv
  <2>3. /\ Len(Out') = Len(Out) + 1 /\ Out'[Len(Out) + 1] = item
        /\ \A i \in 1 .. Len(Out) : Out'[i] = Out[i]
        /\ Len(Out) \in Nat
    BY <1>0, AppendProperties, LenProperties
  <2>4. \A k \in 1 .. Len(Out') : Out'[k] \notin ProcessedFrame
    <3> TAKE k \in 1 .. Len(Out')
    <3>1. k \in 1 .. Len(Out) \/ k = Len(Out) + 1
      BY <2>3
    <3> QED
      BY <1>00, <2>1, <2>3, <3>1
  <2> QED
    BY <1>1, <2>4 DEF StreamInv
<1>2. CASE pass_processed
  <2>1. /\ Follows(Passed \o Ahead) /\ Apart(Passed)
        /\ EndsIn(Passed, last_frame_number, last_frame)
    BY <1>2 DEF StreamInv
  <2>2. Passed = Out \o Behind /\ Passed' = Append(Out, item) \o Behind
    BY DEF Passed
  <2>3. Apart(Passed') /\ EndsIn(Passed', last_frame_number, last_frame)
    BY <1>0, <1>00, <2>1, <2>2, ApartInsert
  <2>4. Append(Out, item) \in Seq(Item)
    BY <1>0
  <2>5. /\ Passed \o Ahead = Out \o (Behind \o Ahead)
        /\ Passed' \o Ahead = Append(Out, item) \o (Behind \o Ahead)
    <3>1. \A a \in Seq(Item) : (a \o Behind) \o Ahead = a \o (Behind \o Ahead)
      BY <1>0, ConcatAssociative
    <3> QED
      BY <1>0, <2>2, <2>4, <3>1
  <2>6. Follows(Passed' \o Ahead)
    BY <1>0, <1>00, <2>1, <2>5, FollowsInsert
  <2> QED
    BY <1>2, <2>3, <2>6 DEF StreamInv, lastVars
<1> QED
  BY <1>1, <1>2

\* The file writer keeps the frames where they are.
LEMMA OutKept ==
  ASSUME StreamInv, StreamTyped, StreamTyped', UNCHANGED <<Ahead, Behind, lastVars>>,
         SameFrames(Out, Out')
  PROVE  StreamInv'
<1>0. /\ Out \in Seq(Item) /\ Out' \in Seq(Item) /\ Behind \in Seq(Item)
      /\ Ahead \in Seq(Item) /\ Passed \in Seq(Item) /\ Passed' \in Seq(Item)
      /\ Passed \o Ahead \in Seq(Item) /\ Passed' \o Ahead \in Seq(Item)
  BY ConcatProperties DEF StreamTyped
<1>1. CASE ~pass_processed
  <2>1. \A k \in 1 .. Len(Out) : Out[k] \notin ProcessedFrame
    BY <1>1 DEF StreamInv
  <2>2. \A k \in 1 .. Len(Out') : Out'[k] \notin ProcessedFrame
    BY <2>1 DEF SameFrames, ProcessedFrame
  <2> QED
    BY <1>1, <2>2 DEF StreamInv
<1>2. CASE pass_processed
  <2>1. /\ Follows(Passed \o Ahead) /\ Apart(Passed)
        /\ EndsIn(Passed, last_frame_number, last_frame)
    BY <1>2 DEF StreamInv
  <2>2. SameFrames(Passed, Passed')
    BY <1>0, SameFramesConcat DEF Passed
  <2>3. SameFrames(Passed \o Ahead, Passed' \o Ahead)
    BY <1>0, <2>2, SameFramesConcat
  <2>4. Follows(Passed' \o Ahead)
    BY <1>0, <2>1, <2>3, SameFramesKept
  <2>5. Apart(Passed') /\ EndsIn(Passed', last_frame_number, last_frame)
    BY <1>0, <2>1, <2>2, SameFramesKept
  <2> QED
    BY <1>2, <2>4, <2>5 DEF StreamInv, lastVars
<1> QED
  BY <1>1, <1>2

\* No frame moves.
LEMMA NothingMoves ==
  ASSUME StreamInv, StreamTyped, StreamTyped',
         UNCHANGED <<written, writer_queue, Behind, Ahead, lastVars>>
  PROVE  StreamInv'
<1>1. UNCHANGED <<Out, Passed>>
  BY DEF Out, Passed
<1> QED
  BY <1>1, AheadChanges

LEMMA ReorderStream ==
  ASSUME StreamInv, TypeOK, StreamTyped, StreamTyped',
         \/ \E hits \in SUBSET Pixels : ReorderProcessed(hits)
         \/ ReorderRaw
         \/ ReorderIncrement
         \/ ConfigureReorder
  PROVE  StreamInv'
<1>1. UNCHANGED <<written, writer_queue, histogram, histogram_queue, lastVars>>
  BY DEF ReorderProcessed, ReorderRaw, ReorderIncrement, ConfigureReorder,
         nextframeVars, histogramVars, lastVars
<1>2. UNCHANGED <<Held, Behind, Out, Passed>>
  BY <1>1 DEF Held, Behind, Out, Passed
<1>3. nextframe_queue \in Seq(Item) /\ nextframe_queue' \in Seq(Item)
  BY DEF StreamTyped
<1>4. \A s \in Seq(Item) : s \o <<>> = s
  BY ConcatEmptySeq
<1>5. ASSUME NEW hits \in SUBSET Pixels, ReorderProcessed(hits) PROVE StreamInv'
  <2> DEFINE p == [dataset |-> "processed_frames", number |-> frame_number,
                   hits |-> hits]
             r == [dataset |-> "raw_frames", number |-> frame_number,
                   hits |-> hits]
  <2>1. p \in Frame /\ r \in Frame
    BY DEF TypeOK, Frame
  <2>2. Belongs(p, r) /\ p \in Item /\ r \in Item
    BY <2>1 DEF Belongs, ProcessedFrame, IsProcessed, Item
  <2>3. nextframe_queue' = Append(nextframe_queue, p)
    BY <1>5 DEF ReorderProcessed, PushNextFrame
  <2>4. Pending = <<>> /\ Pending' = <<r>>
    BY <1>5 DEF ReorderProcessed, Pending, RawNumber
  <2> HIDE DEF p, r
  <2>5. Ahead = nextframe_queue
    BY <1>3, <1>4, <2>4 DEF Ahead
  <2>6. Ahead' = Append(Append(Ahead, p), r)
    <3>1. Append(nextframe_queue, p) \in Seq(Item)
      BY <1>3, <2>2
    <3>2. Append(nextframe_queue, p) \o <<r>> = Append(Append(nextframe_queue, p), r)
      BY <2>2, <3>1, AppendIsConcat
    <3> QED
      BY <2>3, <2>4, <2>5, <3>2 DEF Ahead
  <2>7. \E x, y \in Item : Belongs(x, y) /\ Ahead' = Append(Append(Ahead, x), y)
    BY <2>2, <2>6
  <2> QED
    BY <1>1, <1>2, <2>7, AheadChanges
<1>6. CASE ReorderRaw
  <2> DEFINE r == [dataset |-> "raw_frames", number |-> RawNumber,
                   hits |-> reorder.hits]
  <2>1. r \in Item
    <3>1. r \in Frame
      BY DEF TypeOK, RawNumber, Frame
    <3> QED
      BY <3>1 DEF Item
  <2>2. Pending = <<r>> /\ Pending' = <<>>
    <3>1. reorder.step = "raw" /\ reorder'.step = "load"
      BY <1>6 DEF ReorderRaw, TypeOK
    <3> QED
      BY <3>1 DEF Pending
  <2>3. \/ nextframe_queue' = nextframe_queue
        \/ nextframe_queue' = Append(nextframe_queue, r)
    <3>1. CASE write_raw_data
      BY <1>6, <3>1 DEF ReorderRaw, PushNextFrame
    <3>2. CASE ~write_raw_data
      BY <1>6, <3>2 DEF ReorderRaw
    <3> QED
      BY <3>1, <3>2
  <2> HIDE DEF r
  <2>4. Ahead = Append(nextframe_queue, r) /\ Ahead' = nextframe_queue'
    <3>1. Ahead = nextframe_queue \o <<r>> /\ Ahead' = nextframe_queue' \o <<>>
      BY <2>2 DEF Ahead
    <3> QED
      BY <1>3, <1>4, <2>1, <3>1, AppendIsConcat
  <2>5. UNCHANGED Ahead \/ \E x \in Item : Ahead = Append(Ahead', x)
    BY <2>1, <2>3, <2>4
  <2> QED
    BY <1>1, <1>2, <2>5, AheadChanges
<1>7. CASE ReorderIncrement \/ ConfigureReorder
  <2>1. UNCHANGED nextframe_queue /\ UNCHANGED Pending
    <3>1. CASE ReorderIncrement
      <4>1. reorder.step # "raw" /\ reorder'.step # "raw"
        <5>1. CASE reorder.step = "load"
          BY <3>1, <5>1 DEF ReorderIncrement, TypeOK
        <5>2. CASE reorder.step = "increment"
          BY <3>1, <5>2 DEF ReorderIncrement, NoReorder
        <5> QED
          BY <3>1, <5>1, <5>2 DEF ReorderIncrement
      <4> QED
        BY <3>1, <4>1 DEF ReorderIncrement, Pending
    <3>2. CASE ConfigureReorder
      BY <3>2 DEF ConfigureReorder, Pending, RawNumber
    <3> QED
      BY <1>7, <3>1, <3>2
  <2>2. UNCHANGED Ahead
    BY <2>1 DEF Ahead
  <2> QED
    BY <1>1, <1>2, <2>2, NothingMoves
<1> QED
  BY <1>5, <1>6, <1>7

LEMMA NextFrameStream ==
  ASSUME StreamInv, TypeOK, StreamTyped, StreamTyped', NextFrameProcess
  PROVE  StreamInv'
<1> DEFINE frame == Head(nextframe_queue)
<1>1. nextframe_queue # <<>> /\ nextframe_queue' = Tail(nextframe_queue)
      /\ UNCHANGED <<written, writer_queue, histogram, reorder>>
  BY DEF NextFrameProcess, reorderVars, histogramVars
<1>2. UNCHANGED <<Out, Held, Pending>>
  BY <1>1 DEF Out, Held, Pending, RawNumber
<1>3. frame \in Frame
  BY <1>1 DEF TypeOK
<1>4. Ahead = <<frame>> \o Ahead'
  <2>1. /\ nextframe_queue \in Seq(Item) /\ Pending \in Seq(Item)
        /\ Tail(nextframe_queue) \in Seq(Item)
        /\ frame \in Item
        /\ nextframe_queue = <<frame>> \o Tail(nextframe_queue)
    BY <1>1, <1>3, HeadThenTail DEF StreamTyped
  <2>2. <<frame>> \in Seq(Item)
    BY <2>1
  <2> HIDE DEF frame
  <2>3. (<<frame>> \o Tail(nextframe_queue)) \o Pending
           = <<frame>> \o (Tail(nextframe_queue) \o Pending)
    BY <2>1, <2>2, ConcatAssociative
  <2> QED
    BY <1>1, <1>2, <2>1, <2>3 DEF Ahead
<1>5. ASSUME NEW corrected \in Frame,
             histogram_queue' = Append(histogram_queue, corrected)
      PROVE  Behind' = Append(Behind, corrected)
  <2>1. Held \in Seq(Item) /\ histogram_queue \in Seq(Item) /\ corrected \in Item
    BY DEF StreamTyped, Item
  <2> QED
    BY <1>2, <1>5, <2>1, AppendLast DEF Behind
<1>6. CASE frame.dataset = "raw_frames"
  <2>1. histogram_queue' = Append(histogram_queue, frame) /\ UNCHANGED lastVars
    BY <1>6 DEF NextFrameProcess, nextframeVars, lastVars
  <2>2. frame \in RawFrame
    BY <1>3, <1>6, FrameKinds
  <2> HIDE DEF frame
  <2>3. Behind' = Append(Behind, frame)
    BY <1>3, <1>5, <2>1
  <2> QED
    BY <1>2, <1>3, <1>4, <2>1, <2>2, <2>3, CorrectionChanges
<1>7. CASE frame.dataset # "raw_frames"
  <2> DEFINE corrected == Corrected(frame)
  <2>1. histogram_queue' = Append(histogram_queue, corrected)
        /\ last_frame_number' = frame.number /\ last_frame' = corrected.hits
    BY <1>7 DEF NextFrameProcess, Remember
  <2>2. corrected \in Frame
    BY <1>3, CorrectedTypes
  <2>3. /\ corrected.dataset = frame.dataset /\ corrected.number = frame.number
        /\ corrected.hits \subseteq frame.hits
        /\ corrected.number = last_frame_number + 1
             => last_frame \cap corrected.hits = {}
    <3>1. frame.hits \subseteq Pixels /\ frame.number \in Nat
      BY <1>3 DEF Frame
    <3>2. frame = [dataset |-> frame.dataset, number |-> frame.number,
                   hits |-> frame.hits]
      BY <1>3 DEF Frame
    <3> HIDE DEF frame
    <3>3. CASE last_frame_number + 1 = frame.number
      <4>1. corrected = [frame EXCEPT !.hits = @ \ last_frame]
        BY <3>3 DEF Corrected
      <4>2. /\ corrected.dataset = frame.dataset /\ corrected.number = frame.number
            /\ corrected.hits = frame.hits \ last_frame
        BY <3>2, <4>1
      <4> QED
        BY <4>2
    <3>4. CASE last_frame_number + 1 # frame.number
      <4>1. corrected = frame
        BY <3>4 DEF Corrected
      <4> QED
        BY <3>4, <4>1
    <3> QED
      BY <3>3, <3>4
  <2>4. frame \in ProcessedFrame /\ corrected \in ProcessedFrame
    <3>1. frame.dataset = "processed_frames"
      BY <1>3, <1>7 DEF Frame
    <3> QED
      BY <1>3, <2>2, <2>3, <3>1 DEF ProcessedFrame, IsProcessed
  <2> HIDE DEF frame, corrected
  <2>5. Behind' = Append(Behind, corrected)
    BY <1>5, <2>1, <2>2
  <2> QED
    BY <1>2, <1>3, <1>4, <2>1, <2>2, <2>3, <2>4, <2>5, CorrectionChanges
<1> QED
  BY <1>6, <1>7

LEMMA HistogramStream ==
  ASSUME StreamInv, TypeOK, StreamTyped, StreamTyped', HistogramProcess
  PROVE  StreamInv'
<1>1. UNCHANGED <<nextframe_queue, reorder, lastVars, written>>
  BY DEF HistogramProcess, HistogramTake, HistogramCheck, HistogramPush,
         HistogramWritten, HistogramPass, HistogramIncrement, reorderVars,
         nextframeVars, lastVars
<1>2. UNCHANGED Pending
  BY <1>1 DEF Pending, RawNumber
<1>3. UNCHANGED Ahead
  BY <1>1, <1>2 DEF Ahead
<1>4. /\ written \in Seq(Item) /\ writer_queue \in Seq(Item)
      /\ histogram_queue \in Seq(Item)
  BY DEF StreamTyped
<1>5. ASSUME NEW item \in Item, writer_queue' = Append(writer_queue, item)
      PROVE  Out' = Append(Out, item)
  BY <1>1, <1>4, <1>5, AppendLast DEF Out
<1>6. \A s \in Seq(Item) : <<>> \o s = s
  BY ConcatEmptySeq
<1>7. CASE HistogramTake
  <2> DEFINE frame == Head(histogram_queue)
  <2>1. /\ histogram.step = "idle" /\ histogram_queue # <<>>
        /\ histogram_queue' = Tail(histogram_queue)
    BY <1>7 DEF HistogramTake
  <2>2. frame \in Frame
    BY <2>1 DEF TypeOK
  <2>3. Tail(histogram_queue) \in Seq(Item)
        /\ histogram_queue = <<frame>> \o Tail(histogram_queue)
    BY <1>4, <2>1, HeadThenTail
  <2>4. Behind = histogram_queue
    BY <1>4, <1>6, <2>1 DEF Behind, Held
  <2>5. CASE frame.dataset = "raw_frames"
    <3>1. writer_queue' = Append(writer_queue, frame) /\ histogram' = histogram
      BY <1>7, <2>5 DEF HistogramTake
    <3>2. frame \in RawFrame
      BY <2>2, <2>5, FrameKinds
    <3>3. Behind' = Tail(histogram_queue)
      BY <1>6, <2>1, <2>3, <3>1 DEF Behind, Held
    <3> HIDE DEF frame
    <3>4. Behind = <<frame>> \o Behind'
      BY <2>3, <2>4, <3>3
    <3>5. Out' = Append(Out, frame)
      BY <1>5, <2>2, <3>1 DEF Item
    <3> QED
      BY <1>1, <1>3, <2>2, <3>2, <3>4, <3>5, FramePushed
  <2>6. CASE frame.dataset # "raw_frames"
    <3>1. /\ writer_queue' = writer_queue
          /\ histogram' = [step |-> "check", frame |-> frame, loaded |-> 0]
      BY <1>7, <2>6 DEF HistogramTake
    <3> HIDE DEF frame
    <3>2. Held' = <<frame>>
      BY <3>1 DEF Held
    <3>3. Behind' = Behind
      BY <2>1, <2>3, <2>4, <3>2 DEF Behind
    <3> QED
      BY <1>1, <1>3, <3>1, <3>3, NothingMoves
  <2> QED
    BY <2>5, <2>6
<1>8. CASE HistogramCheck \/ HistogramWritten \/ HistogramIncrement
  <2>1. UNCHANGED <<histogram_queue, writer_queue>>
    BY <1>8 DEF HistogramCheck, HistogramWritten, HistogramIncrement
  <2>2. UNCHANGED Held
    <3>1. CASE HistogramCheck \/ HistogramWritten
      BY <3>1 DEF HistogramCheck, HistogramWritten, HistogramGoesTo, Held, TypeOK
    <3>2. CASE HistogramIncrement
      <4>1. histogram.step \in {"load", "increment"}
            /\ histogram'.step \in {"increment", "idle"}
        <5>1. CASE histogram.step = "load"
          BY <3>2, <5>1 DEF HistogramIncrement, TypeOK
        <5>2. CASE histogram.step = "increment"
          BY <3>2, <5>2 DEF HistogramIncrement, NoHistogram
        <5> QED
          BY <3>2, <5>1, <5>2 DEF HistogramIncrement
      <4> QED
        BY <4>1 DEF Held
    <3> QED
      BY <1>8, <3>1, <3>2
  <2>3. UNCHANGED Behind
    BY <2>1, <2>2 DEF Behind
  <2> QED
    BY <1>1, <1>3, <2>1, <2>3, NothingMoves
<1>9. CASE HistogramPush
  <2>1. PushSpectrum(histogram.step) /\ histogram.step \in Spectra
        /\ UNCHANGED histogram_queue
    BY <1>9 DEF HistogramPush
  <2>2. UNCHANGED Held
    BY <1>9, <2>1 DEF HistogramPush, HistogramGoesTo, Held, TypeOK, Spectra
  <2>3. UNCHANGED Behind
    BY <2>1, <2>2 DEF Behind
  <2>4. PICK item \in PushedSpectrum : writer_queue' = Append(writer_queue, item)
    BY <2>1, PushTypes
  <2>5. Out' = Append(Out, item)
    BY <1>5, <2>4 DEF Item
  <2> QED
    BY <1>1, <1>3, <2>3, <2>5, SpectrumPushed
<1>10. CASE HistogramPass
  <2> DEFINE frame == histogram.frame
  <2>1. /\ histogram.step = "pass" /\ UNCHANGED histogram_queue
        /\ histogram'.step = "load"
    BY <1>10 DEF HistogramPass, HistogramGoesTo, TypeOK
  <2>2. frame \in Frame
    BY DEF TypeOK
  <2>3. Behind = <<frame>> \o histogram_queue /\ Behind' = histogram_queue
    BY <1>4, <1>6, <2>1 DEF Behind, Held
  <2>4. CASE pass_processed
    <3>1. writer_queue' = Append(writer_queue, frame)
      BY <1>10, <2>4 DEF HistogramPass
    <3> HIDE DEF frame
    <3>2. Out' = Append(Out, frame)
      BY <1>5, <2>2, <3>1 DEF Item
    <3>3. Behind = <<frame>> \o Behind'
      BY <2>3
    <3> QED
      BY <1>1, <1>3, <2>2, <2>4, <3>2, <3>3, FramePushed
  <2>5. CASE ~pass_processed
    <3>1. UNCHANGED writer_queue
      BY <1>10, <2>5 DEF HistogramPass
    <3>2. UNCHANGED Out
      BY <1>1, <3>1 DEF Out
    <3> QED
      BY <2>5, <3>2 DEF StreamInv
  <2> QED
    BY <2>4, <2>5
<1> QED
  BY <1>7, <1>8, <1>9, <1>10 DEF HistogramProcess

LEMMA ControlStream ==
  ASSUME StreamInv, TypeOK, StreamTyped, StreamTyped',
         ConfigureHistogram \/ FlushHistograms \/ InitialiseHistograms
  PROVE  StreamInv'
<1>1. UNCHANGED <<nextframe_queue, reorder, lastVars, written, histogram,
                  histogram_queue>>
  BY DEF ConfigureHistogram, FlushHistograms, InitialiseHistograms,
         reorderVars, nextframeVars, lastVars
<1>2. UNCHANGED <<Behind, Ahead>>
  BY <1>1 DEF Behind, Held, Ahead, Pending, RawNumber
<1>3. CASE UNCHANGED writer_queue
  BY <1>1, <1>2, <1>3, NothingMoves
<1>4. CASE configuring \in Spectra /\ PushSpectrum(configuring)
  <2>1. PICK item \in PushedSpectrum : writer_queue' = Append(writer_queue, item)
    BY <1>4, PushTypes
  <2>2. item \in Item /\ written \in Seq(Item) /\ writer_queue \in Seq(Item)
    BY DEF StreamTyped, Item
  <2>3. Out' = Append(Out, item)
    BY <1>1, <2>1, <2>2, AppendLast DEF Out
  <2> QED
    BY <1>1, <1>2, <2>3, SpectrumPushed
<1> QED
  BY <1>3, <1>4 DEF ConfigureHistogram, FlushHistograms, InitialiseHistograms

LEMMA WriterKeepsFrames ==
  ASSUME TypeOK, TypeOK', StreamTyped, StreamTyped', FileWriterWrites
  PROVE  SameFrames(Out, Out') /\ UNCHANGED <<Ahead, Behind, lastVars>>
<1> DEFINE item == Head(writer_queue)
           line == IF item.dataset \in Spectra
                   THEN [dataset |-> item.dataset, counts |-> memory[item.block],
                         counted |-> item.counted, cleared |-> item.cleared]
                   ELSE item
<1>1. /\ writer_queue # <<>> /\ writer_queue' = Tail(writer_queue)
      /\ written' = Append(written, line)
      /\ UNCHANGED <<nextframe_queue, reorder, lastVars, histogram,
                     histogram_queue>>
  BY DEF FileWriterWrites, reorderVars, nextframeVars, histogramVars, lastVars
<1>2. UNCHANGED <<Behind, Ahead>>
  BY <1>1 DEF Behind, Held, Ahead, Pending, RawNumber
<1>3. item \in Frame \cup PushedSpectrum
  BY <1>1, SMTT(30) DEF TypeOK
<1>4. \/ line = item
      \/ item \notin Frame /\ line \notin Frame /\ line.dataset = item.dataset
  <2>1. CASE item.dataset \in Spectra
    <3>1. line.dataset \in Spectra /\ line.dataset = item.dataset
      BY <2>1
    <3> HIDE DEF line, item
    <3> QED
      BY <2>1, <3>1, ItemKinds
  <2>2. CASE item.dataset \notin Spectra
    BY <2>2
  <2> QED
    BY <2>1, <2>2
<1> HIDE DEF line
<1>5. /\ written \in Seq(Item) /\ writer_queue \in Seq(Item)
      /\ written' \in Seq(Item) /\ item \in Item
  BY <1>3 DEF StreamTyped, Item
<1> DEFINE rest == Tail(writer_queue)
<1>6. rest \in Seq(Item) /\ writer_queue = <<item>> \o rest
  BY <1>1, <1>5, HeadThenTail
<1> HIDE DEF item, rest
<1>7. line \in Item
  <2>1. Append(written, line) \in Seq(Item)
    BY <1>1, <1>5
  <2>2. Len(written) \in Nat
    BY <1>5, LenProperties
  <2>3. Len(written) + 1 \in 1 .. Len(Append(written, line))
        /\ Append(written, line)[Len(written) + 1] = line
    BY <1>5, <2>2
  <2> QED
    BY <2>1, <2>3, ElementOfSeq
<1>8. Out = Append(written, item) \o rest
  BY <1>5, <1>6, MoveHead DEF Out
<1>9. Out' = Append(written, line) \o rest
  BY <1>1 DEF Out, rest
<1>10. SameFrames(Append(written, item) \o rest, Append(written, line) \o rest)
  <2>1. SameFrames(Append(written, item), Append(written, line))
    <3>1. /\ Len(written) \in Nat
          /\ Len(Append(written, item)) = Len(written) + 1
          /\ Append(written, item)[Len(written) + 1] = item
          /\ \A i \in 1 .. Len(written) : Append(written, item)[i] = written[i]
      BY <1>5, AppendProperties, LenProperties
    <3>2. /\ Len(Append(written, line)) = Len(written) + 1
          /\ Append(written, line)[Len(written) + 1] = line
          /\ \A i \in 1 .. Len(written) : Append(written, line)[i] = written[i]
      BY <1>5, <1>7, AppendProperties
    <3>3. ASSUME NEW k \in 1 .. (Len(written) + 1)
          PROVE  \/ Append(written, line)[k] = Append(written, item)[k]
                 \/ /\ Append(written, item)[k] \notin Frame
                    /\ Append(written, line)[k] \notin Frame
                    /\ Append(written, line)[k].dataset
                         = Append(written, item)[k].dataset
      <4>1. k \in 1 .. Len(written) \/ k = Len(written) + 1
        BY <3>1
      <4>2. CASE k \in 1 .. Len(written)
        BY <3>1, <3>2, <4>2
      <4>3. CASE k = Len(written) + 1
        BY <1>4, <3>1, <3>2, <4>3
      <4> QED
        BY <4>1, <4>2, <4>3
    <3> QED
      BY <3>1, <3>2, <3>3 DEF SameFrames
  <2>2. Append(written, item) \in Seq(Item) /\ Append(written, line) \in Seq(Item)
    BY <1>5, <1>7
  <2> QED
    BY <1>6, <2>1, <2>2, SameFramesConcat
<1>11. SameFrames(Out, Out')
  BY <1>8, <1>9, <1>10
<1>12. UNCHANGED lastVars
  BY <1>1
<1> QED
  BY <1>2, <1>11, <1>12

LEMMA WriterStream ==
  ASSUME StreamInv, TypeOK, TypeOK', StreamTyped, StreamTyped', FileWriterWrites
  PROVE  StreamInv'
BY WriterKeepsFrames, OutKept

LEMMA InitStream == Init => StreamInv
<1> SUFFICES ASSUME Init PROVE StreamInv
  OBVIOUS
<1>1. Out = <<>> /\ Behind = <<>> /\ Ahead = <<>>
  BY DEF Init, Out, Behind, Held, Ahead, Pending, NoReorder, NoHistogram
<1>2. Passed = <<>> /\ Passed \o Ahead = <<>>
  BY <1>1 DEF Passed
<1>3. Len(<<>>) = 0
  OBVIOUS
<1> QED
  BY <1>1, <1>2, <1>3 DEF StreamInv, Follows, Apart, EndsIn

LEMMA StreamStep ==
  ASSUME SpectraInv, StreamInv, [Next]_vars
  PROVE  StreamInv'
<1>1. TypeOK /\ TypeOK'
  BY SpectraStep DEF SpectraInv
<1>2. StreamTyped /\ StreamTyped'
  BY <1>1, StreamTypes, StreamTypesNext
<1>3. CASE UNCHANGED vars
  <2>1. UNCHANGED <<nextframe_queue, reorder, lastVars, histogram,
                    histogram_queue, written, writer_queue>>
    BY <1>3 DEF vars, reorderVars, nextframeVars, histogramVars, lastVars
  <2>2. UNCHANGED <<Behind, Ahead>>
    BY <2>1 DEF Behind, Held, Ahead, Pending, RawNumber
  <2> QED
    BY <1>2, <2>1, <2>2, NothingMoves
<1>4. CASE Next
  BY <1>1, <1>2, <1>4, ReorderStream, NextFrameStream, HistogramStream,
     ControlStream, WriterStream DEF Next
<1> QED
  BY <1>3, <1>4

\* What is in the file is the first part of the stream.
LEMMA FileOfStream ==
  ASSUME TypeOK, StreamInv
  PROVE  RawFollowsProcessed /\ NoPixelHitTwice
<1>1. /\ written \in Seq(Item) /\ writer_queue \in Seq(Item)
      /\ Out \in Seq(Item) /\ Behind \in Seq(Item) /\ Ahead \in Seq(Item)
      /\ Passed \in Seq(Item)
  BY StreamTypes DEF StreamTyped
<1>2. /\ Len(written) \in Nat /\ DOMAIN written = 1 .. Len(written)
      /\ \A k \in 1 .. Len(written) : written[k] \in Frame \cup WrittenSpectrum
  BY DEF TypeOK
<1>3. \A k \in 1 .. Len(written) :
        /\ written[k] \in ProcessedFrame <=> IsProcessed(written[k])
        /\ written[k] \in RawFrame <=> written[k].dataset = "raw_frames"
        /\ written[k] \in Frame <=> written[k].dataset \notin Spectra
  <2> TAKE k \in 1 .. Len(written)
  <2>1. CASE written[k] \in Frame
    BY <2>1, FrameKinds, ItemKinds
  <2>2. CASE written[k] \in WrittenSpectrum
    BY <2>2, FrameKinds DEF ProcessedFrame, RawFrame, IsProcessed, Spectra
  <2> QED
    BY <1>2, <2>1, <2>2
<1>4. CASE pass_processed
  <2>1. Follows(Passed \o Ahead) /\ Apart(Passed)
    BY <1>4 DEF StreamInv
  <2>2. Follows(Passed)
    BY <1>1, <2>1, FollowsPrefix
  <2>3. Follows(Out) /\ Apart(Out)
    BY <1>1, <2>1, <2>2, FollowsPrefix, ApartPrefix DEF Passed
  <2>4. Follows(written) /\ Apart(written)
    BY <1>1, <2>3, FollowsPrefix, ApartPrefix DEF Out
  <2>5. ASSUME NEW k \in DOMAIN written, written[k].dataset = "raw_frames"
        PROVE  \E j \in 1 .. (k - 1) :
                 /\ IsProcessed(written[j])
                 /\ written[j].number = written[k].number
                 /\ written[j].hits \subseteq written[k].hits
                 /\ \A i \in (j + 1) .. (k - 1) : written[i].dataset \in Spectra
    <3>1. k \in 1 .. Len(written) /\ written[k] \in RawFrame
      BY <1>2, <1>3, <2>5
    <3>2. PICK j \in 1 .. (k - 1) :
            /\ Belongs(written[j], written[k])
            /\ \A i \in (j + 1) .. (k - 1) : written[i] \notin Frame
      BY <2>4, <3>1 DEF Follows
    <3>3. \A i \in (j + 1) .. (k - 1) : i \in 1 .. Len(written)
      BY <1>2, <3>1
    <3>4. IsProcessed(written[j])
      BY <3>2 DEF Belongs, ProcessedFrame
    <3> QED
      BY <1>3, <3>2, <3>3, <3>4 DEF Belongs
  <2>6. RawFollowsProcessed
    BY <2>5 DEF RawFollowsProcessed
  <2>7. ASSUME NEW j \in DOMAIN written, NEW k \in DOMAIN written, j < k,
               IsProcessed(written[j]), IsProcessed(written[k]),
               \A i \in (j + 1) .. (k - 1) : ~IsProcessed(written[i]),
               written[k].number = written[j].number + 1
        PROVE  written[j].hits \cap written[k].hits = {}
    <3>1. j \in 1 .. Len(written) /\ k \in 1 .. Len(written)
          /\ \A i \in (j + 1) .. (k - 1) : i \in 1 .. Len(written)
      BY <1>2
    <3>2. /\ written[j] \in ProcessedFrame /\ written[k] \in ProcessedFrame
          /\ \A i \in (j + 1) .. (k - 1) : written[i] \notin ProcessedFrame
      BY <1>3, <2>7, <3>1
    <3> QED
      BY <2>4, <2>7, <3>1, <3>2 DEF Apart
  <2>8. NoPixelHitTwice
    BY <2>7 DEF NoPixelHitTwice
  <2> QED
    BY <2>6, <2>8
<1>5. CASE ~pass_processed
  <2>1. \A k \in 1 .. Len(Out) : Out[k] \notin ProcessedFrame
    BY <1>5 DEF StreamInv
  <2>2. /\ Len(Out) = Len(written) + Len(writer_queue) /\ Len(writer_queue) \in Nat
        /\ \A k \in 1 .. Len(written) : Out[k] = written[k]
    BY <1>1, Concat DEF Out
  <2>3. \A k \in 1 .. Len(written) : k \in 1 .. Len(Out)
    BY <1>2, <2>2
  <2>4. \A k \in DOMAIN written : ~IsProcessed(written[k])
    BY <1>2, <1>3, <2>1, <2>2, <2>3
  <2> QED
    BY <1>5, <2>4 DEF RawFollowsProcessed, NoPixelHitTwice
<1> QED
  BY <1>4, <1>5

\* However configure renumbers the frames and switches raw data on and off
\* while the threads run, a raw frame in the file comes right behind the
\* processed frame of its number.
THEOREM RawFramesPaired == Spec => []RawFollowsProcessed
<1>1. Init => SpectraInv /\ StreamInv
  BY InitSpectra, InitStream
<1>2. SpectraInv /\ StreamInv /\ [Next]_vars => (SpectraInv /\ StreamInv)'
  BY SpectraStep, StreamStep
<1>3. SpectraInv /\ StreamInv => RawFollowsProcessed
  BY FileOfStream DEF SpectraInv
<1> QED
  BY <1>1, <1>2, <1>3, PTL DEF Spec

\* However configure renumbers the frames, no pixel is hit in two successive
\* processed frames of the file that have successive numbers.
THEOREM SuccessiveFramesApart == Spec => []NoPixelHitTwice
<1>1. Init => SpectraInv /\ StreamInv
  BY InitSpectra, InitStream
<1>2. SpectraInv /\ StreamInv /\ [Next]_vars => (SpectraInv /\ StreamInv)'
  BY SpectraStep, StreamStep
<1>3. SpectraInv /\ StreamInv => NoPixelHitTwice
  BY FileOfStream DEF SpectraInv
<1> QED
  BY <1>1, <1>2, <1>3, PTL DEF Spec

-----------------------------------------------------------------------------
(* Periods                                                                 *)

LEMMA Remainder ==
  ASSUME NEW m \in Nat \ {0}, NEW q \in Nat, NEW d \in 0 .. (m - 1)
  PROVE  (q * m + d) % m = d
<1>1. q * m \in Nat
  OBVIOUS
<1> DEFINE a == q * m + d
           e == a \div m
<1>2. a \in Nat /\ e \in Nat /\ a % m \in 0 .. (m - 1) /\ a = m * e + (a % m)
  BY <1>1
<1> HIDE DEF e
<1> DEFINE r == a % m
<1>3. r \in 0 .. (m - 1) /\ q * m + d = m * e + r
  BY <1>2
<1> HIDE DEF r, a
<1>4. m * (q - e) = r - d /\ q - e \in Int
  BY <1>2, <1>3
<1>5. r - d < m /\ r - d > 0 - m
  BY <1>3
<1> DEFINE x == q - e
<1>6. x \in Int /\ m * x < m /\ m * x > 0 - m
  BY <1>4, <1>5
<1> HIDE DEF x
<1>7. x = 0
  <2>1. CASE x >= 1
    <3>1. m * x >= m
      BY <1>6, <2>1
    <3> QED
      BY <1>6, <3>1
  <2>2. CASE x <= -1
    <3>1. m * x <= 0 - m
      BY <1>6, <2>2
    <3> QED
      BY <1>6, <3>1
  <2> QED
    BY <1>6, <2>1, <2>2
<1>8. q = e
  BY <1>2, <1>7 DEF x
<1>9. r = d
  BY <1>3, <1>4, <1>8
<1> QED
  BY <1>9 DEF r, a

\* The frame that completes a period.
LEMMA PeriodEnd ==
  ASSUME NEW m \in Nat \ {0}, NEW q \in Nat, NEW n \in Nat,
         q * m <= n, n < (q + 1) * m
  PROVE  /\ (n + 1) % m = 0 => n + 1 = (q + 1) * m
         /\ (n + 1) % m # 0 => q * m <= n + 1 /\ n + 1 < (q + 1) * m
<1>1. q * m \in Nat /\ (q + 1) * m = q * m + m /\ (q + 1) * m \in Nat
  OBVIOUS
<1>2. CASE n + 1 = (q + 1) * m
  <2>1. ((q + 1) * m + 0) % m = 0
    BY Remainder
  <2>2. (q + 1) * m + 0 = n + 1
    BY <1>1, <1>2
  <2> QED
    BY <1>2, <2>1, <2>2
<1>3. CASE n + 1 # (q + 1) * m
  <2> DEFINE d == n + 1 - q * m
  <2>1. d \in 0 .. (m - 1) /\ d # 0 /\ q * m + d = n + 1
    BY <1>1, <1>3
  <2>2. (q * m + d) % m = d
    BY <2>1, Remainder
  <2>3. q * m <= n + 1 /\ n + 1 < (q + 1) * m
    BY <1>1, <1>3
  <2> HIDE DEF d
  <2> QED
    BY <2>1, <2>2, <2>3
<1> QED
  BY <1>2, <1>3

Indices(s, n, dataset) == {j \in 1 .. n : s[j].dataset = dataset}
Count(s, n, dataset) == Cardinality(Indices(s, n, dataset))

LEMMA CountNext ==
  ASSUME NEW s, NEW n \in Nat, NEW dataset
  PROVE  /\ Count(s, n, dataset) \in Nat
         /\ Count(s, n + 1, dataset)
              = Count(s, n, dataset) + IF s[n + 1].dataset = dataset THEN 1 ELSE 0
<1>1. IsFiniteSet(1 .. n)
  BY FS_Interval
<1>2. IsFiniteSet(Indices(s, n, dataset))
  BY <1>1, FS_Subset DEF Indices
<1>3. Count(s, n, dataset) \in Nat
  BY <1>2, FS_CardinalityType DEF Count
<1>4. CASE s[n + 1].dataset = dataset
  <2>1. n + 1 \notin Indices(s, n, dataset)
    BY DEF Indices
  <2>2. Indices(s, n + 1, dataset) = Indices(s, n, dataset) \cup {n + 1}
    BY <1>4 DEF Indices
  <2>3. Cardinality(Indices(s, n, dataset) \cup {n + 1})
          = Cardinality(Indices(s, n, dataset)) + 1
    BY <1>2, <2>1, FS_AddElement
  <2> QED
    BY <1>3, <1>4, <2>2, <2>3 DEF Count
<1>5. CASE s[n + 1].dataset # dataset
  <2>1. Indices(s, n + 1, dataset) = Indices(s, n, dataset)
    BY <1>5 DEF Indices
  <2> QED
    BY <1>3, <1>5, <2>1 DEF Count
<1> QED
  BY <1>3, <1>4, <1>5

LEMMA CountSame ==
  ASSUME NEW s, NEW u, NEW n \in Nat, NEW dataset,
         \A j \in 1 .. n : u[j].dataset = s[j].dataset
  PROVE  Count(u, n, dataset) = Count(s, n, dataset)
<1>1. Indices(u, n, dataset) = Indices(s, n, dataset)
  BY DEF Indices
<1> QED
  BY <1>1 DEF Count

LEMMA CountNone ==
  ASSUME NEW s, NEW dataset
  PROVE  Count(s, 0, dataset) = 0
<1>1. Indices(s, 0, dataset) = {}
  BY DEF Indices
<1> QED
  BY <1>1, FS_EmptySet DEF Count

\* What one more item adds.
LEMMA CountAppend ==
  ASSUME NEW S, NEW s \in Seq(S), NEW x \in S, NEW dataset
  PROVE  /\ \A n \in 0 .. Len(s) : Count(Append(s, x), n, dataset) = Count(s, n, dataset)
         /\ Count(Append(s, x), Len(Append(s, x)), dataset)
              = Count(s, Len(s), dataset) + IF x.dataset = dataset THEN 1 ELSE 0
         /\ Count(s, Len(s), dataset) \in Nat
<1> DEFINE u == Append(s, x)
<1>1. /\ Len(s) \in Nat /\ Len(u) = Len(s) + 1 /\ u[Len(s) + 1] = x
      /\ \A i \in 1 .. Len(s) : u[i] = s[i]
  BY AppendProperties, LenProperties
<1> HIDE DEF u
<1>2. ASSUME NEW n \in 0 .. Len(s) PROVE Count(u, n, dataset) = Count(s, n, dataset)
  <2>1. n \in Nat /\ \A j \in 1 .. n : j \in 1 .. Len(s)
    BY <1>1
  <2>2. \A j \in 1 .. n : u[j].dataset = s[j].dataset
    BY <1>1, <2>1
  <2> QED
    BY <2>1, <2>2, CountSame
<1>3. Count(u, Len(s) + 1, dataset)
        = Count(u, Len(s), dataset) + IF x.dataset = dataset THEN 1 ELSE 0
  BY <1>1, CountNext
<1>4. Count(u, Len(s), dataset) = Count(s, Len(s), dataset)
      /\ Count(s, Len(s), dataset) \in Nat
  <2>1. Len(s) \in 0 .. Len(s)
    BY <1>1
  <2> QED
    BY <1>1, <1>2, <2>1, CountNext
<1> QED
  BY <1>1, <1>2, <1>3, <1>4 DEF u

-----------------------------------------------------------------------------
(* Each pixel_spectra of s lies where a period is about to be complete. *)

PeriodsEnd(s) ==
  \A k \in 1 .. Len(s) : s[k].dataset = "pixel_spectra" =>
    Count(s, k - 1, "processed_frames") + 1
      = (Count(s, k - 1, "pixel_spectra") + 1) * max_frames_received

LEMMA PeriodsAppend ==
  ASSUME NEW S, NEW s \in Seq(S), NEW x \in S, PeriodsEnd(s),
         x.dataset = "pixel_spectra" =>
           Count(s, Len(s), "processed_frames") + 1
             = (Count(s, Len(s), "pixel_spectra") + 1) * max_frames_received
  PROVE  PeriodsEnd(Append(s, x))
<1> DEFINE u == Append(s, x)
<1>1. /\ Len(s) \in Nat /\ Len(u) = Len(s) + 1 /\ u[Len(s) + 1] = x
      /\ \A i \in 1 .. Len(s) : u[i] = s[i]
  BY AppendProperties, LenProperties
<1>2. \A n \in 0 .. Len(s) :
        /\ Count(u, n, "processed_frames") = Count(s, n, "processed_frames")
        /\ Count(u, n, "pixel_spectra") = Count(s, n, "pixel_spectra")
  <2>1. \A n \in 0 .. Len(s) :
          Count(u, n, "processed_frames") = Count(s, n, "processed_frames")
    BY CountAppend, ZenonT(30)
  <2>2. \A n \in 0 .. Len(s) :
          Count(u, n, "pixel_spectra") = Count(s, n, "pixel_spectra")
    BY CountAppend, ZenonT(30)
  <2> QED
    BY <2>1, <2>2
<1> HIDE DEF u
<1>3. ASSUME NEW k \in 1 .. Len(u), u[k].dataset = "pixel_spectra"
      PROVE  Count(u, k - 1, "processed_frames") + 1
               = (Count(u, k - 1, "pixel_spectra") + 1) * max_frames_received
  <2>1. k - 1 \in 0 .. Len(s)
    BY <1>1
  <2>2. /\ Count(u, k - 1, "processed_frames") = Count(s, k - 1, "processed_frames")
        /\ Count(u, k - 1, "pixel_spectra") = Count(s, k - 1, "pixel_spectra")
    BY <1>2, <2>1
  <2>3. CASE k = Len(s) + 1
    <3>1. k - 1 = Len(s) /\ x.dataset = "pixel_spectra"
      BY <1>1, <1>3, <2>3
    <3> QED
      BY <2>2, <3>1
  <2>4. CASE k # Len(s) + 1
    <3>1. k \in 1 .. Len(s)
      BY <1>1, <2>4
    <3>2. s[k].dataset = "pixel_spectra"
      BY <1>1, <1>3, <3>1
    <3> QED
      BY <2>2, <3>1, <3>2 DEF PeriodsEnd
  <2> QED
    BY <2>3, <2>4
<1>4. PeriodsEnd(u)
  BY <1>3 DEF PeriodsEnd
<1> QED
  BY <1>4 DEF u

LEMMA PeriodsSame ==
  ASSUME NEW s \in Seq(Item), NEW u \in Seq(Item), SameFrames(s, u)
  PROVE  /\ PeriodsEnd(s) => PeriodsEnd(u)
         /\ \A dataset : Count(u, Len(u), dataset) = Count(s, Len(s), dataset)
<1>1. /\ Len(u) = Len(s) /\ Len(s) \in Nat
      /\ \A k \in 1 .. Len(s) : u[k].dataset = s[k].dataset
  BY LenProperties DEF SameFrames
<1>2. ASSUME NEW n \in 0 .. Len(s), NEW dataset
      PROVE  Count(u, n, dataset) = Count(s, n, dataset)
  <2>1. n \in Nat /\ \A j \in 1 .. n : j \in 1 .. Len(s)
    BY <1>1
  <2>2. \A j \in 1 .. n : u[j].dataset = s[j].dataset
    BY <1>1, <2>1
  <2> QED
    BY <2>1, <2>2, CountSame
<1>3. ASSUME PeriodsEnd(s), NEW k \in 1 .. Len(u), u[k].dataset = "pixel_spectra"
      PROVE  Count(u, k - 1, "processed_frames") + 1
               = (Count(u, k - 1, "pixel_spectra") + 1) * max_frames_received
  <2>1. k - 1 \in 0 .. Len(s) /\ k \in 1 .. Len(s)
    BY <1>1
  <2>2. s[k].dataset = "pixel_spectra"
    BY <1>1, <1>3, <2>1
  <2>3. /\ Count(u, k - 1, "processed_frames") = Count(s, k - 1, "processed_frames")
        /\ Count(u, k - 1, "pixel_spectra") = Count(s, k - 1, "pixel_spectra")
    BY <1>2, <2>1
  <2> QED
    BY <1>3, <2>1, <2>2, <2>3 DEF PeriodsEnd
<1>4. Len(s) \in 0 .. Len(s)
  BY <1>1
<1> QED
  BY <1>1, <1>2, <1>3, <1>4 DEF PeriodsEnd

LEMMA PeriodsPrefix ==
  ASSUME NEW s \in Seq(Item), NEW t \in Seq(Item), PeriodsEnd(s \o t)
  PROVE  PeriodsEnd(s)
<1> DEFINE v == s \o t
<1>1. /\ Len(v) = Len(s) + Len(t) /\ Len(s) \in Nat /\ Len(t) \in Nat
      /\ \A i \in 1 .. Len(s) : v[i] = s[i]
  BY Concat
<1>2. PeriodsEnd(v)
  OBVIOUS
<1> HIDE DEF v
<1>3. ASSUME NEW k \in 1 .. Len(s), s[k].dataset = "pixel_spectra"
      PROVE  Count(s, k - 1, "processed_frames") + 1
               = (Count(s, k - 1, "pixel_spectra") + 1) * max_frames_received
  <2>1. k \in 1 .. Len(v) /\ v[k].dataset = "pixel_spectra" /\ k - 1 \in Nat
        /\ \A j \in 1 .. (k - 1) : v[j].dataset = s[j].dataset
    BY <1>1, <1>3
  <2>2. \A dataset : Count(v, k - 1, dataset) = Count(s, k - 1, dataset)
    BY <2>1, CountSame
  <2> QED
    BY <1>2, <2>1, <2>2 DEF PeriodsEnd
<1> QED
  BY <1>3 DEF PeriodsEnd

\* The numbers of frames and of histograms pushed so far.
FramesOut == Count(Out, Len(Out), "processed_frames")
HistogramsOut == Count(Out, Len(Out), "pixel_spectra")

\* What the frame in hand, once it is pushed, makes the number of frames.
WithThisFrame ==
  IF histogram.step \in {"idle", "check"} THEN frames_processed
  ELSE frames_processed + 1

PeriodInv ==
  configurations = 0 /\ pass_processed =>
    /\ configuring = "no"
    /\ PeriodsEnd(Out)
    /\ histogram.step \notin {"idle", "load", "increment"} =>
         IsProcessed(histogram.frame)
    /\ histogram.step = "increment" => histogram.loaded = frames_processed
    /\ FramesOut = IF histogram.step \in {"load", "increment"}
                   THEN frames_processed + 1 ELSE frames_processed
    /\ IF histogram.step \in Spectra
       THEN WithThisFrame = (HistogramsOut + 1) * max_frames_received
       ELSE /\ HistogramsOut * max_frames_received <= WithThisFrame
            /\ WithThisFrame < (HistogramsOut + 1) * max_frames_received

\* Steps of the other threads.
LEMMA PeriodUnchanged ==
  ASSUME PeriodInv, configurations' = 0 => UNCHANGED <<configurations, configuring>>,
         UNCHANGED <<Out, histogram, frames_processed>>
  PROVE  PeriodInv'
BY DEF PeriodInv, FramesOut, HistogramsOut, WithThisFrame

LEMMA WriterPeriods ==
  ASSUME PeriodInv, TypeOK, TypeOK', FileWriterWrites
  PROVE  PeriodInv'
<1>1. UNCHANGED <<configurations, configuring, histogram, frames_processed>>
  BY DEF FileWriterWrites, histogramVars, controlVars
<1>2. StreamTyped /\ StreamTyped'
  BY StreamTypes, StreamTypesNext
<1>3. Out \in Seq(Item) /\ Out' \in Seq(Item) /\ SameFrames(Out, Out')
  BY <1>2, WriterKeepsFrames DEF StreamTyped
<1>4. /\ PeriodsEnd(Out) => PeriodsEnd(Out')
      /\ FramesOut' = FramesOut /\ HistogramsOut' = HistogramsOut
  BY <1>3, PeriodsSame DEF FramesOut, HistogramsOut
<1> QED
  BY <1>1, <1>4 DEF PeriodInv, WithThisFrame

\* One more item pushed to the writer.
LEMMA PushCounts ==
  ASSUME TypeOK, NEW item \in Item, UNCHANGED written,
         writer_queue' = Append(writer_queue, item)
  PROVE  /\ FramesOut \in Nat /\ HistogramsOut \in Nat
         /\ FramesOut' = FramesOut + IF IsProcessed(item) THEN 1 ELSE 0
         /\ HistogramsOut'
              = HistogramsOut + IF item.dataset = "pixel_spectra" THEN 1 ELSE 0
         /\ PeriodsEnd(Out)
              /\ (item.dataset = "pixel_spectra" =>
                    FramesOut + 1 = (HistogramsOut + 1) * max_frames_received)
            => PeriodsEnd(Out')
<1>1. /\ written \in Seq(Item) /\ writer_queue \in Seq(Item) /\ Out \in Seq(Item)
  BY StreamTypes DEF StreamTyped
<1>2. Out' = Append(Out, item)
  BY <1>1, AppendLast DEF Out
<1> DEFINE s == Out
<1>3. s \in Seq(Item) /\ Out' = Append(s, item)
  BY <1>1, <1>2
<1> HIDE DEF s
<1>4. /\ Count(Append(s, item), Len(Append(s, item)), "processed_frames")
           = Count(s, Len(s), "processed_frames")
               + IF item.dataset = "processed_frames" THEN 1 ELSE 0
      /\ Count(s, Len(s), "processed_frames") \in Nat
  BY <1>3, CountAppend
<1>5. /\ Count(Append(s, item), Len(Append(s, item)), "pixel_spectra")
           = Count(s, Len(s), "pixel_spectra")
               + IF item.dataset = "pixel_spectra" THEN 1 ELSE 0
      /\ Count(s, Len(s), "pixel_spectra") \in Nat
  BY <1>3, CountAppend
<1>6. FramesOut = Count(s, Len(s), "processed_frames")
      /\ HistogramsOut = Count(s, Len(s), "pixel_spectra")
  BY DEF FramesOut, HistogramsOut, s
<1>7. /\ FramesOut' = Count(Append(s, item), Len(Append(s, item)), "processed_frames")
      /\ HistogramsOut' = Count(Append(s, item), Len(Append(s, item)), "pixel_spectra")
  BY <1>3 DEF FramesOut, HistogramsOut
<1>8. ASSUME PeriodsEnd(s),
             item.dataset = "pixel_spectra" =>
               FramesOut + 1 = (HistogramsOut + 1) * max_frames_received
      PROVE  PeriodsEnd(Append(s, item))
  BY <1>3, <1>6, <1>8, PeriodsAppend
<1>9. PeriodsEnd(Out) => PeriodsEnd(s)
  BY DEF s
<1> QED
  BY <1>3, <1>4, <1>5, <1>6, <1>7, <1>8, <1>9 DEF IsProcessed

LEMMA HistogramPeriods ==
  ASSUME PeriodInv, TypeOK, TypeOK', HistogramProcess
  PROVE  PeriodInv'
<1>1. UNCHANGED <<configurations, configuring, written>>
  BY DEF HistogramProcess, HistogramTake, HistogramCheck, HistogramPush,
         HistogramWritten, HistogramPass, HistogramIncrement, controlVars
<1> SUFFICES ASSUME configurations' = 0, pass_processed PROVE PeriodInv'
  BY DEF PeriodInv
<1> DEFINE fp == frames_processed
           H == HistogramsOut
           m == max_frames_received
<1>2. /\ configuring = "no"
      /\ PeriodsEnd(Out)
      /\ histogram.step \notin {"idle", "load", "increment"} =>
           IsProcessed(histogram.frame)
      /\ histogram.step = "increment" => histogram.loaded = fp
      /\ FramesOut = IF histogram.step \in {"load", "increment"}
                     THEN fp + 1 ELSE fp
      /\ IF histogram.step \in Spectra
         THEN WithThisFrame = (H + 1) * m
         ELSE H * m <= WithThisFrame /\ WithThisFrame < (H + 1) * m
  BY <1>1 DEF PeriodInv
<1>3. fp \in Nat /\ m \in Nat \ {0} /\ H \in Nat
  <2>1. Len(Out) \in Nat
    <3>1. Out \in Seq(Item)
      BY StreamTypes DEF StreamTyped
    <3> QED
      BY <3>1, LenProperties
  <2> QED
    BY <2>1, CountNext, ChainAssumption DEF TypeOK, HistogramsOut
<1>4. ASSUME UNCHANGED writer_queue
      PROVE  /\ UNCHANGED <<Out, FramesOut, HistogramsOut>> /\ PeriodsEnd(Out')
  BY <1>1, <1>2, <1>4 DEF Out, FramesOut, HistogramsOut
<1>5. CASE HistogramTake
  <2> DEFINE frame == Head(histogram_queue)
  <2>1. /\ histogram.step = "idle" /\ histogram_queue # <<>>
        /\ frames_processed' = fp
    BY <1>5 DEF HistogramTake
  <2>2. frame \in Frame
    BY <2>1, SMTT(30) DEF TypeOK
  <2>3. WithThisFrame = fp /\ histogram.step \notin Spectra
    BY <2>1 DEF WithThisFrame, Spectra
  <2>4. CASE frame.dataset = "raw_frames"
    <3>1. writer_queue' = Append(writer_queue, frame) /\ histogram' = histogram
      BY <1>5, <2>4 DEF HistogramTake
    <3>2. frame \in Item /\ ~IsProcessed(frame) /\ frame.dataset # "pixel_spectra"
      BY <2>2, <2>4 DEF Item, IsProcessed
    <3> HIDE DEF frame
    <3>3. /\ FramesOut' = FramesOut + 0 /\ HistogramsOut' = H + 0 /\ PeriodsEnd(Out')
          /\ FramesOut \in Nat
      BY <1>1, <1>2, <3>1, <3>2, PushCounts
    <3>4. FramesOut' = FramesOut /\ HistogramsOut' = H
      BY <1>3, <3>3
    <3>5. WithThisFrame' = fp
      BY <2>1, <3>1 DEF WithThisFrame
    <3> QED
      BY <1>1, <1>2, <2>1, <2>3, <3>1, <3>3, <3>4, <3>5 DEF PeriodInv
  <2>5. CASE frame.dataset # "raw_frames"
    <3>1. /\ writer_queue' = writer_queue
          /\ histogram' = [step |-> "check", frame |-> frame, loaded |-> 0]
      BY <1>5, <2>5 DEF HistogramTake
    <3>2. IsProcessed(frame)
      BY <2>2, <2>5 DEF Frame, IsProcessed
    <3> HIDE DEF frame
    <3>3. histogram'.step = "check" /\ IsProcessed(histogram'.frame)
      BY <3>1, <3>2
    <3>4. WithThisFrame' = fp /\ histogram'.step \notin Spectra
      BY <2>1, <3>3 DEF WithThisFrame, Spectra
    <3> QED
      BY <1>1, <1>2, <1>4, <2>1, <2>3, <3>1, <3>3, <3>4 DEF PeriodInv
  <2> QED
    BY <2>4, <2>5
<1>6. CASE HistogramCheck
  <2>1. /\ histogram.step = "check" /\ frames_processed' = fp
        /\ UNCHANGED writer_queue
        /\ histogram'.step = IF PeriodComplete THEN "summed_spectra" ELSE "pass"
        /\ histogram'.frame = histogram.frame
    BY <1>6 DEF HistogramCheck, HistogramGoesTo, TypeOK
  <2>2. WithThisFrame = fp /\ WithThisFrame' = fp + 1
    BY <2>1 DEF WithThisFrame
  <2>3. H * m <= fp /\ fp < (H + 1) * m
    BY <1>2, <2>1, <2>2 DEF Spectra
  <2>4. /\ (fp + 1) % m = 0 => fp + 1 = (H + 1) * m
        /\ (fp + 1) % m # 0 => H * m <= fp + 1 /\ fp + 1 < (H + 1) * m
    BY <1>3, <2>3, PeriodEnd
  <2>5. CASE PeriodComplete
    <3>1. histogram'.step = "summed_spectra" /\ fp + 1 = (H + 1) * m
      BY <2>1, <2>4, <2>5 DEF PeriodComplete
    <3> QED
      BY <1>1, <1>2, <1>4, <2>1, <2>2, <3>1 DEF PeriodInv, Spectra
  <2>6. CASE ~PeriodComplete
    <3>1. histogram'.step = "pass" /\ H * m <= fp + 1 /\ fp + 1 < (H + 1) * m
      BY <2>1, <2>4, <2>6 DEF PeriodComplete
    <3> QED
      BY <1>1, <1>2, <1>4, <2>1, <2>2, <3>1 DEF PeriodInv, Spectra
  <2> QED
    BY <2>5, <2>6
<1>7. CASE HistogramPush
  <2>1. /\ histogram.step \in Spectra /\ PushSpectrum(histogram.step)
        /\ frames_processed' = fp
        /\ histogram'.step = IF histogram.step = "summed_spectra"
                             THEN "pixel_spectra" ELSE "written"
        /\ histogram'.frame = histogram.frame
    BY <1>7 DEF HistogramPush, HistogramGoesTo, TypeOK
  <2>2. PICK item \in PushedSpectrum :
          item.dataset = histogram.step /\ writer_queue' = Append(writer_queue, item)
    BY <2>1, PushTypes
  <2>3. item \in Item /\ ~IsProcessed(item)
    BY <2>1, <2>2 DEF Item, IsProcessed, Spectra
  <2>4. WithThisFrame = fp + 1 /\ WithThisFrame' = fp + 1
    BY <2>1 DEF WithThisFrame, Spectra
  <2>5. fp + 1 = (H + 1) * m /\ FramesOut = fp
    BY <1>2, <2>1, <2>4 DEF Spectra
  <2>6. /\ FramesOut' = FramesOut + 0
        /\ HistogramsOut' = H + IF item.dataset = "pixel_spectra" THEN 1 ELSE 0
        /\ PeriodsEnd(Out')
    BY <1>1, <1>2, <2>2, <2>3, <2>5, PushCounts
  <2>7. FramesOut' = fp
    BY <1>3, <2>5, <2>6
  <2>8. CASE histogram.step = "summed_spectra"
    <3>1. histogram'.step = "pixel_spectra" /\ HistogramsOut' = H
      BY <1>3, <2>1, <2>2, <2>6, <2>8
    <3> QED
      BY <1>1, <1>2, <2>1, <2>4, <2>5, <2>6, <2>7, <2>8, <3>1 DEF PeriodInv, Spectra
  <2>9. CASE histogram.step = "pixel_spectra"
    <3>1. histogram'.step = "written" /\ HistogramsOut' = H + 1
      BY <1>3, <2>1, <2>2, <2>6, <2>9
    <3>2. (H + 1) * m <= fp + 1 /\ fp + 1 < ((H + 1) + 1) * m
      <4>1. (H + 1) * m \in Nat /\ ((H + 1) + 1) * m = (H + 1) * m + m
        BY <1>3
      <4> QED
        BY <1>3, <2>5, <4>1
    <3> QED
      BY <1>1, <1>2, <2>1, <2>4, <2>6, <2>7, <2>9, <3>1, <3>2 DEF PeriodInv, Spectra
  <2> QED
    BY <2>1, <2>8, <2>9 DEF Spectra
<1>8. CASE HistogramPass
  <2> DEFINE frame == histogram.frame
  <2>1. /\ histogram.step = "pass" /\ frames_processed' = fp
        /\ histogram'.step = "load"
        /\ writer_queue' = Append(writer_queue, frame)
    BY <1>8 DEF HistogramPass, HistogramGoesTo, TypeOK
  <2>2. frame \in Item /\ IsProcessed(frame) /\ frame.dataset # "pixel_spectra"
    BY <1>2, <2>1 DEF TypeOK, Item, IsProcessed
  <2>3. WithThisFrame = fp + 1 /\ WithThisFrame' = fp + 1 /\ FramesOut = fp
        /\ H * m <= fp + 1 /\ fp + 1 < (H + 1) * m
    BY <1>2, <2>1 DEF WithThisFrame, Spectra
  <2> HIDE DEF frame
  <2>4. /\ FramesOut' = FramesOut + 1 /\ HistogramsOut' = H + 0 /\ PeriodsEnd(Out')
    BY <1>1, <1>2, <2>1, <2>2, PushCounts
  <2>5. FramesOut' = fp + 1 /\ HistogramsOut' = H
    BY <1>3, <2>3, <2>4
  <2> QED
    BY <1>1, <1>2, <2>1, <2>3, <2>4, <2>5 DEF PeriodInv, Spectra
<1>9. CASE HistogramWritten
  <2>1. /\ histogram.step = "written" /\ histogram'.step = "pass"
        /\ frames_processed' = fp /\ histogram'.frame = histogram.frame
        /\ UNCHANGED writer_queue
    BY <1>9 DEF HistogramWritten, HistogramGoesTo, TypeOK
  <2>2. WithThisFrame = fp + 1 /\ WithThisFrame' = fp + 1
    BY <2>1 DEF WithThisFrame
  <2> QED
    BY <1>1, <1>2, <1>4, <2>1, <2>2 DEF PeriodInv, Spectra
<1>10. CASE HistogramIncrement /\ histogram.step = "load"
  <2>1. /\ histogram'.step = "increment" /\ histogram'.loaded = fp
        /\ frames_processed' = fp /\ UNCHANGED writer_queue
    BY <1>10 DEF HistogramIncrement, TypeOK
  <2>2. WithThisFrame = fp + 1 /\ WithThisFrame' = fp + 1 /\ FramesOut = fp + 1
    BY <1>2, <1>10, <2>1 DEF WithThisFrame
  <2> QED
    BY <1>1, <1>2, <1>4, <1>10, <2>1, <2>2 DEF PeriodInv, Spectra
<1>11. CASE HistogramIncrement /\ histogram.step = "increment"
  <2>1. /\ frames_processed' = histogram.loaded + 1
        /\ histogram'.step = "idle" /\ UNCHANGED writer_queue
    BY <1>11 DEF HistogramIncrement, NoHistogram
  <2>2. frames_processed' = fp + 1 /\ FramesOut = fp + 1
    BY <1>2, <1>11, <2>1
  <2>3. WithThisFrame = fp + 1 /\ WithThisFrame' = fp + 1
    BY <1>11, <2>1, <2>2 DEF WithThisFrame
  <2> QED
    BY <1>1, <1>2, <1>4, <1>11, <2>1, <2>2, <2>3 DEF PeriodInv, Spectra
<1>12. HistogramIncrement => histogram.step \in {"load", "increment"}
  BY DEF HistogramIncrement
<1> QED
  BY <1>5, <1>6, <1>7, <1>8, <1>9, <1>10, <1>11, <1>12 DEF HistogramProcess

LEMMA InitPeriods == Init => PeriodInv
<1> SUFFICES ASSUME Init PROVE PeriodInv
  OBVIOUS
<1>1. Out = <<>> /\ Len(Out) = 0
  BY DEF Init, Out
<1>2. FramesOut = 0 /\ HistogramsOut = 0
  BY <1>1, CountNone DEF FramesOut, HistogramsOut
<1>3. PeriodsEnd(Out)
  BY <1>1 DEF PeriodsEnd
<1>4. histogram.step = "idle" /\ frames_processed = 0 /\ configuring = "no"
  BY DEF Init, NoHistogram
<1>5. WithThisFrame = 0
  BY <1>4 DEF WithThisFrame
<1>6. 0 * max_frames_received = 0 /\ 0 < (0 + 1) * max_frames_received
  BY ChainAssumption
<1> QED
  BY <1>2, <1>3, <1>4, <1>5, <1>6 DEF PeriodInv, Spectra

LEMMA PeriodStep ==
  ASSUME SpectraInv, PeriodInv, [Next]_vars
  PROVE  PeriodInv'
<1>1. TypeOK /\ TypeOK'
  BY SpectraStep DEF SpectraInv
<1>2. CASE \/ \E hits \in SUBSET Pixels : ReorderProcessed(hits)
           \/ ReorderRaw \/ ReorderIncrement \/ NextFrameProcess
           \/ UNCHANGED vars
  <2>1. UNCHANGED <<written, writer_queue, histogram, frames_processed,
                    configurations, configuring>>
    BY <1>2 DEF ReorderProcessed, ReorderRaw, ReorderIncrement, NextFrameProcess,
                histogramVars, controlVars, vars
  <2>2. UNCHANGED Out
    BY <2>1 DEF Out
  <2> QED
    BY <2>1, <2>2, PeriodUnchanged
\* A call of configure that has begun is counted.
<1>3. CASE ConfigureReorder \/ ConfigureHistogram
  <2>1. configurations' = configurations + 1 /\ configurations \in Nat
    BY <1>1, <1>3, ChainAssumption
    DEF ConfigureReorder, ConfigureHistogram, BeginConfigure, TypeOK
  <2> QED
    BY <2>1 DEF PeriodInv
<1>4. CASE FlushHistograms \/ InitialiseHistograms
  <2>1. configuring # "no" /\ UNCHANGED configurations
    BY <1>4 DEF FlushHistograms, InitialiseHistograms, Spectra
  <2> QED
    BY <2>1 DEF PeriodInv
<1> QED
  BY <1>1, <1>2, <1>3, <1>4, HistogramPeriods, WriterPeriods DEF Next

LEMMA FilePeriods ==
  ASSUME TypeOK, PeriodInv
  PROVE  HistogramsEndPeriods
<1> SUFFICES ASSUME configurations = 0, pass_processed,
                    NEW k \in DOMAIN written, written[k].dataset = "pixel_spectra"
             PROVE  Count(written, k - 1, "processed_frames") + 1
                      = (Count(written, k - 1, "pixel_spectra") + 1)
                          * max_frames_received
  BY DEF HistogramsEndPeriods, Count, Indices
<1>1. /\ written \in Seq(Item) /\ writer_queue \in Seq(Item)
      /\ DOMAIN written = 1 .. Len(written)
  BY StreamTypes, LenProperties DEF StreamTyped
<1>2. PeriodsEnd(written)
  BY <1>1, PeriodsPrefix DEF PeriodInv, Out
<1> QED
  BY <1>1, <1>2 DEF PeriodsEnd

\* Left alone, the plugin pushes each histogram with the frame that completes
\* its period, for every period and any number of frames and raw frames
\* between them.
THEOREM PeriodsComplete == Spec => []HistogramsEndPeriods
<1>1. Init => SpectraInv /\ PeriodInv
  BY InitSpectra, InitPeriods
<1>2. SpectraInv /\ PeriodInv /\ [Next]_vars => (SpectraInv /\ PeriodInv)'
  BY SpectraStep, PeriodStep
<1>3. SpectraInv /\ PeriodInv => HistogramsEndPeriods
  BY FilePeriods DEF SpectraInv
<1> QED
  BY <1>1, <1>2, <1>3, PTL DEF Spec
=============================================================================
