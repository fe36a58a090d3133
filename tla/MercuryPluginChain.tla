------------------------- MODULE MercuryPluginChain -------------------------
(***************************************************************************)
(* The frame processor's chain reorder -> next frame -> histogram -> file  *)
(* writer.  odin-data gives each plugin a thread and a FIFO queue; a       *)
(* plugin pushes its frames into the queue of the next one.  configure     *)
(* runs in a further thread, between any two steps of the plugins': the    *)
(* members it shares with them have no lock, so an increment is a load and *)
(* a store.                                                                *)
(*                                                                         *)
(* A frame is the set of its hit pixels.  A spectrum is a block of memory  *)
(* that holds the number of hits counted in it: the frame pushed to the    *)
(* writer points to the block, which goes on changing.  spectra_bins holds *)
(* no counts and is left out.                                              *)
(***************************************************************************)
EXTENDS Integers, FiniteSets, Sequences, SequencesExt

CONSTANTS
  Pixels,
  max_frames_received,   \* frames from one writing of histograms to the next
  pass_processed,        \* does the histogram plugin pass frames on?
  frame_numbers,         \* that configure may give the next frame
  MaxFrames,             \* bound: frames from the frame receiver
  MaxConfigurations      \* bound: calls of configure

\* max_frames_received_ is 0 until configured, and is divided by.
ASSUME ChainAssumption ==
  /\ max_frames_received \in Nat \ {0}
  /\ pass_processed \in BOOLEAN /\ frame_numbers \subseteq Nat
  /\ IsFiniteSet(Pixels)
  /\ MaxFrames \in Nat /\ MaxConfigurations \in Nat

Spectra == {"summed_spectra", "pixel_spectra"}
HistogramSteps == Spectra \cup {"idle", "check", "written", "pass", "load", "increment"}
ConfigureSteps == Spectra \cup {"no", "reset", "new_summed", "new_pixel", "clear"}

VARIABLES
  frames_received,     \* frames the reorder plugin has begun to process
  reorder,             \* its thread: [step, number, hits, loaded]
  frame_number,
  write_raw_data,
  nextframe_queue, last_frame_number, last_frame,
  histogram_queue,
  histogram,           \* its thread: [step, frame, loaded]
  frames_processed, histograms_written,
  memory,              \* the blocks allocated so far
  spectra,             \* the block each of the spectra points to
  configuring,         \* the step of the control thread in configure
  configurations,      \* calls of configure so far
  writer_queue,
  written              \* what the file writer has written

reorderVars == <<frames_received, reorder, frame_number, write_raw_data>>
nextframeVars == <<last_frame_number, last_frame>>
histogramVars == <<histogram, frames_processed, histograms_written, memory,
                   spectra>>
controlVars == <<configuring, configurations>>
vars == <<reorderVars, nextframe_queue, nextframeVars, histogram_queue,
          histogramVars, controlVars, writer_queue, written>>

Frame == [dataset : {"processed_frames", "raw_frames"}, number : Nat,
          hits : SUBSET Pixels]

\* History: counted is what the block held when it was pushed, and cleared is
\* FALSE if configure had allocated it and had still to clear it.
PushedSpectrum == [dataset : Spectra, block : Nat, counted : Nat,
                   cleared : BOOLEAN]
WrittenSpectrum == [dataset : Spectra, counts : Nat, counted : Nat,
                    cleared : BOOLEAN]

\* The type invariant of the plugins' members, threads and queues.
TypeOK ==
  /\ frames_received \in 0 .. MaxFrames
  /\ reorder \in [step : {"idle", "raw", "load", "increment"}, number : Nat,
                  hits : SUBSET Pixels, loaded : Nat]
  /\ frame_number \in Nat /\ write_raw_data \in BOOLEAN
  /\ nextframe_queue \in Seq(Frame) /\ histogram_queue \in Seq(Frame)
  /\ last_frame_number \in Nat \cup {-1} /\ last_frame \subseteq Pixels
  /\ histogram \in [step : HistogramSteps, frame : Frame, loaded : Nat]
  /\ frames_processed \in Nat /\ histograms_written \in Nat
  /\ memory \in Seq(Nat) /\ spectra \in [Spectra -> DOMAIN memory]
  /\ configuring \in ConfigureSteps /\ configurations \in 0 .. MaxConfigurations
  /\ writer_queue \in Seq(Frame \cup PushedSpectrum)
  /\ written \in Seq(Frame \cup WrittenSpectrum)

NoReorder == [step |-> "idle", number |-> 0, hits |-> {}, loaded |-> 0]
NoFrame == [dataset |-> "raw_frames", number |-> 0, hits |-> {}]
NoHistogram == [step |-> "idle", frame |-> NoFrame, loaded |-> 0]

Init ==
  /\ frames_received = 0 /\ reorder = NoReorder
  /\ frame_number = 0 /\ write_raw_data \in BOOLEAN
  /\ nextframe_queue = <<>> /\ histogram_queue = <<>>
  /\ last_frame_number = -1 /\ last_frame = {}
  /\ histogram = NoHistogram /\ frames_processed = 0
  /\ histograms_written = 0
  /\ memory = <<0, 0>>
  /\ spectra = [dataset \in Spectra |-> IF dataset = "summed_spectra" THEN 1 ELSE 2]
  /\ configuring = "no" /\ configurations = 0
  /\ writer_queue = <<>> /\ written = <<>>

-----------------------------------------------------------------------------
(* MercuryReorderPlugin *)

PushNextFrame(dataset, number, hits) ==
  nextframe_queue' = Append(nextframe_queue,
    [dataset |-> dataset, number |-> number, hits |-> hits])

\* process_frame numbers the frame and pushes the processed_frames dataset.
ReorderProcessed(hits) ==
  /\ reorder.step = "idle" /\ frames_received < MaxFrames
  /\ frames_received' = frames_received + 1
  /\ reorder' = [step |-> "raw", number |-> frame_number, hits |-> hits,
                 loaded |-> 0]
  /\ PushNextFrame("processed_frames", frame_number, hits)
  /\ UNCHANGED <<frame_number, write_raw_data, nextframeVars,
                 histogram_queue, histogramVars, controlVars, writer_queue,
                 written>>

\* The number the raw dataset is pushed with: that of the meta data the two
\* datasets share.
Mutant_NumberReadAgain == frame_number

RawNumber == reorder.number

\* Then raw_frames, if configured at this moment.
ReorderRaw ==
  /\ reorder.step = "raw"
  /\ IF write_raw_data
     THEN PushNextFrame("raw_frames", RawNumber, reorder.hits)
     ELSE UNCHANGED nextframe_queue
  /\ reorder' = [reorder EXCEPT !.step = "load"]
  /\ UNCHANGED <<frames_received, frame_number, write_raw_data, nextframeVars,
                 histogram_queue, histogramVars, controlVars, writer_queue,
                 written>>

\* frame_number_++ loads, then stores.
ReorderIncrement ==
  /\ \/ /\ reorder.step = "load"
        /\ reorder' = [reorder EXCEPT !.step = "increment",
                                      !.loaded = frame_number]
        /\ UNCHANGED frame_number
     \/ /\ reorder.step = "increment"
        /\ reorder' = NoReorder
        /\ frame_number' = reorder.loaded + 1
  /\ UNCHANGED <<frames_received, write_raw_data, nextframe_queue,
                 nextframeVars, histogram_queue, histogramVars, controlVars,
                 writer_queue, written>>

-----------------------------------------------------------------------------
(* MercuryNextFramePlugin *)

\* apply_algorithm: the pixels hit in the last frame are cleared.
Corrected(frame) ==
  IF last_frame_number + 1 = frame.number
  THEN [frame EXCEPT !.hits = @ \ last_frame] ELSE frame

\* The frame, as corrected, replaces the last one.
Mutant_KeptIfCorrected(frame) ==
  /\ last_frame_number' = frame.number
  /\ last_frame' = IF last_frame_number + 1 = frame.number
                   THEN last_frame ELSE frame.hits

Remember(frame) ==
  /\ last_frame_number' = frame.number
  /\ last_frame' = Corrected(frame).hits

NextFrameProcess ==
  LET frame == Head(nextframe_queue)
  IN /\ nextframe_queue # <<>>
     /\ nextframe_queue' = Tail(nextframe_queue)
     /\ IF frame.dataset = "raw_frames"
        THEN /\ histogram_queue' = Append(histogram_queue, frame)
             /\ UNCHANGED nextframeVars
        ELSE /\ histogram_queue' = Append(histogram_queue, Corrected(frame))
             /\ Remember(frame)
     /\ UNCHANGED <<reorderVars, histogramVars, controlVars, writer_queue,
                    written>>

-----------------------------------------------------------------------------
(* MercuryHistogramPlugin *)

\* A block allocated by a configure that has not cleared it yet.
Uncleared(dataset) ==
  \/ dataset = "summed_spectra" /\ configuring \in {"new_pixel", "clear"}
  \/ dataset = "pixel_spectra" /\ configuring = "clear"

\* writeHistogramsToDisk pushes the spectra one by one, by reference.
PushSpectrum(dataset) ==
  LET block == spectra[dataset]
  IN writer_queue' = Append(writer_queue,
       [dataset |-> dataset, block |-> block, counted |-> memory[block],
        cleared |-> ~Uncleared(dataset)])

\* add_frame_data_to_histogram_with_sum.
Counted(hits) ==
  [block \in DOMAIN memory |->
     IF \E d \in Spectra : spectra[d] = block
     THEN memory[block] + Cardinality(hits) ELSE memory[block]]

HistogramTake ==
  LET frame == Head(histogram_queue)
  IN /\ histogram.step = "idle" /\ histogram_queue # <<>>
     /\ histogram_queue' = Tail(histogram_queue)
     /\ IF frame.dataset = "raw_frames"
        THEN /\ writer_queue' = Append(writer_queue, frame)
             /\ UNCHANGED <<histogram, memory>>
        ELSE /\ memory' = Counted(frame.hits)
             /\ histogram' = [step |-> "check", frame |-> frame, loaded |-> 0]
             /\ UNCHANGED writer_queue
     /\ UNCHANGED <<reorderVars, nextframe_queue, nextframeVars,
                    frames_processed, histograms_written, spectra,
                    controlVars, written>>

HistogramGoesTo(step) == histogram' = [histogram EXCEPT !.step = step]

Mutant_PeriodOffByOne == frames_processed % max_frames_received = 0

PeriodComplete == (frames_processed + 1) % max_frames_received = 0

HistogramCheck ==
  /\ histogram.step = "check"
  /\ HistogramGoesTo(IF PeriodComplete THEN "summed_spectra" ELSE "pass")
  /\ UNCHANGED <<reorderVars, nextframe_queue, nextframeVars, histogram_queue,
                 frames_processed, histograms_written, memory, spectra,
                 controlVars, writer_queue, written>>

Mutant_FrameSwallowed ==
  /\ histogram.step \in Spectra
  /\ PushSpectrum(histogram.step)
  /\ HistogramGoesTo(IF histogram.step = "summed_spectra" THEN "pixel_spectra"
                     ELSE "load")
  /\ UNCHANGED <<reorderVars, nextframe_queue, nextframeVars, histogram_queue,
                 frames_processed, histograms_written, memory, spectra,
                 controlVars, written>>

HistogramPush ==
  /\ histogram.step \in Spectra
  /\ PushSpectrum(histogram.step)
  /\ HistogramGoesTo(IF histogram.step = "summed_spectra" THEN "pixel_spectra"
                     ELSE "written")
  /\ UNCHANGED <<reorderVars, nextframe_queue, nextframeVars, histogram_queue,
                 frames_processed, histograms_written, memory, spectra,
                 controlVars, written>>

HistogramWritten ==
  /\ histogram.step = "written"
  /\ histograms_written' = frames_processed
  /\ HistogramGoesTo("pass")
  /\ UNCHANGED <<reorderVars, nextframe_queue, nextframeVars, histogram_queue,
                 frames_processed, memory, spectra, controlVars, writer_queue,
                 written>>

\* The frame itself.
HistogramPass ==
  /\ histogram.step = "pass"
  /\ writer_queue' = IF pass_processed
                     THEN Append(writer_queue, histogram.frame)
                     ELSE writer_queue
  /\ HistogramGoesTo("load")
  /\ UNCHANGED <<reorderVars, nextframe_queue, nextframeVars, histogram_queue,
                 frames_processed, histograms_written, memory, spectra,
                 controlVars, written>>

\* frames_processed_++ loads, then stores.
HistogramIncrement ==
  /\ \/ /\ histogram.step = "load"
        /\ histogram' = [histogram EXCEPT !.step = "increment",
                                          !.loaded = frames_processed]
        /\ UNCHANGED frames_processed
     \/ /\ histogram.step = "increment"
        /\ histogram' = NoHistogram
        /\ frames_processed' = histogram.loaded + 1
  /\ UNCHANGED <<reorderVars, nextframe_queue, nextframeVars, histogram_queue,
                 histograms_written, memory, spectra, controlVars,
                 writer_queue, written>>

-----------------------------------------------------------------------------
(* configure, in the control thread *)

BeginConfigure(step) ==
  /\ configuring = "no" /\ configurations < MaxConfigurations
  /\ configuring' = step
  /\ configurations' = configurations + 1

\* The reorder plugin's: one of its parameters.
ConfigureReorder ==
  /\ BeginConfigure("no")
  /\ \/ /\ frame_number' \in frame_numbers
        /\ UNCHANGED write_raw_data
     \/ /\ write_raw_data' = ~write_raw_data
        /\ UNCHANGED frame_number
  /\ UNCHANGED <<frames_received, reorder, nextframe_queue, nextframeVars,
                 histogram_queue, histogramVars, writer_queue, written>>

\* The histogram plugin's: flush_histograms, reset_histograms, both, or any
\* other parameter.  Each ends in initialiseHistograms.
ConfigureHistogram ==
  /\ BeginConfigure("summed_spectra") \/ BeginConfigure("new_summed")
  /\ frames_processed' = 0 \/ UNCHANGED frames_processed
  /\ UNCHANGED <<reorderVars, nextframe_queue, nextframeVars, histogram_queue,
                 histogram, histograms_written, memory, spectra, writer_queue,
                 written>>

FlushHistograms ==
  /\ \/ /\ configuring \in Spectra
        /\ PushSpectrum(configuring)
        /\ configuring' = IF configuring = "summed_spectra"
                          THEN "pixel_spectra" ELSE "reset"
        /\ UNCHANGED frames_processed
     \/ /\ configuring = "reset"
        /\ frames_processed' = 0
        /\ configuring' = "new_summed"
        /\ UNCHANGED writer_queue
  /\ UNCHANGED <<reorderVars, nextframe_queue, nextframeVars, histogram_queue,
                 histogram, histograms_written, memory, spectra,
                 configurations, written>>

\* initialiseHistograms points a spectrum to a new block.
Mutant_SameBlock(dataset) == UNCHANGED <<memory, spectra>>

Mutant_NotAllocated(dataset) ==
  /\ spectra' = [spectra EXCEPT ![dataset] = Len(memory) + 1]
  /\ UNCHANGED memory

Allocate(dataset) ==
  /\ memory' = Append(memory, 0)
  /\ spectra' = [spectra EXCEPT ![dataset] = Len(memory')]

\* It clears the blocks in the end.
Cleared ==
  [block \in DOMAIN memory |->
     IF \E d \in Spectra : spectra[d] = block THEN 0 ELSE memory[block]]

InitialiseHistograms ==
  /\ \/ /\ configuring = "new_summed"
        /\ Allocate("summed_spectra")
        /\ configuring' = "new_pixel"
     \/ /\ configuring = "new_pixel"
        /\ Allocate("pixel_spectra")
        /\ configuring' = "clear"
     \/ /\ configuring = "clear"
        /\ memory' = Cleared
        /\ configuring' = "no"
        /\ UNCHANGED spectra
  /\ UNCHANGED <<reorderVars, nextframe_queue, nextframeVars, histogram_queue,
                 histogram, frames_processed, histograms_written,
                 configurations, writer_queue, written>>

-----------------------------------------------------------------------------
(* The file writer (odin-data, external): it writes what the memory of a   *)
(* pushed frame holds when its turn comes.                                 *)

FileWriterWrites ==
  LET item == Head(writer_queue)
  IN /\ writer_queue # <<>>
     /\ writer_queue' = Tail(writer_queue)
     /\ written' = Append(written,
          IF item.dataset \in Spectra
          THEN [dataset |-> item.dataset, counts |-> memory[item.block],
                counted |-> item.counted, cleared |-> item.cleared]
          ELSE item)
     /\ UNCHANGED <<reorderVars, nextframe_queue, nextframeVars,
                    histogram_queue, histogramVars, controlVars>>

HistogramProcess ==
  \/ HistogramTake \/ HistogramCheck \/ HistogramPush \/ HistogramWritten
  \/ HistogramPass \/ HistogramIncrement

Next ==
  \/ \E hits \in SUBSET Pixels : ReorderProcessed(hits)
  \/ ReorderRaw
  \/ ReorderIncrement
  \/ NextFrameProcess
  \/ HistogramProcess
  \/ ConfigureReorder
  \/ ConfigureHistogram
  \/ FlushHistograms
  \/ InitialiseHistograms
  \/ FileWriterWrites

Spec == Init /\ [][Next]_vars

\* Every plugin's thread runs.  No frame need arrive, nobody need configure.
Fairness ==
  /\ WF_vars(ReorderRaw \/ ReorderIncrement)
  /\ WF_vars(NextFrameProcess)
  /\ WF_vars(HistogramProcess)
  /\ WF_vars(FileWriterWrites)

FairSpec == Spec /\ Fairness

-----------------------------------------------------------------------------
(* Properties *)

IsProcessed(item) == item.dataset = "processed_frames"

\* A raw frame lies in the file right behind the processed frame it belongs
\* to, with no other image between them and under the same number, however
\* configure renumbers the frames and switches raw data while the chain runs:
\* a reader pairs them by number.
RawFollowsProcessed ==
  pass_processed =>
    \A k \in DOMAIN written : written[k].dataset = "raw_frames" =>
      \E j \in 1 .. (k - 1) :
        /\ IsProcessed(written[j])
        /\ written[j].number = written[k].number
        /\ written[j].hits \subseteq written[k].hits
        /\ \A i \in (j + 1) .. (k - 1) : written[i].dataset \in Spectra

\* "If same pixel hit in current frame as in the previous, set pixel in
\* current frame to zero" (process_frame): no pixel is hit in two successive
\* processed frames of the file that have successive numbers.
NoPixelHitTwice ==
  \A j, k \in DOMAIN written :
    /\ j < k /\ IsProcessed(written[j]) /\ IsProcessed(written[k])
    /\ \A i \in (j + 1) .. (k - 1) : ~IsProcessed(written[i])
    /\ written[k].number = written[j].number + 1
    => written[j].hits \cap written[k].hits = {}

\* What a histogram had counted when it was pushed reaches the file, though
\* configure starts new histograms while the old ones wait for the writer,
\* unless it was pushed while configure had still to clear it: clearing it then
\* wipes the frames counted since it was allocated, as no lock keeps the
\* plugin's thread away (initialiseHistograms).
PushedCountsAreWritten ==
  \A k \in DOMAIN written :
    written[k].dataset \in Spectra /\ written[k].cleared =>
      written[k].counts >= written[k].counted

\* Left alone, the plugin writes the n-th histograms with the frame that
\* completes the n-th period of max_frames_received frames: that frame is
\* the next processed one in the file.
HistogramsEndPeriods ==
  configurations = 0 /\ pass_processed =>
    \A k \in DOMAIN written : written[k].dataset = "pixel_spectra" =>
      LET before(dataset) ==
            Cardinality({j \in 1 .. (k - 1) : written[j].dataset = dataset})
      IN before("processed_frames") + 1
           = (before("pixel_spectra") + 1) * max_frames_received

\* Every frame that entered the chain is written in the end: frames arrive up
\* to the bound, and the file always catches up with them.
EveryFrameWritten ==
  pass_processed =>
    []<>(Len(SelectSeq(written, IsProcessed)) = frames_received)
=============================================================================
