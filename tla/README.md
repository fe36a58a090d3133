# A verification development of mercury-detector

TLA+ models of the control and data software of the MERCURY detector, the TLC
runs that check them on small instances and the TLAPS proofs of what holds for
every size. Paths below are relative to the repository.

## 1. The system

A MERCURY detector is one FEM that reads an 80 by 80 pixel ASIC. The *data*
side (C++, plugins of odin-data) receives its frames over UDP, processes them
and writes them to file. The *control* side (Python, plugins of odin-control)
reads and writes the ASIC's registers; without hardware it talks to an
emulator of the ASIC.

    FEM ==UDP==> frame receiver ==shared buffers==> frame processor ==> HDF5
                 MercuryFrameDecoder   ready/release   reorder -> addition |
                                                       discrimination ...
                                                       -> histogram -> writer
    page -> odin_sequencer threads -> SyncContext -> MercuryAsicDevice
         -> MercuryAsicClient ==ZeroMQ==> EmulatorServer -> RegisterModel
    emulator shell -> MercuryAsicClient ==ZeroMQ==^

### Inventory

| Part | State it keeps | Operations | What is hard | What makes it correct |
|---|---|---|---|---|
| `MercuryFrameDecoder` (data/frameReceiver) | queue of empty buffers, frame-to-buffer map, current frame and its buffer, drop flag, counters; frame headers in shared memory | header handler, payload handler, timer `monitor_buffers`, `push_empty_buffer` | lost, late, duplicate, interleaved packets; no free buffer; another process reading the same memory; timeouts | one owner per buffer; packets in their frame's buffer; complete frames whole; every frame handed over once; no buffer leaks |
| Reorder plugin (data/frameProcessor) | `frame_number_`, `packets_lost_`, `write_raw_data_` | process a frame into a processed and a raw dataset, configure, reset statistics | configure in another thread | datasets paired and in order |
| Next-frame plugin | last frame and its number | process | renumbering | no pixel hit in two successive frames |
| Histogram plugin | three spectra in memory, `frames_processed_`, settings of the bins | process, flush, reset, configure | memory shared with the writer and re-initialised by configure | periods, counts not lost, frames passed on |
| Threshold, calibration, discrimination, addition plugins | tables, mode, distance | process, configure | algorithms that change the image they scan; reconfiguration in the middle of a frame | hits and charge |
| Template plugin, frame simulator | pattern, packets | pass on; generate packets | none | |
| `MercuryAsicRegisterModel` (control/asic_emulator) | registers, two shift registers, page, sector | a transaction: read or write burst | pages inside a burst, errors half way | derived state, pages apart, what is written can be read |
| `EmulatorServer` | its task, its monitor task, its clients | receive, process, answer; follow connections | exceptions in the task; descriptors used again | every call answered; clients are the open connections |
| `MercuryAsicClient`, `MercuryAsicDevice`, `SyncContext` | socket; event loop | read, write, transfer; run a coroutine from a thread | several coroutines on one socket, no correlation, no timeout | every answer to its caller, once |
| detector controller, its adapter, emulator and its adapter | adapters found, contexts of the sequencer, parameter trees | construction, `initialize`, GET and PUT, end of the process | order of loading; adapters that cannot be constructed; the process stopped with messages under way | clients reported as they are; losses only where the process stops |
| emulator shell (`shell.py`, `client.py`) | what the prompt or the test loop waits for; asyncio tasks | parse a line, read, write, test loop, shutdown on signals and errors | words among numbers, large numbers, long reads; shutdowns cancelling each other; a shell after a shell | answers to the right process; nothing typed ends the server; every task that has begun is awaited |
| sequencer page (control/test/static/js) | button state, poll timers, time stamp of the last message | execute, reload, poll | timers racing requests, failed polls | buttons disabled exactly while a sequence runs |
| odin-data, odin-control, odin_sequencer, ZeroMQ, firmware | external | | | modelled as the code uses them |

Interactions: the receiver and the processor share frame buffers and exchange
ready and release messages; plugins push frames into each other's queues; the
processor's control thread calls `configure` on plugins while their threads run;
sequences run in threads and block on coroutines of the event loop, which
exchange ZeroMQ messages with the emulator's task, in the same process or not.

The hazards of this code, each at its line, are listed in `PROJECT.json` with the
properties that watch them, or with the reason why none does yet.

## 2. The modules

### Frame receiver

`FramePool` is the abstract specification: a buffer goes round the cycle
free, decoder, downstream, returning, and only the decoder changes its content.

`MercuryFrameDecoder` models the receive thread. Its variables are the class's
members without the underscore, the header and payload of each buffer, and the
two channels to the frame processor. Its actions:

| Action | Code |
|---|---|
| `ProcessPacketHeader`: `SameFrame`, `DropFrame`, `AllocateBuffer`, `RevisitFrame` | `process_packet_header`, its four ways through |
| `IgnorePacketHeader` | the same, for a port outside `fem_port_map_` |
| `ProcessPacket`: `CollectPacket`, `CompleteFrame`, `CompleteWhileDropping`, `IgnorePacket` | `get_next_payload_buffer` and `process_packet` |
| `MonitorBuffers`, `ReleaseTimedOut` | `monitor_buffers`: finding the expired frames, then its loop, frame by frame |
| `Tick` | the clock that `elapsed_ms` reads |
| `ProcessorReleases`, `PushEmptyBuffer` | odin-data: a release message, sent and received |

A packet is received in two handlers with the socket read between them, as in
odin-data; `pending` is the packet between the two. The order in which buffers
wait in the queue does not matter to the decoder, so queue and channels are
bags. A header field that no property tells apart (port map, active FEM, start
time as such) is left out; time is an age that stops one tick after the timeout.
The assumption that frame numbers differ from -1 stands for numbers that survive
the cast to `int` at line 294.

### Registers and link

`MercuryAsicRegisterModel` is the register model as functions: a transaction is a
sequence of bytes, `ProcessTransaction` the loop of `process_transaction` over its
payload, as a recursive function. `register_read`, `register_write` and `OnWire` are the device's
and the client's part of the wire format, `Answer` the server's conversion to
bytes with its error path. Sizes are constants, the layout is kept (CONFIG1 at 0,
registers 0 to 2 common to both pages, the shift registers at the end of page 0).
`log_register_writes` is on in the runs: looking up the name of an address that has
none raises in the middle of a burst. Off, its default, that lookup is skipped.

`RegisterAccess` is one caller, calls in sequence. `AsicLink` is any number of
threads on any number of clients, with a step for each point where another may
come between: a thread schedules its coroutine, the coroutine sends and waits,
the server processes one transaction, a response wakes the first coroutine that
waits on the socket, the thread goes on. `AtomicService` is what it promises: a
call takes effect at one point between its start and its return.

### Life cycles: control server, emulator and shells

`ControlServer` is the odin-control process with the adapters of this repository:
it starts, loads the sections of its configuration in order, leaving out those it
cannot construct, calls `initialize`, runs, and is stopped at any time. It
keeps what the code keeps of adapters and contexts, the connections to the
emulator's socket, the monitor's queue of events and the set of clients that
`_run_monitor` makes of it. HTTP handlers do not suspend. A PUT to the detector may
change the one leaf of its parameter tree and is an action (`DetectorPut`); the
emulator's parameters are read-only, so its handlers change nothing and are
functions of the state (`EmulatorGet`, `EmulatorPut`). A body that names no parameter
is accepted at a branch of a tree.

`EmulatorShell` is one shell process at a time. At its prompt a line is refused
(`RefuseCommand`), sent (`ExecuteCommand`), ends it with what `do_read`, the client or
msgpack raises (`CommandRaises`) or quits. `MaxLength` is the longest list of registers
that memory holds: `do_read` builds the list before it calls the client. In test mode it is a set of asyncio tasks: the test loop
and as many shutdowns as signals and errors create, each of which cancels all
others and awaits them.

`ControlSystem` composes the two. A message waits in the client's socket until the
server has accepted its connection (`Transmit`), then in the server's until the
task takes it (`Serve`), and its answer goes back by the identity of the socket, or
is dropped if that is gone. `StopsServer` loses what the server's socket holds and
perhaps an answer. `lost` records, for the properties, that this happened to the
message a process waits on. What a transaction does to registers is left to
`RegisterAccess`; an answer is named by the message it answers.

### Plugins

`MercuryImagePlugins` has the four algorithms that change pixels, on whole numbers
(exact in the code's floats), and lets a frame pass through any of them in any
order. Charge sharing loops are recursive functions over the pixels in scan order
(`Scan`), since later pixels see what earlier ones changed.

`MercuryPluginChain` is reorder, next frame and histogram with the queues between
them and the file writer, a step for each access to a member that the control
thread may write too. A pushed histogram is a reference to memory; the writer
reads what that memory holds when its turn comes. An increment of a shared
member is a load and a store, and pushing histograms, recording that they were
written and passing the frame on are steps of their own. `PushedCountsAreWritten`
is about histograms that were clear when they were pushed. It promises nothing for
one that `initialiseHistograms` has allocated and not yet cleared (`cleared` is
FALSE in its record): a frame counted there in between is wiped out by the memset
at MercuryHistogramPlugin.cpp:118, also if the histogram has been pushed already.

## 3. The runs

| Run | What it asks | Bounds, and why they are enough |
|---|---|---|
| `decoder_safety` | ownership, routing, completeness, single announcement, loss counting, refinement of `FramePool` | 3 frames over 2 buffers, 2 packets a frame (the detector's number): exhaustion, reuse of a buffer, interleaved frames and timeouts of two frames at once all occur; one ignored packet |
| `decoder_liveness` | frames are handed over, buffers come home, duplicate packets or not | 2 frames, 2 buffers, each packet at most twice: a duplicate before completion, and one after it, which starts the frame again; no symmetry, as it is not sound for liveness |
| `decoder_late_packet` | does a packet always go to its frame's buffer, if it may come after the timeout? no | 2 frames, 2 buffers |
| `decoder_stale_drop` | is a complete frame always handed over? no | 2 frames, 1 buffer |
| `decoder_fem_loss` | do the FEM's and the total loss agree? no | 2 frames, 1 buffer |
| `registers` | derived state, page isolation, read-back, reads without effect, nothing stored under addresses that name no register | pages of 8 registers, shift registers of 2, 13 registers in all, bursts of up to 4: into and out of both shift registers, over the end of the space, over a page change |
| `registers_chip_bias` | does a write reach CHIP_BIAS, with its page selected? no | as above |
| `link` | responses match calls, atomic service, all calls return while the server lives | 3 threads, 2 of them on one client, 4 calls |
| `link_type_error` | do all calls return? no | 3 calls |
| `control` | answers to the right process, losses only by a stop of the server, the server task survives every line, the shell every line but one with a number beyond 64 bits or a read longer than memory holds, the shutdown that stops a test run has awaited every task that was there when it began, clients reported as they are, commands return | 2 shells one after the other, the server started twice, 2 commands, 2 shutdowns in a test run, 2 descriptors (so they are used again), 2 configurations: that of `test/config`, and one with the sequencer first, then the emulator at its default endpoint, which ZeroMQ refuses, then the detector; 7 lines, one for each way a line can go, and 2 test transactions, one of which cannot be processed to its end |
| `image_plugins` | hits, isolation, charge, agreement with the integration test | 3 by 3 pixels, up to 4 hits of value 1 or 2 (every tie and every order of two values), chains of 2 plugins, 3x3 and 5x5 grids |
| `plugin_chain` | pairing, next-frame correction, histogram counts and periods, delivery | 2 frames, 1 configure anywhere, which may number the next frame 0 or 2 (two frames that would be adjacent are so no more; any number of frames is left to the proof), period of 2; one pixel, as no plugin of the chain compares pixels |

The five violation runs are disagreements between a comment and the code; the
findings in `PROJECT.json` quote them.

- *Late packet.* A timed-out frame is erased from the map but stays the current
  frame. Its next packet is written into a buffer the frame processor owns.
- *Stale drop flag.* After a dropped frame, a mapped frame that is completed on a
  revisit waits for its timeout instead of being handed over.
- *FEM loss.* `fem_rx_state` survives the reuse of a buffer.
- *CHIP_BIAS.* Address 130 is masked to 2, which has no page. The register behind it,
  131, is masked to 3, gets its offset back and is written.
- *TypeError.* One list with a value that is no integer ends the emulator's task.

`CHECK_DEADLOCK FALSE` is set where a model really ends: all calls made and
answered or the server dead (`link`, `link_type_error`), all processes ended and the bounds on starting more used up (`control`), all stages applied
(`image_plugins`), all frames written (`plugin_chain`). The decoder's clock never
stops.

`CounterModulus` and `ThresholdModulus` stand for 2^32; the runs use 65536, far
above every count they reach, so that a wrapped difference is seen as a wrap.

### Fairness

- Decoder: the reactor of odin-data's receive thread serves sockets, timer and
  release channel, so payload handler, `monitor_buffers` and `push_empty_buffer`
  run when they can; the clock runs; the frame processor finishes with each buffer
  it was given. No packet need arrive: timeouts must do without.
- Link: the event loop runs ready coroutines, the ROUTER socket takes its clients
  in turn, threads resume. Threads need not call.
- Control: event loops run what is ready (the server's, the test run's, the prompt's
  `run_until_complete`), the shutdowns among it one by one; ZeroMQ connects,
  transmits and notices closed connections. Nobody need start, stop, signal or
  type anything, so `CommandsReturn` asks that the emulator be up for good.
- Plugin chain: each plugin has a worker thread that takes what is queued. No
  frame need arrive, nobody need call `configure`.

All of it is weak fairness.

## 4. The proofs

TLC checks the properties on the instances above; TLAPS proves these for every
value of the constants that satisfies the named assumptions. Every safety property
and every refinement that a passing run checks has its theorem.

| Theorem | States |
|---|---|
| *`MercuryFrameDecoder_proofs`* | |
| `TypeCorrect` | `Spec => []TypeOK`, duplicates and late packets included |
| `OneOwner` | `[]BufferOwnership`, if no packet comes after its frame's timeout |
| `PacketsRouted` | `[]RoutedToOwnBuffer`, under the same condition |
| `FramesAnnouncedOnce` | `[]FrameAnnouncedOnce`, if besides no packet arrives twice (`MaxCopies <= 1`) |
| `CompleteFramesWhole` | `[]CompleteHasAllPackets`, under the same two conditions |
| `LossesAreCounted` | `[]LossesCounted`, under these and if the counter can count all packets |
| `DecoderImplementsFramePool` | `Spec` refines `FramePool`, if no packet comes late |
| *`RegisterAccess_proofs`* | any layout, any set of calls |
| `RegistersTyped` | `[]TypeOK` |
| `DerivedStateFollows` | `[]DerivedStateMatches`, exceptions half-way included |
| `UnusedStayDefault` | `[]UnusedNeverWritten` |
| `PagesIsolated` | `PageIsolation` |
| `ReadsLeaveNoTrace` | `[]ReadsChangeNothing` |
| `BurstsReadBack` | `[]ReadBack`, in every state and for every burst that fits |
| *`AsicLink_proofs`* | any number of threads, clients and calls |
| `LinkTypeCorrect` | `[]TypeOK` |
| `ResponsesReachCallers` | `[]ReceiversMatch` |
| `LinkImplementsAtomicService` | `AsicLink` refines `AtomicService` |
| *`ControlSystem_proofs`* | any number of shells, lines, tasks, restarts, any configurations |
| `SystemTypeCorrect` | `[]TypeOK` |
| `AnswersReachTheirProcess` | `[]AnswersAreAwaited` |
| `RequestsSurvive` | `[]OnlyStopLosesRequests` |
| `ServerTaskSurvives` | `[]ServerTaskLives` |
| `ShellRefusesTheRest` | `[]ShellSurvives` |
| `ShutdownAwaitsBegunTasks` | `[]StopAwaitsBegunTasks` |
| `ClientsAreConnections` | `[]ReportedClients` |
| *`MercuryPluginChain_proofs`* | any pixels, period, frames and calls of `configure` |
| `ChainTypes` | `[]TypeOK` |
| `RawFramesPaired` | `[]RawFollowsProcessed` |
| `SuccessiveFramesApart` | `[]NoPixelHitTwice` |
| `CountsReachFile` | `[]PushedCountsAreWritten` |
| `PeriodsComplete` | `[]HistogramsEndPeriods` |
| *`MercuryImagePlugins_proofs`* | images of any size, grids of any size, chains of any length |
| `NoHitAppears` | `[]HitsOnlyDisappear` |
| `HitsEndIsolated` | `DiscriminationIsolates` |
| `ChargeConserved` | `AdditionConservesCharge` |
| `AdditionMeetsTest` | `AdditionIsAsExpected` |

`Loops` and `MercuryAsicRegisterModel_proofs` hold the lemmas that the registers and
the image plugins rest on.

*Loops.* The loops of the code are recursive functions in the models. The library's
theorems on induction take the induction predicate as an operator, which the
provers cannot instantiate; `Loops` proves the induction for a *set* of turns
instead (`NatSetInduction`, `LoopInduction`), from the well-foundedness of the natural
numbers, and that such a recursion has a solution (`LoopExists`), by induction over
its length. A user names the set of turns after which its invariant holds, or the
set of images that have it.

*Decoder.* `BufferOwnership` is not inductive: nothing in it says where the current
address points. The inductive invariant (`OwnershipInv`) adds to it and to
`TypeOK`: the frame seen last, unless it is the default or has timed out, is either
dropped, with the scratch buffer as the current one, or mapped to the current
buffer, by id and by address (`CurrentInv`); a packet between its handlers belongs to
a frame that has not timed out (`PendingInv`); frames are handed over by the timer
only between packets, and are mapped then (`MonitorInv`).
The condition `~LateArrivals` is needed, not a convenience: without it
`PacketsRouted` is false, and `decoder_late_packet` shows how. The refinement maps
a buffer's place (queue, processor, message, else decoder) to its owner; each
action is a step of one buffer's cycle or a stutter, by ownership.

The decoder only counts packets, so that a complete frame is whole rests on what the
count stands for (`ContentsInv`, on top of `OwnershipInv`): the header of a mapped frame
counts the slots of its buffer that hold packets of that frame, and the markers among
them and the packet in hand (`FillingInv`); that packet has no slot yet
(`ArrivalInv`); a slot holds a packet of the mapped frame or of one that was handed
over (`ContentInv`), and nothing more arrives of those (`AnnouncedInv`). With a second
copy of a packet the count would no longer be that of the slots, so
`MaxCopies <= 1` is needed too.

`packets_lost` has 32 bits and is a sum of differences. `LossesCounted` bounds it from
both sides: by what has not arrived of the frames that timed out from below, and by all
their packets from above, which a difference that wraps would exceed. It does not wrap
as long as
`Cardinality(Frames) * num_fem_frame_packets` is below the modulus: at two packets a
frame, for the first 2^31 frames. `LossInv` adds that a frame that has timed out is not
mapped again, so its share is added once.

*Registers.* `ProcessTransactionLoop` says that `ProcessTransaction` goes through states
one turn apart, and `TurnCases` lists the five things a turn may do. On them rests
one invariant of the loop (`LoopInv`): after i turns the derived state matches, no
register of the other page and no unused address has changed, shift registers
have their sizes, and a read has changed nothing. `TypeOK`, `DerivedStateMatches`,
`UnusedNeverWritten` and the sizes of the shift registers are together inductive
(`Inv`). For `ReadBack` a burst that fits is described first: different registers that
exist, then at most one shift register that takes the rest (its turn is the last
that does anything). What i turns of the write leave behind and what i turns of the
read collect are then two loop invariants that meet in the same values. A burst
changes the page with its first byte or not at all, since only a burst from address 0
reaches CONFIG1: the rest of it goes to the new page, where the read finds it.

*Link.* `ReceiversMatch` needs, beyond itself, that threads that wait name calls of
`Calls` and that a queue's elements are typed; the proof goes through the lengths of
the three queues of a client. The refinement maps a thread to *answered* as soon
as the response at its place in the queue exists, so the effect of a call is
the server's step and everything else stutters or starts or returns a call.
`AnswerTo` and `NewModel` are opaque there: the proof needs nothing of what a
transaction does. `LinkTypeCorrect` does, and takes it from the registers' lemmas.

*Plugin chain.* A pushed spectrum is a pointer, and `configure` clears memory, so that
nothing pushed is lost is about which blocks may be cleared (`SpectraInv`): the block of
a queued spectrum exists, holds at least what it had counted when it was pushed if it
was clear then, and was not if it is one that `configure` has allocated and still has
to clear (`QueuePreserved`); the two spectra never share a block (`BlocksDistinct`), or clearing
one would clear the other. `ChainAssumption` has `Pixels` finite.

What is in the file was in the queues before, so pairing and the correction are
about one sequence: file, writer's queue, frame in the histogram plugin's hands, its
queue, the next-frame plugin's queue, and the raw frame the reorder plugin is about
to push (`StreamInv`). In the whole of it raw frames follow their processed ones
(`Follows`); in the part behind the next-frame plugin successive frames are apart
(`Apart`), and the plugin remembers the number and the hits of its last processed
frame (`EndsIn`). A step of a worker moves the border between two parts or adds at
the end. `PeriodInv` relates the numbers of frames and histograms pushed to the
counter, at each of the plugin's steps, in the runs `configure` leaves alone.

*Image plugins.* Discrimination and addition change the image they scan, so their
theorems are about the image after k pixels (`ScanInduction`). Discrimination: what is
still a hit before k has no other in its grid, and what was alone is untouched.
Addition: a visit moves charge between pixels of one grid (`MergeVisitFacts`), and
the total, itself a loop over the pixels, changes by what the two pixels change by
(`TwoPixels`). For the comparison with the integration test the two scans are run side
by side: where no hit has more than one other in its grid, they hold the same image
after every pixel, by three cases: no hit, a hit alone, a pair, of which the larger or, at
a tie, the one visited first gets the sum in both.

*Control.* What arrives is right only because of where it was before, so the inductive
invariant (`SystemInv`) follows the message of the running process through the three
places it can be in: one of them while the process waits and no stop of the server
has lost it, none when there is nothing to wait for (`SocketInv`); messages in the
server's socket come from this process or an earlier one, under its identity
(`MessagesTyped`), and over a connection that is open as long as the process is
alive (`ConnectionInv`). Messages consist of integers, which
`TransactionOfIntegers` derives from the parsing of lines, so no message ends the
server task. A shutdown that nobody has cancelled awaits every unfinished task but
those created after all shutdowns that have begun (`OrderInv`), since one that begins
later cancels it: hence what `StopAwaitsBegunTasks` says of the moment the loop stops.
`Identity` is taken to be new for
every process; the code draws it at random from 2^32.

A second invariant (`SideInv`) needs nothing of the first: types, what a shell can have
ended with, and connections. `ReportedClients` is inductive only in a form that says
what the set of clients will be once the monitor has read what is queued: a
descriptor is open if the last event queued for it says so or, with none queued, if
it is in the set (`ConnectionsCounted`). `ShellRefusesTheRest`, which excepts reads
beyond `MaxLength` and integers beyond 64 bits, uses that the bounds of
64-bit integers are multiples of 256: setting the RW bit of the address keeps it
within them. `ShellAssumption` states this of `PackedIntegers`, and the run's 0 to 31
satisfies it.

*Left to TLC.* Liveness, since fairness and ENABLED are out of the provers' reach:
`MappedFrameHandedOver` and `AllBuffersReturn` (`decoder_liveness`),
`CallsReturnWhileServing` (`link`), `CommandsReturn` and `SignalsStopTestLoop`
(`control`), `EveryFrameWritten` (`plugin_chain`).

## 5. Abstractions to keep in mind

- One FEM, as in every configuration of the repository.
- `AsicLink` loses no message; `ControlSystem` does, where the server stops. On the
  device's client, which coroutines share, a lost answer would shift all later ones,
  since nothing correlates them. This is listed as a hazard.
- In `ControlSystem` one shell runs at a time, no sequence runs (`AsicLink` has them),
  connections break only where one end closes, and a message to a client that is
  gone is dropped, as a ROUTER socket does. Identities never collide.
- odin-control goes on without an adapter that it cannot construct. The detector's
  default endpoint and the emulator's have no transport, so both are left out
  unless they are configured.
- An empty line repeats the line before and an unknown command changes nothing:
  neither has an action. What a GET or PUT of the detector's status leaf answers is left
  out: nothing else reads the leaf.
- A line names integers that msgpack packs or not (`PackedIntegers`) and reads that
  memory holds or not (`MaxLength`); in `AsicLink` all integers of calls fit 64 bits.
- The docstring of `shutdown` (client.py:186-191) says the loop is terminated "once all
  tasks are stopped". A shutdown created after the one that stops the loop has begun,
  and not begun itself, is pending when the loop is closed: `StopAwaitsBegunTasks`
  allows exactly these.
- Packets carry the packet numbers of a frame: the decoder takes `packet_number` as it
  comes (MercuryFrameDecoder.cpp:369, 416-420), and in the model no other arrives.
  `packet_state`, which nothing reads, is left out.
- A message that msgpack cannot decode never arrives: no client here sends one.
- `add_frame_data_to_histogram_with_sum` is one step; its race with
  `initialiseHistograms`, which may free the memory under it, has no outcome to
  describe. Memory that has just been allocated is taken to hold zeros before it is
  cleared. Frame numbers given by `configure` are not negative. The energy bins are one bin, and energies lie inside the range.
- Undefined results for `max_frames_received_` = 0 are excluded by `ChainAssumption`.
- `configure` of the image plugins takes effect between frames.
- The reorder plugin's `packets_lost_` is left out, and so is `reset_statistics`.

### Not modelled

- The template plugin (passes frames on) and the frame simulator (generates packets
  from a file, sequentially): no state that others share. The packets it may send are
  among those the decoder's model receives.
- The sequencer page: a test page whose buttons and log follow the answers of
  odin_sequencer, which is not in this repository; what those may be is not known
  here. Its hazards are listed.
- `configure` of an image plugin in the middle of a frame: tables of thresholds
  overwritten while they are read. No result is promised for such a frame.
- `versioneer.py`, `_version.py`, `setup.py`, CMake files: vendored, generated or build
  code. Files, logging, command-line options and display radix.

## 6. Plan

Done, in order of importance, with their proofs: decoder and pool; registers; link;
image plugins; plugin chain; control server and shells and their composition.

What remains worth doing:

1. `packets_lost_` of the reorder plugin, and the composition of decoder and reorder
   plugin: its count against the decoder's.
2. Image plugins with `configure` as an action between two pixels.
3. Proofs: the decoder with duplicate packets (`FrameAnnouncedOnce` is false then, but
   ownership and counting bounds remain); the safety half of the liveness properties,
   that what is not yet delivered is still queued; the composition of item 1.
4. Several shells at once beside the sequences of the detector's own client.
