# Verification of the NDN-DASH player

TLA+ models, TLC configurations and TLAPS proofs for the player and server of
this repository: a DASH player (`libdash-ndn/libdash/qtsampleplayer`, on top of
`libdash-ndn/libdash/libdash`) that fetches its segments over Named Data
Networking from `libdash-ndn-server`.

Paths below are relative to `src/libdash-ndn/libdash`; `FW` is
`qtsampleplayer/libdashframework`, `LS` is `libdash/source`.

## 1. The system

### 1.1 Components

| Component | State | Operations | Called by / calls |
|---|---|---|---|
| `MediaObjectBuffer` (FW/Buffer) | deque of segments, `eos`, mutex, condition variables `full`, `empty` | `PushBack`, `GetFront`, `PopFront`, `SetEOS`, `Clear`, `ClearTail`, `Notify` | buffering thread, decoder threads, GUI thread; calls `AbortDownload` with its mutex held |
| `Buffer<T>` (FW/Buffer/Buffer.h) | the same for frames and samples | the same, `SetEOS` aborts nothing | decoder threads, rendering threads |
| `AbstractChunk`, `DownloadStateManager`, `SyncedBlockStream` (LS/network, LS/helpers) | download state, connection, byte stream with `eos` | `StartDownload` (two), `AbortDownload`, `Read`, `Peek`; the download thread | starter, aborters, reader; calls its observers inside the state lock |
| `MediaObject` (FW/Input) | its own copy of the download state | `StartDownload`, `AbortDownload`, `WaitFinished`, `OnDownloadStateChanged` | observer of the chunk; used by receiver, queue and decoder |
| `NDNConnection`, `NdnDashConsumer` (FW/Input) | number of packets, segment buffer and its two counters, the face's pending interests | `PreDownload`, `Read`, four callbacks | receiver (buffering thread, and GUI thread through `SetRepresentation`), download thread |
| `NdnDasServer` (`src/libdash-ndn-server`) | table of file sizes | `onInterest`, `onRequestSegNumber`, `onRequestSegData` | the network |
| `DASHReceiver` (FW/Input) | `isBuffering`, `segmentNumber`, representation, init segments | `Start`, `Stop`, `SetRepresentation`; thread `DoBuffering` | manager; pushes into the queue |
| `DASHManager`, `MediaObjectDecoder` (FW/Input) | `isRunning`, the current decoder; `run` and thread of each decoder | `Start`, `Stop`, `CreateAVDecoder`, `OnDecodingFinished`; thread `Decode` | GUI thread and, for the next decoder, the thread of the last one |
| `LibavDecoder` | libav contexts | `Init`, `Decode`, `Flush`, `Stop` | decoder |
| `MultimediaManager`, `MultimediaStream` (Managers) | adaptation logic, streams and their frame buffers, `monitorMutex`, two rendering threads | `Start`, `Stop`, `SetVideoQuality`, `OnSegmentDownloaded`, `RenderVideo`, `RenderAudio` | GUI and buffering threads |
| Adaptation logics (FW/Adaptation) | throughput trace, fill level | `GetRepresentation` | manager, in the buffering thread |
| MPD wrapper (FW/MPD) | start times of the segments | segment counts, numbers and times | receiver |
| `BlockStream` (LS/helpers) | deque of blocks, `length` | push, get, peek, erase | `SyncedBlockStream`, which adds mutex, condition variable and `eos` |
| libdash MPD, XML, metrics | passive objects | getters | everywhere |

The path of a segment: `DoBuffering` makes a `MediaObject`, `PreDownload` fetches
its packets into the connection's buffer (blocking), the chunk's download thread
copies them into the chunk's stream, the segment is pushed into the queue, a
decoder's thread takes it and reads the stream; when the segment is decoded that
thread takes the next segment and creates the next decoder.

### 1.2 What is hard

* Four to six threads meet in one segment: the buffering thread, its download
  thread, the thread of the decoder, the GUI thread that stops, the rendering
  threads.
* Flags (`run`, `isRunning`, `isBuffering`, the connection pointer) are set after
  the threads that read them are created, and are read without a lock.
* The download state is tested and set in separate critical sections.
* `SetEOS` waits for downloads while it holds the queue's mutex.
* The representation is switched by two threads under a mutex, and used by two
  more without it.
* The network loses, delays and repeats; an interest is sent once.
* The stream is deleted by the GUI thread with everything that the other threads
  use; what Stop did not join must not run any more.
* Arithmetic: number of packets, 32-bit segment numbers, the offset of a peek
  across blocks, throughput.

`PROJECT.json` lists the hazards line by line, with the properties that cover
them or the reason why none does.

## 2. The modules

```
SegmentQueue            what a bounded closable queue promises (abstract)
   ^ implemented by          ^ used by
MediaObjectBuffer       PlaybackSession       receiver + manager + decoder chain
   MediaObjectBufferProofs
                           PlaybackSessionProofs
                        RepresentationSwitch  multimedia manager + receiver
                           RepresentationSwitchProofs
                        StreamLifetime        stream + frame buffer + renderer
                           StreamLifetimeProofs
DownloadChunk           one download (chunk, state manager, media object)
   DownloadChunkProofs
ByteStream              what the stream of a download promises (abstract)
   ^ implemented by
BlockStream             the queue of blocks under its monitor
   BlockQueue           the copying loops, as operators
   BlockStreamProofs
   ^ used by
SegmentReader           decoders that read init and media segments
   (BlockStreamProofs)
NdnTransfer             connection, consumer, server, network
   NdnTransferProofs
SegmentNumbers          which segments are asked for
   SegmentNumbersProofs
RateAdaptation          measurement, trace and choice of a representation
   (SegmentNumbersProofs)
Word                    uint32_t, for the two above
MC*                     instances for TLC
```

The composition is by contract. `PlaybackSession`, `RepresentationSwitch` and
`StreamLifetime` use `SegmentQueue` instead of a monitor, which
`BufferImplementsQueue` justifies for the segment queue; the frame queue is the
same monitor as a template, less the aborts. They take from `DownloadChunk` and
`NdnTransfer` that a download which began has ended at some time
(`DownloadEnds`, `DownloadReturns`). `SegmentReader` uses the loops of
`BlockQueue` that `BlockStream` is checked with, and leaves the waiting of a
single call to `DownloadChunk`.

Where the code's behaviour is undefined or depends on the processor the models
choose: the value of a member that no constructor sets (`run`, `mstate`,
`last_index`), and what a cast makes of infinity (`MeasuredBitRates`,
`GetSizes`).

### SegmentQueue
A bounded FIFO that can be closed. A call that cannot go on blocks, and returns
once it can; there is no mutex and no wakeup. `blocked` says what each caller
waits to do. A full queue that is closed refuses, and a queue with room accepts
even when closed, as the code does.

### MediaObjectBuffer
The monitor, one thread-step per critical section, except that `SetEOS` keeps the
mutex from step to step while it aborts one download after the other. `full` and
`empty` are the wait sets of the condition variables of these names; `pc` is the
operation a thread is in; a woken thread tests its condition again. Wakeups may
be spurious. `Notify` runs after the mutex is released and is two steps, so
reports may cross. Accepted objects are numbered, which makes order and loss
visible; `taken`, `dropped`, `aborted`, `closers`, `staleFill` are history.

### DownloadChunk
`state` is the download state manager's, `mstate` the media object's copy (any
value before the first notification: the constructor does not set it). Data is a
number of blocks. `connection` tells the two ways of starting apart: libcurl
(`"none"`), or a connection that is `"unset"` until `StartDownload` has stored
it. A call through the unset pointer ends the process, which is the place
`"crashed"`. Each lock region is one step; the test and the setting of the final
state are two, as in the code.

### ByteStream, BlockQueue, BlockStream
A block is a sequence of bytes, a byte the number of its turn. `Cut` is the loop
that four functions of `BlockStream.cpp` contain (take blocks from the front, cut
the last one in two), `BlockQueuePeekBytes` the one that only looks, with its
offset; `CutBlock` and `PeekBlock` are the bodies of the two loops, one block
each, and the loops are recursive functions over the blocks. `BlockStream` has
one action per call of `SyncedBlockStream`, over every size that a caller may
pass; `out` is what the call returned. `ByteStream` knows neither blocks nor the
counter. The two `GetBytes` differ in what they do when
there are not enough bytes. `Peek` with an offset is not among the calls: it does
not implement a look at the stream, which is a finding; `SegmentReader` has it.

### SegmentReader
`MediaObjectDecoder::Read`, as libav calls it: until the decoder is initialised
it peeks the init segment from `initSegmentOffset` on, and goes to the media
segment when there is nothing more to peek. The init segment is shared by the
decoders of a representation. What libav asks for, and when it has seen enough,
is a choice. `blockqueues` and `streamEnded` are the stream of each segment;
`PushBlock` and `SetStreamEOS` are what its download thread does to it. `buffer`
is what libav was given. A media segment may be aborted
after any block; the init segment is in no queue and is not.

### NdnTransfer
`interests` and `data` only grow: what was sent may arrive at any time, more than
once, or never. `pending` is the face's table; `OnTimeout` stands for both
timeout callbacks and for the Nack, which the face reports as a timeout.
`processEvents` returns when the table is empty, for every thread that uses the
face; it may throw. `WordModulus` is the range of `size_t`, so that the packet
count of the size -1 is what the cast makes of it. A byte is the pair of its
file and its offset. Two threads use the one connection of a receiver: the
buffering thread and, through `SetRepresentation`, the thread of the user
interface. `shared[u]` is history: another thread used the connection during the
download of `u`; what happens to its bytes then is in the model, but nothing is
promised about them. The number of packets of another file may lead to an interest
for a packet beyond the end, which ends the server (`OnRequestBeyondEnd`), as an
interest for a file that is not there does.

### PlaybackSession
The GUI thread runs `Start` and, at some time, `Stop`; `DoBuffering` and one
thread per decoder run beside it. Every read of `isBuffering`, `isRunning` and
`run` is a step of its own; `run` is arbitrary until it is set. A decoder that
fails to open or whose thread is not created sets the history variable `failed`;
a flag that was read before its creator had set it sets `early`.

### RepresentationSwitch
`SetVideoQuality` and the `SetRepresentation` below it, step by step, for the two
threads that call them: the buffering thread with the choice of the adaptation
logic, the GUI thread with the user's. `monitorMutex` is held from `Enter` to
`Leave`, and by `Start` from the first to the last of its steps. The receiver's
mutex is nested inside it everywhere and left out. `made` holds, for each segment
that no decoder has taken, the representation it is labelled with and the one
whose stream it is from; `initSegments[r]` says whose init segment is kept for
`r`. `crashed` is set when a thread uses a stream that was deleted or looks one up
that does not exist; nothing is modelled after that. The logic's choice is any
representation of the set it was made for. The user may set again the choice he had
made: the settings hold audio and video, and a change of one sets both. The decoder
chain is one thread, which
takes segment after segment and may stop doing so; `JoinDecoder` waits for it,
which is more than the code does (`PlaybackSession` has the exact join). The audio
stream shares mutex and structure, but its segments trigger no switch.

### RateAdaptation
One step is one segment: download it, measure (`DASHReceiver::UpdateThroughput`),
append to the trace, ask the logic (`MultimediaManager::OnSegmentDownloaded`).
Widths are scaled down: `WordModulus` is 2^32, and `MinValue` keeps the ratio of
0x1FFFFFFF to it, `highest_bitrate` that of 999999999.99. The clock is read before and after a download and either
reading is cut to milliseconds (`ElapsedTimes`). The harmonic mean of RateBase is a
fraction, so that nothing is
rounded but what the code rounds (`minValue` is an `int`). RateBufferBase reads a
member that no constructor sets; the model starts it with any value, also one out
of range, which `at` answers with an exception (`LastIndexThrows`). QoeFair and
Game maximise a utility in floating point and may choose anything here.

### SegmentNumbers
Start times, sizes and numbers for segment templates, in unsigned arithmetic of
width `WordModulus`; the clock ticks in seconds. `queued` abstracts the segment
buffer. `GetFront` has the pace of the player: a decoder takes its segment when the
frames of those before have been handed over, and `Renders` says how many that can
be at a time, because `RenderVideo` sleeps after every frame it has shown
(`FrameSleep`, 41666 of the 1000000 microseconds of a `Second`: the player assumes
24 frames a second whatever the presentation has) and the frame buffer holds
`FrameBuffer`, two. How many frames a segment has is a choice, none included: the
first decoding error ends it. `SetPeriod` models that `SetRepresentation` sets the
segment number to 0 and drops the offset it has calculated. A receiver is
constructed after `availabilityStartTime`, and a static presentation has a duration
of whole seconds, where the code has a `double`.

### StreamLifetime
`MultimediaManager::Start`, `Stop` and the start again, around one
`MultimediaStream`: the frame buffer (an instance of `SegmentQueue`), the decoders
that push `FrameCount` frames, or fewer when an error ends the loop, and the one of
the flush, the thread `RenderVideo`,
the buffering thread with the segments as numbers. The sample buffer of a video
stream has capacity 0: a decoder that finds sound (`muxed`) waits in `AddSamples`
until the end of the stream. `leftover` is what still used the stream at the
`delete`. The finer steps of starting a decoder are in `PlaybackSession`.

## 3. What the runs check

| Run | Instance | Checks |
|---|---|---|
| `queue` | the threads of the player: 1 producer, 2 consumers, 1 controller; capacity 2, 3 pushes | `NoLostWakeup`, `Conserved`, `FillReported`, `AbortedBeforeEOS`, and `ImplementsFairQueue`: refinement of `SegmentQueue` with its fairness |
| `chunk` | 2 aborting threads, segments of 0 to 3 blocks, both ways to download | `AbortQuiesces`, `CompletedIsComplete`, `EndIsFinal`, `CopyFollows`, `FinalIsFinal`, `DownloadEnds` |
| `transfer` | 2 threads on one connection, 2 files of -1, 0, 2 or 3 bytes, packets of 2 bytes, blocks of 2 | `DeliveredInOrder`, `WholeUnlessMissed`, `DownloadReturns` |
| `session` | 4 segments, capacity 2 | `DecodedInOrder`, `BoundedAhead`, `StopLeavesLittle`, `StopReturns`, `SessionDrains`, `PlaysEverySegment` |
| `switch` | 3 representations in 2 adaptation sets of 2 periods, 2 segments, capacity 1, 2 changes by the user | `ManagerAndReceiverAgree`, `InitSegmentsKept`, `LogicSwitchesCleanly`, `SafeWithinSet`, `StartReturns`, `StopCompletes` |
| `stream` | 6 bytes in blocks of 1 to 4, calls of 0 to 6 bytes | `LengthCounts`, and `ImplementsByteStream`: refinement of `ByteStream` |
| `reader` | 2 decoders, an init segment of 0 to 2 bytes, media segments of 0 to 5, blocks of 2, reads of 2 and 3 | `InitThenMedia`, `EndIsTheEnd`, `DecodersEnd` |
| `rate` | 5 representations, 5 speeds of the network, a trace of 2, words of 8 bits | `NearestToPrediction`, `NeverStays`, `SettlesIfMeasuredRight` |
| `numbers` | 36 static templates, 12 dynamic ones, 4 timelines; a buffer of 2, a renderer of 2 frames a second, segments of 0 to 4 frames | `AsksForAll`, `StartsInWindow`, `NeverAhead` |
| `render` | 3 segments of a frame and a flush, segment buffer of 1, frame buffer of 2, Start pressed twice | `NothingLeftBehind`, `StreamStops`, `ShowsEveryFrame` |
| `chunk_abort` | 1 aborting thread, 1 block | `AbortReturns` is violated |
| `reader_peek` | 1 decoder, an init segment of up to 3 bytes, blocks of 2 | `PeeksFromItsOffset` is violated |

The bounds.
* `queue`: two consumers are what it takes for a broadcast to wake more threads
  than may go on, and capacity 2 with 3 pushes has a queue that is empty, full, and
  neither, with a third object to be refused. One producer is what the player has;
  the proofs are for any number.
* `chunk`: two aborting threads meet in every pair of places; three blocks allow
  an abort before, between and after them, and a reader that is behind, level, or
  asleep.
* `transfer`: files have no packet, exactly one, and one with a shorter one after
  it, which takes two reads; that blocks and packets cut across each other matters
  to neither side, and the theorems hold for all sizes. The downloads of the two
  threads follow each other, so that leftovers show, or overlap.
* `session`: four segments with capacity 2 let the queue fill, drain and refuse,
  with a decoder chain of four.
* `switch`: two representations in one set let the logic switch, a second set with
  its own period lets the user leave the logic's set and come back, which takes two
  changes; two segments let one be made, queued and decoded during a switch.
* `stream`: six bytes give up to six blocks, and a cut inside the first, the
  second and the last of them; a block longer than a call and a call longer than
  several blocks both occur.
* `reader`: `BLOCKSIZE` and the size of a read are both 32768 in the code, so the
  instance gives both the value 2, and a read of 3 for libav asking again for the
  rest. The init segment fits into one read in `reader`, as it does for the
  presentations the player was made for, and does not in `reader_peek`.
* `rate`: the segments of the largest representation wrap around the word, the
  smallest take no time on the fastest network; two bandwidths, 8 and 10, are so
  close that milliseconds do not tell them apart at a speed between them; one
  representation has no bandwidth, which RateBufferBase never steps down to, and one
  more than `highest_bitrate`. RateBase settles at the speeds 3 and 12. At 9 it is
  the milliseconds, at 45 the wrap and at 100 the zero time that keep it from
  settling: without `MeasuredWrongly` the property is violated at each of them.
* `numbers`: durations that are multiples of the timescale, that are not, and that
  are shorter than a second; time shift buffers shorter and longer than the four
  segments the receiver stays behind; dynamic presentations entered at every age,
  with as many frames as the renderer shows in their time, with fewer and with more.
  Without `KeepsRendererBusy` `NeverAhead` is violated, and so it is with one segment
  less in `StartsBehind`.
* `render`: the frame buffer has its real size and one segment fills it, so the
  decoders of the others wait; any segment may be cut short by an error; three
  segments with a segment buffer of one fill the latter; the second start follows a
  first session that was stopped anywhere.

Deadlock is checked for `queue`, `stream` and `rate`, where some step is always
possible. The other configurations turn it off, because a download, a session, a
stream and a presentation come to their end, and the user need not press anything.

The type invariants are stated with the modules. TLC has checked them, but they are
no run's question: those of all modules with proofs are proved, the bound of the
queue among them, which `ImplementsFairQueue` also has.

### Fairness
`WF` of a thread's step once it is inside an operation: threads are scheduled.
Calling an operation is never fair, with one exception: `DoBuffering`, the
rendering thread and the decoder threads, once created, go on by themselves. In
`NdnTransfer` the callback is fair because every interest has a lifetime, and
neither the network nor the server is. In `PlaybackSession` a download that began
ends; that is `DownloadReturns` for `PreDownload` and `DownloadEnds` for the chunk,
and it does not hold for an abort that falls into the gap of the first finding. In
`SegmentReader` libav reads until it is told the end, and a download that nobody
aborts goes on. In `RepresentationSwitch` and `StreamLifetime` the user need not
press anything; what `Start`, `Stop` or a switch began goes on. The failure of a
decoder and the end of the download that a closed queue refused are not fair. In
`RateAdaptation` segments are downloaded as long as the stream lasts, and the
network is not fair. `SegmentNumbers` has safety properties only.

### Findings
1. `chunk_abort`: the download thread tests for an abort request and sets
   `COMPLETED` in two critical sections. A request in between is overwritten, and
   the aborting thread waits for `ABORTED` for ever, inside `SetEOS` with the
   queue's mutex held.
2. `reader_peek`: a peek with an offset applies it in every block it visits and
   subtracts it from the length of the last copy. An init segment of more than one
   read, 32768 bytes, reaches libav with bytes that nobody wrote.

### Also in the models
These follow from the code and are in the models; the properties say what holds
besides them.
* The download thread may call through the connection pointer before
  `StartDownload` has stored it (`DownloadChunk`, place `crashed`); with libcurl,
  `IN_PROGRESS` may replace `COMPLETED` for good.
* The connection shared by two threads mixes their bytes (`NdnTransfer`,
  `shared`). A packet that times out is never asked for again; an interest for a
  file that is not there takes the server down.
* `run` and `isRunning` are set after the threads that read them exist; a short
  segment then ends the playback in silence (`PlaybackSession`, `early`).
* A switch by the user between two unlocked reads of `DoBuffering` gives a segment
  the label of a representation that it is not from; `LogicSwitchesCleanly` says
  that the logic's own switches do not. After the user has changed the adaptation
  set, the logic's next choice is not in the set; `SafeWithinSet` says that nothing
  less leads there.
* The stream is deleted while in use in three cases, which `NothingLeftBehind`
  names: a decoder under construction that Stop does not know, the download of a
  refused segment, and the buffering thread after the first decoder had failed.
* A frame that the closed frame buffer refuses is lost and never deleted.
* RateBase on a steady network need not settle: the measurement of a large
  segment wraps, looks slow, and the logic retreats until small segments look fast;
  between close bandwidths the milliseconds of the clock have the same effect, and a
  segment that took no time is measured as anything. `SettlesIfMeasuredRight` says
  that nothing else keeps it from settling: again and again there must be a
  measurement so wrong that another representation is nearest to it.
  RateBufferBase changes the representation
  with every segment unless it is the first (`NeverStays`).
* A dynamic presentation of fewer than 24 frames a second is shown too fast, and a
  segment with a decoding error is over at once: the receiver then overtakes the live
  edge, which it looked at once, and asks for segments that do not exist yet.
  `NeverAhead` says how far behind it must have begun, and how many frames the
  segments must have had, for that not to happen.
* A young dynamic presentation is entered at a segment number near 2^32
  (`StartsInWindow`); a static one whose segments last no whole number of seconds
  is asked for segments that do not exist, and one with an S element at t = 0 that
  repeats ends early (`AsksForAll`).

## 4. What is proved

TLAPS checks the proofs for all values of the constants, under the assumptions
named in the modules. They say what any instance of the program satisfies:
capacities and sizes of packets and blocks are positive, threads that must differ
do, nobody is named like the free mutex and no interest like the absence of one,
there is a file to ask for, durations of dynamic presentations and the unit of a second are not 0 (the
code divides by the former), and clock and segment numbers fit the `uint32_t` they are
kept in (`WordAssumption`; the presentation's own products and differences may
wrap around, and the model lets them). The theorems on `SegmentReader` assume one
thing more, `InitFitsOneRead`: an init segment fits into one block and into what
libav asks for at a time, both 32768 bytes in the code (`AbstractChunk.cpp:18`,
`LibavDecoder.cpp:33`). Without it they are false, which is the second finding.
The bounds of the models (`MaxBytes`,
`MaxChanges`, `MaxDownloads`, `MaxSessions`, ...) are constants, so the theorems
hold for every bound.

Every module of proofs has one inductive invariant, `IInv`, except the first and
`SegmentNumbersProofs`, where each theorem has its own; TLC has checked them
on the instances of section 3. `TypeCorrect` is the type invariant. Two modules
prove about a second model as well, which they extend too, because it needs their
lemmas: `BlockStreamProofs` about `SegmentReader`, with the invariant `ReaderInv`,
and `SegmentNumbersProofs` about `RateAdaptation`, with `RateInv`. That is why
these two models have names of their own for initial states, steps and types
(`ReaderInit`, `ReaderNext`, `ReaderSpec`, ..., `RateSpec`, ...), and
`SegmentReader` for what `BlockStream` calls `blockqueue`, `eos`, `PushBack` and
`SetEOS`, as the code does.

| Module | Theorems besides `TypeCorrect` |
|---|---|
| `MediaObjectBufferProofs` | `NoLostWakeup`, `Conserved` and `InOrder`, `AbortPrefix`, `AbortedBeforeEOS`, `FillReported`; the refinement `ImplementsQueue` |
| `DownloadChunkProofs` | `AbortQuiesces`, `CompletedIsComplete`, `EndIsFinal`, `CopyFollows`, `FinishedIsFinal`, `NoLostWakeup`, `FinalIsFinal` |
| `NdnTransferProofs` | `DeliveredInOrder`, `WholeUnlessMissed` |
| `BlockStreamProofs` | `LengthCounts`; the refinement `ImplementsByteStream`; of `SegmentReader`: its types, `InitThenMedia`, `EndIsTheEnd` |
| `PlaybackSessionProofs` | `DecodedInOrder`, `BoundedAhead`, `StopLeavesLittle` |
| `RepresentationSwitchProofs` | `ManagerAndReceiverAgree`, `InitSegmentsKept`, `LogicSwitchesCleanly`, `SafeWithinSet` |
| `StreamLifetimeProofs` | `NothingLeftBehind` |
| `SegmentNumbersProofs` | `NeverAhead`, `StartsInWindow`, `AsksForAll`; of `RateAdaptation`: its types, `NearestToPrediction`, `NeverStays` |

**MediaObjectBufferProofs.** `TypeCorrect` first, then each property with the
strengthening it needs:
`NoLostWakeup` needs that a sleeper is at the place it sleeps at; `Conserved` and
`InOrder` are inductive together with the numbering of the queue (all numbers at
most `pushed`, strictly increasing, and consecutive removal from the front);
`AbortPrefix` ties mutex, `pc` and loop index, and gives `AbortedBeforeEOS` at
the step that sets `eos`; `FillReported` needs that a size which differs from the
last report has a notification under way. `BufferImplementsQueue` maps the wait
sets and places to `blocked`: every critical section is a step of the queue or a
stutter.

**DownloadChunkProofs.** `IInv` relates the places of
the starter, the download thread and the aborters to the state: what has been set
before others may act (`Starting`), what the final decision implies (`Deciding`),
that a push has a block (`Pushing`), that an aborter that returned saw the state
final (`Aborting`), the media object's copy (`CopyFollows`), and the end of the stream
(`Ending`, `Ended`). The properties are conjuncts of it or follow from it;
`FinalIsFinal` is the action property that follows for each step. `FinishedWaits`
and `WakeupsNotLost` prove two more invariants of the module.

**NdnTransferProofs.** Nothing the properties say is inductive, because they
speak of what was delivered and not of the buffer it comes from. `Transfers` says,
for a thread that has the connection to itself, that the buffer holds the packets
that arrived, each whole and in its place (`Buffered`), that what was delivered is
the part that was read (`ReadSoFar`), and that nothing is left out unless a packet
was missed (`NothingMissing`). That a late or repeated Data packet cannot be taken
for another is `Waits` (a thread waits for the last thing it asked for) with
`Answers` (the network holds what the server answers). `Alone` says that a thread
whose download is not shared is the only one; two threads on one connection are in
the theorems, which promise nothing of the bytes then. `NumberCovers`,
`PacketAppended` and `NextBytesAppended` are the arithmetic of packets: the ceiling
that the server computes covers the file, and all packets but the last are full.

**BlockStreamProofs.** The state is simple, `IInv` is `TypeOK` and `LengthCounts`;
the work is in the loops. `CutRight` is the invariant of the loop that takes (what
was taken and what remains are together the blocks so far, and nothing remains
while more is to be taken), `PeekRight` that of the loop that looks. They give
`CutSplits` and `PeekGives`: for every queue of blocks, `Cut` returns the first
bytes and leaves the others in blocks none of which is empty, and a peek from the
first byte returns the first bytes. With them each call is one step of
`ByteStream`.

The same two are the steps of the reader. `InitWhole` says that the init segment
is at most one block that nobody takes away, although every decoder of the
representation peeks at it; `InitSeen` that a decoder has seen nothing of it or
all, and all before it takes from the media segment; `MediaFlow` that what it has
taken and what is in its stream are together what was pushed, in order. What libav
was given is then a prefix of the two segments (`InitThenMedia`), and all of them
when the stream has ended and is empty (`EndIsTheEnd`). A peek from within the
init segment, which would go wrong, never happens, because the first peek gets all.

**PlaybackSessionProofs.** `Numbering` ties the queue, the downloads and the place
of `DoBuffering` to the numbers of the segments; `Chain` says that at most one
thread is at the end of the chain, the only one that may take a segment and create
a decoder, although it reads the flags of the others without a lock; `Known` that
some thread of the chain has taken the segment that left the queue last.
`BoundedAhead` is inductive only with these.

**RepresentationSwitchProofs.** `Exclusion` says who holds `monitorMutex` at which
place, with its exception, the first init segment, for which `DoBuffering` takes
none; `Phases` which threads exist, which makes the exception harmless.
`Agreement` gives for each place of a change which of the choices has been
assigned, so that they agree when nobody is inside. `OneSet` and `OneSwitcher`
carry the premises of `SafeWithinSet` and `LogicSwitchesCleanly`: without the
user's change every place a set or a representation is kept at holds the same.

**StreamLifetimeProofs.** `Chain` says which decoders can be alive (all before the
last are done but the one that is about to start it), `Running` and `Ending` what
is true of them before and after Stop finds the current one, `Refusals` when a
segment can be refused. `NothingLeftBehind` then follows at the `delete`: each of
its three exceptions is a case in which `Ending` claims nothing.

**SegmentNumbersProofs.** `LiveEdgeNotOvertaken` rests on the invariant `Paced`:
the number asked for last is below the sum of the offset, what the player has
taken and what is queued, the queue holds one segment more than its capacity at
most, and the frames handed over are those that the renderer had time for
(`Renders`). `NeverAhead` is not inductive, because it does not say why the next
segment is there. It follows from `Paced`, frame by frame: its premise
`KeepsRendererBusy` turns segments taken into frames, `Renders` turns frames into
seconds, and `StartsBehind` has room for what remains, the two buffers, the frame
that is shown and the second that has begun. Both premises are about what the
presentation gives, not about what the player does, and nothing bounds the speed of
the network. `StartsInWindow` is a statement on
`CalculateSegmentOffset` (lemma `EntryPoint`): which of its unsigned differences
wrap around, and that none does when the presentation is old enough.
`AsksForAll` needs that a timeline has as many start times as its S elements
stand for (`TimelineLength`, for timelines of any length) and, without one, that
counting whole seconds leaves no segment out (`WholeSecondsSuffice`).

For `RateAdaptation`, `BestOf` is the invariant of the loop of RateBase: the
stored distance, rounded down, is at most that of every representation looked at,
and the chosen one is less than the lost fraction away from it, or nothing was
near enough and the choice is the first. `RateInv` adds to the types that the
representation of RateBase is the nearest to the trace, and that only
RateBufferBase can start without an index. `NeverStays` holds in every step of its
own, once `ClosestIsCandidate` says that the choice is a candidate when there is
one; that needs a least number in every set of numbers (`LeastNumber`).

**Induction.** The induction theorems of the library take a predicate as a
parameter, which the provers cannot instantiate. `SetInduction` states induction
for a set instead, and is proved from the cardinality of intervals: if a set with
0 that is closed under + 1 lacked k, adding 1 would map its members up to k into
themselves, one to one, and yet leave out 0. From it follow
`BoundedInduction` and, in `Iteration`, that a function defined by recursion over
the numbers exists, without which nothing is known of a recursive definition. This
is how `FlattenSeq`, `Cut`, `BlockQueuePeekBytes`, the timelines and the loop of
RateBase are proved about.

**Only model-checked.** Liveness (`ImplementsFairQueue`, `DownloadEnds`,
`DownloadReturns`, `StopReturns`, `SessionDrains`, `PlaysEverySegment`,
`StartReturns`, `StopCompletes`, `DecodersEnd`, `StreamStops`, `ShowsEveryFrame`,
`SettlesIfMeasuredRight`) is out of the prover's reach. Every safety property and
every action property that a passing run checks is proved, and so are both
refinements of a safety specification.

## 5. What is not modelled

* Destructors: `~MediaObject` under `Clear` waits for a download that runs, with
  the queue's mutex held. The destructors of stream, manager and receiver are the
  step `DeleteStream`; `~MediaObjectDecoder` has no caller.
* The utilities of QoeFair and Game, which are floating point; their choice is any
  representation.
* The audio stream and its renderer, which repeat the video's without adaptation. The
  pace of `SegmentNumbers` is that of the renderer of the video.
* Settings without a representation for the video (`DASHPlayer.cpp:94`), which set
  adaptation set and representation to NULL.
* `Front`, `Length` and `Capacity` of the queues, which only look; the fixed size
  of the segment buffer of the consumer; `TimeResolver`, whose `gmtime` results
  share one static struct, and the other string handling of FW/MPD; segment lists
  and single segments, which have constant sizes.
* The condition variables emulated for Windows XP, and the persistent HTTP
  connection of `libdash_networkpart_test`.
* The MPD, XML and metrics classes of libdash, which are passive data.
* Qt, libav, libxml2, libcurl, SDL, ndn-cxx and NFD: third-party code, most of it
  headers of libraries, and by far the largest part of the repository's lines.
  libcurl, libav and ndn-cxx appear as far as the player sees them. The models
  cover the player's and the server's own code, a few thousand lines.

## 6. Plan

1. Done: the queue with its abstraction, the download, the transfer by two
   threads, the session, the switch of representations, the stream of blocks with
   its abstraction, the reading of segments, the rate adaptation, the segment
   numbers, and the life of a stream with its renderer; proofs of all safety
   properties.
2. `~MediaObject` under `Clear`, with the download it waits for.
3. The condition variables emulated for Windows XP as a refinement of wait sets.
4. The persistent HTTP connection; the audio stream beside the video stream.
