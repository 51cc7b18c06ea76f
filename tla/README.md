# Verification of the HBK openDAQ modules

TLA+ specifications of the modules in `src/hbk-opendaq-modules-main/modules`
(the advanced recorder with its SIE files, the playback device, the camera
device and the MTIG710 device) and of the demonstration program in `apps`. TLC
checks them on small instances; TLAPS proves theorems about the recorder and the
program that uses it, its writer, its signals, its files and its file I/O, the playback
device, the camera device and the MTIG710 for all values of the constants.

Run, in this directory:

    tlc -config SieWriterSerial.cfg MCSieWriter     # any run of PROJECT.json
    tlapm SieFileProofs.tla                         # and any other *Proofs.tla

`PROJECT.json` lists the components, the runs with what each shows, the
hazards with the properties that cover them, the theorems, and, for every
definition that models code, the lines it models.

## 1. The system

The modules are plug-ins for openDAQ, which is not part of the repository: it
owns components, properties, connections and packets and calls the modules.
Paths below are relative to `src/hbk-opendaq-modules-main/modules`.

| Component | State | Operations | Called by |
|---|---|---|---|
| SIE writer stack (`advanced_recorder_module/include/.../sie`) | the file, `index` and `offset` of the indexing layer, the id counters | `write_block`, `write_metadata`, `allocate_*`, `flush_index`, destructor | signal handlers, on the threads that send packets |
| Vectored file I/O (`posix_`, `fallback_vector_io_file.h`) | the file, the segments not yet written | `write` | the block layer |
| SIE XML and metadata (`sie/xml.cpp`, `sie/*.h`) | the elements a caller builds | the fluent calls of `xml::element`, serialisation, the builders of channels, decoders, tags | signal handlers, the recorder |
| Recorder signal and handlers (`advanced_recorder_signal.cpp`, `handlers/`) | last descriptors, current handler, its group | `onPacketReceived`, `supports`, constructors, `onDataPacketReceived` | the recorder, per packet |
| Advanced recorder (`advanced_recorder_impl.cpp`) | ports, `recordingActive`, `writer`, `signals` | start, stop, file name, `onConnected`, `onDisconnected`, `onPacketReceived` | users and senders, via openDAQ |
| Demonstration program (`../apps/advanced_recorder_test`) | where `main` is | connects three signals, records for a second, returns | the operating system |
| Playback channel (`playback_channel_impl.cpp`) | the three buffers, read position, rate, signals, sample count, zero offset | property writes, `collectSamples`, Zero | users; the device's acquisition thread |
| Playback device (`playback_device_impl.cpp`) | channels, acquisition thread, loop time; `loggingEnabled` and the log's path | `acqLoop`, property writes, destructor; `onGetLogFileInfos`, `onGetLog` | its thread, users, its owner; clients that download the log |
| Playback device module (`playback_device_module_impl.cpp`) | weak references to the devices by number | discovery, `onCreateDevice`, `clearRemovedDevices` | users |
| Camera device (`camera_device_impl.cpp`) | capture threads, quit flag, sample counter | thread function, `start`, `stop`, `propertyChanged`, destructor | one thread per camera; the owner |
| MTIG710 device (`mtig710_device_module`) | the module's device counter; rate, delta and sample counter of a device | `onCreateDevice`, `addData`, `SampleRate` | the driver's thread (not in the repository); the owner |

How they interact. A user thread configures components; openDAQ holds the
component's recursive lock around property writes, and the recorder takes its
own around its callbacks. Connections change outside that lock and their
callbacks follow. Packets travel on the sender's thread: the acquisition or
capture thread of a device sends a packet, the connection notifies the
recorder's port on the same thread (`PacketReadyNotification::SameThread`), the
recorder looks up the signal object under its lock, releases it, and the
handler writes to the shared writer. `shared_ptr` keeps a writer open until the
recorder, its signal objects and the packets in flight have all let go of it;
then the destructor writes the closing index block.

What is hard: signals of several devices call one unsynchronised writer;
writes fail half way and the recorder goes on; a reader of the file depends on
decoders, payloads and descriptors that are written by three pieces of code and
must agree; callbacks of several users interleave with connections made
meanwhile; senders use a signal object after recording stopped; the Zero
function takes no lock; counts kept at one rate are subtracted at another;
threads are asked to end while they wait; devices vanish while the table of
devices is searched; a log grows, shrinks and vanishes while it is downloaded;
a receiver throws through a sender.

What makes each component correct:

- writer stack: the file is a sequence of whole, adjacent blocks; every block
  is indexed once, at its true offset and with its group;
- vectored I/O: what reaches the file is a first part of the bytes given, all
  of it if the call returns;
- XML: a reader of the text gets the elements back;
- signals: metadata before data, groups never shared, data always under the
  metadata of its own descriptors, and a reader who follows the decoder gets
  the samples and times that were sent;
- recorder: one free port at the end, signal objects exactly for connected
  ports while recording, files closed after stop and never written again;
- program: all three signals in one file, and that file closed at the end;
- channel: reads within its buffer, time stamps monotone and no more samples than
  the time holds, signals that describe the data, no count that runs away;
- device: channels as configured, all given one time per round, an end without
  deadlock; a downloaded log that is a first part of the file, nothing handed
  out once logging is off, and a download that ends;
- table of devices: no number twice, no number refused that is free;
- camera: no thread survives `stop`, and time stamps of a camera do not overlap;
- MTIG710: times of consecutive packets touch, for every receiver.

## 2. Modules

| Module | Models | Instances |
|---|---|---|
| `SieWriter` | `basic_writer`, `basic_indexed_writer`, `basic_block_writer` over a file that may fail | `MCSieWriter` |
| `IndexedLog` | abstract: what the indexing layer promises | |
| `SieWriterLog` | refinement mapping to `IndexedLog`; the inductive invariant `SerialInv` | `MCSieWriter` |
| `VectorIo` | one vectored write, both classes | `MCSieFile` |
| `SieElements` | `xml::element`, the elements of the SIE vocabulary, the rounding of a scale | |
| `SieXml` | EXTENDS `SieElements`: a client of the fluent interface, the serialisation, and a reader of XML | `MCSieFile` |
| `SieSamples` | EXTENDS `SieElements`: what the handlers declare and write, and a reader of it | `MCSieFile` |
| `SieFileProofs` | theorems about `VectorIo`, `SieXml` and the scales in `SieSamples` | |
| `SieSamplesProofs` | EXTENDS it: the theorem about the samples in `SieSamples` | |
| `Recursion` | lemmas: a recursive function over the numbers obeys its equation, a fold takes the members one by one; instances in the two modules above | |
| `RecorderSignals` | EXTENDS `SieWriter`: signals and handlers that share a writer | `MCRecorderSignals` |
| `RecorderSignalsProofs` | theorems about `SieWriter`, `SieWriterLog` and `RecorderSignals` | |
| `RecorderFiles` | abstract: what the recorder does to files | |
| `AdvancedRecorder` | the function block, and the refinement mapping to `RecorderFiles` | `MCAdvancedRecorder` |
| `AdvancedRecorderHistory` | EXTENDS it with a history of overlapping callbacks and failures | `MCAdvancedRecorder` |
| `RecorderApp` | EXTENDS `AdvancedRecorder`: the demonstration program as its only user | `MCRecorderApp` |
| `AdvancedRecorderProofs` | theorems about these | |
| `PlaybackChannel` | one channel and its clock | `MCPlaybackChannel` |
| `PlaybackDevice` | acquisition thread, channels, destructor | `MCPlaybackDevice` |
| `PlaybackLog` | the download of the log | `MCPlaybackDevice` |
| `PlaybackDeviceProofs` | theorems about these two | |
| `PlaybackRegistry` | discovery and the module's table of devices | `MCPlaybackRegistry` |
| `PlaybackModuleProofs` | theorems about `PlaybackChannel` and `PlaybackRegistry`, which have no name in common | |
| `CameraDevice` | capture threads and their control | `MCCameraDevice` |
| `Mtig710` | the module's counter, `addData`, `SampleRate` | `MCCameraDevice` |
| `CameraDeviceProofs` | theorems about these two | |

Three instances hold several specifications that share no variable
(`MCPlaybackDevice` and `MCCameraDevice` two, `MCSieFile` three). A variable
`part` is chosen at the start and says which of them runs; the others rest in an
initial state, and fairness is asked of the running one. So each behaviour is
one of a single specification, and the run answers for all without their
product.

Variables keep the members' names. An action is one handler, or one step of it
between two accesses that another thread can see: `SieWriter` follows
`write_block` through `emplace_back`, the file write, the load and the store of
`offset += ...`, and the flush; `AdvancedRecorder` separates the connection
from its callback, the check of two ports from the removal of one, and the
lookup of a signal object from its use; `PlaybackChannel` generates a packet
sample by sample, because Zero may come in between; `PlaybackRegistry` asks a
weak reference twice, as the code does; `PlaybackLog` takes one step per call to
the file system; `Mtig710` sends a packet to one receiver at a time. Whole
callbacks under the recorder's or the channel's lock are single actions.

A module's type invariant is a conjunct of the first property of its run, except
for `SieWriter` and `AdvancedRecorder`, where it is a theorem.

Operators marked "Mutant of ..." are deliberately wrong variants of the
definition they stand before. No specification uses them. Put in its place,
each makes the property named in `PROJECT.json` fail, which shows that the
property does say something about the code.

Abstractions that matter:

- `SieWriter`: a block is its position, size, group, the group it declares and
  its index entries; payload, CRC and byte order are left out. A failed write
  leaves one of `TornLengths` bytes.
- Racing reallocation of the vector `index` may corrupt memory; the model
  covers lost updates only. The id counters are atomics in the code and single
  steps in the model.
- `RecorderSignals`: a pair of descriptors is the record of features
  `supports()` and the constructors look at.
- `SieSamples`: calls of the writer are atomic and succeed, since interleaving
  and failure are `RecorderSignals`' question. A payload is a sequence of octets
  that know of which number they are which part. The reader of an SIE file is
  not in the repository; it is modelled as an interpreter of decoders as
  `format.h` and the decoders' builders use them. openDAQ's data is modelled
  from the code's use: `getSampleType` is the type after post-scaling,
  `getRawData` holds the type before it. A scale is rounded to `DIGITS` digits,
  6 in the code and 2 in the instance.
- `SieXml`: a text is a sequence of characters, and a name, which nothing is ever
  inside of, counts as one; indentation and the schema's fixed preamble are left
  out. The reader of XML is not in the repository: it reads character by
  character and is as lenient as readers come. An element has a nesting depth
  of at most `MaxDepth`, 3 in the instance.
- `AdvancedRecorder`: `reconfigure` reads all connections in one step. A
  connection that changes while the loop runs has its own callback due, which
  runs `reconfigure` again.
- `PlaybackChannel`: the clock counts `Clock` units in a second, microseconds in
  the code, and packets are stamped in ticks of the resolution, as in the code.
  The truncation of `elapsed * sampleRate` is exact integer division, the code's
  `double` is taken to be exact at these magnitudes. `Word` stands for 2^64. A
  CSV file is what it yields: its samples, and the `deltaT` and the resolution
  of its metadata. What it does not give stays as it was. A file that fails to
  parse leaves any first part of these. Zero and negative numbers in the
  metadata are left out.
- `VectorIo`: `fwrite` returns a short count only on error, as the C standard
  has it; `writev` may write any non-empty first part.
- `PlaybackRegistry`: a connection string is a number, or one with a bad prefix
  or no number.
- `PlaybackLog`: whoever writes the log is external; it appends, truncates,
  removes and creates. The bytes are numbered.
- `Mtig710`: the driver that calls `addData` is external; receivers throw or not.
- `RecorderApp`: the reference device, its signals and threads are external; its
  threads send at any time, and any call may throw where openDAQ's does.

## 3. Runs

| Run | Distinct states | Bounds, and why they are enough |
|---|---|---|
| `SieWriterSerial` | 475,130 | 2 threads in turns, 4 calls, an index block every 2 blocks, 2 payload sizes, writes that leave 0 or 13 bytes. Two index blocks and a failing flush of more entries than `INDEX_EVERY` fit. The refinement is checked until a failure does damage. |
| `SieWriterConcurrent` | violation | 2 threads, 3 calls. |
| `RecorderSignals` | 1,892,407 | 2 signals, 3 packets each, 3 calls, groups up to 4, one recordable and one unreadable descriptor, writes that fail and leave nothing. Two signals with one handler each and a descriptor change fit. |
| `SieFile` | 290,877 | 2 signals, 7 descriptors (scalar and CAN, exact and inexact scales, small messages, an array of two `UInt16` in a message of 69 octets, an array whose dimension is not linear, an unreadable field), 4 variables for a decoder, 3 handlers, 2 packets with offsets 0 and 90 and 0 or 2 samples: a signal can change its decoder and use both. For the XML, 6 fluent calls with texts of every special character: two nested elements and two serialisations fit. For the file I/O, blocks of 1 to 4 segments of up to 3 bytes, empty ones included, and every way to cut them. |
| `AdvancedRecorder` | 1,341,317 | 2 users, 1 sender, 2 sources, 4 ports, 1 file name and 2 writers, opening and preamble may fail. Both users' callbacks overlap, a middle port is disconnected and connected again, a second recording starts while a packet of the first is in flight. The refinement of `RecorderFiles` is checked here. |
| `AdvancedRecorderPorts` | violation | 1 user, 1 source, 4 ports, no failures. |
| `RecorderApp` | 1,246 | the three signals, ports and the file name of the program, 2 threads of the device; 2 writers, so that a second file would be seen. |
| `PlaybackChannel` | 319,861 | 4 clock units a second, default `deltaT` 2, default array of 3, arrays of 0 and 1; a file of 0 samples with a smaller `deltaT` and one of 2 with a finer resolution, both of which may fail to parse, so that every pair of old and new metadata is played; 2 clock units, 4 samples at the highest rate. |
| `PlaybackChannelRateDrop` | violation | a file with twice the default `deltaT`, and one with half the default resolution and no `deltaT`. |
| `PlaybackDevice` | 176,699 | 1 to 2 channels, loop times 1 and 2, clock stops at 3. For the log, 3 bytes ever logged in up to 2 files, chunk sizes 1, 2 and "all": a download in several chunks, across a truncation and a new file. |
| `PlaybackRegistry` | 146,380 | 2 threads, 2 numbers, 2 device names, reused once free. |
| `CameraDevice` | 275,884 | 2 cameras, 2 frame sizes, 4 frames sent in all, sends that fail, 2 changes of rate: both threads load and store the shared counter in every order, updates are lost, and the last thread can be joined twice. For the MTIG710, 2 drivers, 2 receivers that may throw, 2 packets of 1 or 2 samples each, 1 write of the rate. |

`CHECK_DEADLOCK FALSE` is said where the system may really stop or a bound ends
it: a finished write, a destroyed device, a program that has returned, all
calls used up. `PlaybackDevice` never stops (time goes on, a log is appended to
or its client starts over) and is checked for deadlock.

Three runs end in a violation, and each is a finding in `PROJECT.json`:

- `SieWriterConcurrent`: `format.h:60-61` says that every index entry
  "specifies the file offset of a preceding block". Two overlapping
  `write_block` calls make entries that do not.
- `PlaybackChannelRateDrop`: after a switch to a file with a larger `deltaT` or
  a coarser resolution the unsigned `samplesSinceStart - samplesGenerated` wraps
  and the acquisition thread ends with an exception.
- `AdvancedRecorderPorts`: `advanced_recorder_impl.h:112-114` promises one
  unconnected port at the end and allows others below ports in use. `onConnected`
  adds a port whichever port was connected, so that connecting one of those
  others leaves two free ports at the end, with a single user.

The other properties hold, some under a condition their definition or
configuration states. What lies outside those conditions is so in the code,
too, and deserves a reader's attention.

Recorder:

- With two users, a disconnect can overtake another's connect callback. Then,
  too, several free ports may remain, until the next disconnect trims them
  (`OneFreePortAfterDisconnect`), and a port that was disconnected and connected
  again before either callback ran keeps the old signal object
  (`RecordingMatchesState` excepts it). `LastPortFree` and `Undisturbed` hold for
  any number of users.
- If opening the file or writing its preamble fails, `getIsRecording` answers
  true without a writer, or a later reconfigure records into a file without
  preamble (`RecordingMatchesState` excepts it).
- A sender that found its signal object before `stopRecording` may write data
  to the file afterwards; the file is closed when it is done.
- `Filename` written while recording has no effect until recording stops.
- All signals go into one file, where `advanced_recorder_impl.h:19` speaks of
  one file per signal; and the same header says that packet handlers run in a
  background thread (lines 26-27), while the ports ask for the sender's.
- A signal whose metadata could not be written records nothing until its
  descriptors change again.
- The block size is cast to 32 bits, and the CAN handler casts its sample count.

What an SIE file holds:

- With post-scaling, the payload has the type before scaling and the decoder
  the type after it (`scalar_linear_signal_handler.cpp:208-212`), so that values
  are misread. `SamplesReadBack` speaks of signals without.
- CAN messages are written as they come, in 69 bytes each, whatever
  `can_signal_handler.cpp:155-159` says of lengths; a struct larger than that is
  misread.
- Of a field that is an array, the decoder reads all items only if they are
  octets and the dimension's rule is linear (`can_signal_handler.cpp:110-113`);
  of any other array it reads the first item (lines 119-123), and every field
  after it from the wrong place. The model has such arrays, with one dimension
  (`Pieces`), and `SamplesReadBack` leaves their channels out.
- A tick resolution that needs more than six digits is read back as another
  one: a time still lies nearest to the right tick up to 10^6 ticks
  (`TicksReadBack`), and not beyond.
- An element that has content and children does not write the children
  (`xml.cpp:80`), while `xml.h:151-152` documents that `serialize` "recursively
  serializes this XML element, and its attributes and children". The model does
  what the code does, and its client makes such elements. `ReadsBack` does not
  hold for them and leaves them out (`Unmixed`): it says that every other
  element is read back whole, and that a mixed one disturbs no other. The SIE
  vocabulary has no such element.

Playback:

- The channel's start is added to a packet's time in microseconds
  (`playback_channel_impl.cpp:237`), whatever the resolution. A stamp is
  therefore right only for ticks of a microsecond, as without a resolution in
  the file; for any other it is off by the time since the epoch times the ratio
  of the units, years ahead or behind. `TimesNeverOverlap` compares stamps with each
  other, where the offset does not matter, and with the clock only what is left
  of them without it: it does not say that a stamp is no later than the clock.
- The rate is the resolution's denominator, divided by `deltaT`, times its
  numerator (line 192), where ticks of `num/den` seconds call for a division by
  the numerator. For a numerator other than 1 the rate is too high by its square,
  and packets lie in the future; `TimesNeverOverlap` compares with the clock only
  for numerator 1.
- The rate also drops when a file has the same `deltaT` and a coarser resolution.
  Metadata that a file does not give are those of the file before.
- A file that throws while it is parsed leaves a `deltaT` or a resolution that
  the packets use and the descriptor does not, until the data source changes
  again (`SignalsDescribeData` and `TimesNeverOverlap` except that period). A
  file with `deltaT` 0 divides by zero.
- A Zero that interrupts the generation of a packet makes the next one aim at
  the wrong value (`ZeroHitsTarget` excepts it).
- `AcquisitionLoopTime` is read once, when the thread starts.
- `loggingEnabled` is read before it is set if the configuration does not hold
  `EnableLogging`: the model starts with either value.
- `onGetLogFileInfos` throws if the log vanishes between its looks at it.
- Discovery offers two devices whatever the size of the table; an id beyond an
  `int` throws `out_of_range`; one `LocalId` option serves all devices.

Camera and MTIG710:

- A second `stop()` of the camera device joins threads that were joined before:
  a second change of the rate fails with an exception, and destruction after a
  change ends the process. `DestroyEnds` counts that as an end.
- Nothing protects the sample counter that the capture threads of several
  cameras share, so that an update of it can be lost; afterwards a packet of a
  camera may start before the one before it has ended. `TimesNeverOverlap` of
  `CameraDevice` speaks of the time before that (`~lost`): then packets of a
  camera do not overlap, however the threads interleave. Without `~lost` it fails
  with two cameras. With one camera no update is ever lost
  (`OneCameraLosesNothing`).
- When sending a packet throws, `addData` logs and rethrows out of the capture
  thread, which ends the process (`SendThrows`). `DestroyEnds` counts that as an
  end, too.
- A receiver that throws out of `addData` leaves the MTIG710's sample count as it
  was, and the next packet reuses the times. `TimesContiguous` therefore lets the
  packet of a failed call be repeated.
- `mtig710_channel_impl.cpp:45` copies `sizeof(float)` bytes per sample into
  packets of `Float64`, and `configureTimeSignal` keeps a rule delta of 1
  (`mtig710_device_impl.cpp:162-170`). Samples' contents are not modelled there.

Fairness. No user and no owner has to do anything. `PlaybackChannel` assumes
that the acquisition thread keeps collecting; `PlaybackDevice` that threads run
(weak fairness), that a wait that has timed out returns, and that nobody is
kept for ever from a mutex that is released again and again (strong fairness;
the platform's mutex and `wait_for` are expected to behave so);
`PlaybackRegistry` likewise; `PlaybackLog` that calls return and that a client
in the middle of a download asks for its next chunk; `CameraDevice` that threads
run and that a camera that is asked for a frame answers, with a frame or an
empty one; `RecorderApp` that `main` goes on and that a thread of the device
finishes the packet it is delivering; `VectorIo` that the caller keeps running.
Safety properties need none of it.

## 4. Proofs

For every set of threads, users, senders, signals, files, cameras and devices,
every payload size and every bound, from the named assumptions on the constants
alone. Below, by module.

`RecorderSignalsProofs`, about the writer stack: `TypeCorrect`, for any failures
and overlaps.
`IndexAccuracy`: callers that take turns (`Serialised`) give accurate index
blocks until a failed write does damage. `Refinement`: until then every step of
theirs is one of `IndexedLog` or leaves it alone. Index accuracy is not
inductive: it speaks of entries in the file, and whether the next index block is
right depends on the entries in memory. `SerialInv` adds that at most one thread
is in a call (`OneCaller`); that `offset` is the end of the file, or lags by the
block just written, and that what the thread has loaded is current
(`OffsetInSync`); that the pending entries name, in order, the blocks at the end
of the file no index block covers (`PendingMatches`); and that the file has no
gap at its end (`NoGapAtEnd`). The proof has a lemma per group of actions. The
refinement uses the same invariant: the mapping counts the blocks covered
(`Covered`), and `IndexIsTail` turns `PendingMatches` into the equation of the
abstract step.

`AllIndexedOnce`: every block is named by exactly one entry. Its proof works on
the abstract steps: it relates the entries of the index blocks to the positions
they cover (`PositionInv`, `EntriesInv`), shows that a step of the abstract log
keeps that, and uses the refinement for the steps of the code.

`SieFileProofs`, about the bytes: `BytesInOrder`, for calls of any segments, empty ones and a
call that ends with one included. The property compares the file with the call;
the code knows neither, only the segments it has cut. `WriteInv` connects them:
what is in the file and what the segments still describe, but for the bytes
written and not yet accounted for, are together the call (`FileInv`); and bytes
are left to account for exactly in the inner loop (`CursorInv`), so that
`current_segment` is in the array there. What the segments describe (`Gather`)
is a recursive function. That it exists, is a sequence and depends on the
segments from its argument on only (`ConcatExists`, `ConcatType`, `ConcatAgree`)
is proved by induction over a set of numbers (`SetInduction`, from the
well-foundedness of `<`), which the provers can instantiate where they cannot
the library's rule with its operator parameter.

What is written in the models as a recursive function is defined with `CHOOSE`,
and obeys its equation only if some function does. `Recursion` proves that, once,
for any base and step, which are its constants; an instance of it applies the
proof to `Nested`, `Serialize`, `Visible`, `Unmixed`, `ReadTo` and `TenTo`.

`XmlReadsBack`: for any characters, texts, names and depth. The reader is a state
machine, so what is said of a text is where it takes the reader:
`Leads(r, t, q)`, which composes over concatenation (`LeadsConcat`,
`LeadsFlatten`). From a character, plain or in an entity, follow an escaped text
(`LeadsEscaped`), an attribute, the start of an element and, given its children,
an element (`LeadsElement`): reading it adds what can be seen of it (`Visible`:
children beside a content are not) to whatever element is open. Induction over
the depth of nesting gives that for every element (`LeadsSerialized`), and that
an element without such children is seen as it is (`UnmixedShown`). The inductive invariant (`StreamInv`) is that
the stream takes the reader from an empty document to the one with the elements
serialised so far. It needs that no name is a slash and that texts consist of
the characters (`SieXmlAssumption`); nothing is assumed of the characters.

`SamplesTicksReadBack`: for any descriptors, samples, digits and order of
handlers and packets. Rounding errs by half of the last digit at most
(`Rounding`), and the first digit is not zero, so an error of fewer than
`10^DIGITS` ticks' worth of it stays below half a tick (`ScientificTicks`), on
either side of the origin. The rest is about the metadata: the first `dim` of a
channel is its time dimension and the first `xform` in it has the scale of the
channel's own descriptor (`ScalarChannelScale`, `CanChannelScale`), and every
channel in the metadata is one that a declared handler wrote (`TicksInv`).

`SieSamplesProofs`: `SamplesAreReadBack`, for any descriptors whose variables
have distinct names, any packets and any order of handlers and packets. A
decoder is a program, and the reader of the model runs it over the payload of a
block. Each of its elements changes the state of the reader in a known way
(`StepRead`, `StepSeek`, `StepSample`), a list of them is a fold
(`Recursion!FoldedIs`) and a loop a recursive function of its turns (`LoopIs`).
A payload holds each value at the sum of the lengths before it (`FlattenAt`,
`ScalarDataHolds`, `CanDataHolds`), so that a turn of the loop finds the reader
in front of a value, takes one sample and leaves it in front of the next
(`ScalarTurn`, `CanTurn`); the loop of a CAN decoder seeks back and forth between
the times and the messages for that, which works for messages of 69 octets. So a
packet is read as what was sent (`ScalarPacketRead`,
`CanPacketRead`); of a CAN signal with smaller structs or times than that, only
packets without a sample are written. In structs of 69 octets without other
arrays than of octets the decoder's fields are where the message has them
(`PartFacts`).
The inductive invariant (`SamplesInv`) says that of all packets of a handler: the
blocks of its group, read by the decoder of that group, give the samples it was
sent, each with its time, in their order. It needs that no other decoder has the id of the group and that a channel
is written together with its decoder (`Described`), and that a block is of the
group of a handler constructed before it.

`RecorderSignalsProofs`, about the signals: `SignalsUseWriter`, every behaviour of the signals is
one the writer's specification allows, so that the theorems above hold for
them. `OwnGroups`, `MetadataFirst` and `DescriptorsMatch` are for signals whose
threads overlap and whose writes fail. A handler's group is one the counter has
passed, and no other handler's or constructor's (`GroupInv`); a call in progress
carries its signal's group (`CallInv`); a group is declared in the file once, and before any data can be
written to it (`MetadataInv`), and it was declared with the
signal's last descriptors (`DescriptorInv`).

`AdvancedRecorderProofs`: `TypeCorrect`, `LastPortIsFree`, `OneWriterForAll`,
`StoppedFilesClose`, `ClosedFilesStay`, `FilesAsPromised`, `OthersUndisturbed`,
`TrimmedAfterDisconnect`, `RecordingIsAsConfigured`, and `AppUsesRecorder` and
`ThreeSignalsRecorded` for the program. `LastPortFree` needs
that ports beyond the last are not connected (`NoStrayConnection`), that a user
whose disconnect callback runs has the lock (`LockInv`), and that while the last
port is removed the one before it is free or has a connect callback due
(`RemovalLeavesFree`). The theorems about files need that without recording
there is no writer, that signal objects use the current writer only, and that an
idle sender holds no object (`WriterInv`). `FilesAsPromised` is the refinement of
`RecorderFiles`: a file is open as long as the recorder, a signal object or a
sender holds its writer, so that a sender that lets go closes it or, if another
still holds it, does nothing. `RecordingMatchesState` is about the
specification with history: until callbacks overlap, an object whose port is not
connected to its signal any more belongs to the one user whose callback is due
(`SourcesMatch`), and every `reconfigure` that does not fail brings objects and
connections together (`ObjectsMatch`). `AppUsesRecorder` shows that the program
is a user of the recorder as `AdvancedRecorder` has them, so that all of this
holds for it. `ThreeSignalsRecorded` follows the program: where `main` is
determines the ports and connections (`MainInv`), nothing is recorded before
`startRecording` (`NothingYet`) and from then on the three signals are, each by
its own object (`ThreeRecorded`). These theorems have the values of the
program's constants (`RecorderAppConstants`, which `MCRecorderApp` assumes) as a
hypothesis.

`PlaybackModuleProofs`, about a channel: `IndexStaysInBuffer`, `SignalsFollowData` and
`ZeroIsExact`; and `CollectingSurvives` and `TimesAreOrdered` for files that, where
they give a `deltaT`, give one, no larger than the default, and where they give a
resolution, give one, no coarser (`RatesNeverDrop`), so that no order of them
lowers the rate (`RateGrows`).
The read position is within a buffer that is not empty (`PositionInv`); a packet
is generated from data and no count runs ahead of it (`JobInv`), and no count
comes near the width of the counter, since no rate exceeds `MaxRate`
(`CountInv`). For Zero, the first value of a packet that no Zero has interrupted
is a sample of the data plus the offset (`FirstInv`), and so the value Zero
subtracts is a sample (`LastValueInv`). If rates never drop, no count is ahead of
what the clock allows at the present rate (`RateInv`, `DueInv`), the ticks of
what is generated span no more than the time, but for the numerator (`InTime`),
and what was sent has been counted (`SentInv`).

`PlaybackDeviceProofs`: `ChannelsAsConfigured`, `OneTimeForAll`, `StopIsQuiet`.
Who is inside has the mutex (`LockInv`), so the vector is as configured outside
a write (`VectorInv`), and a channel collected in this round has its time
(`TimeInv`, `RoundInv`). `DownloadIsLog` and `OffMeansNothing` are about the log,
for chunks of any size: an undisturbed client's chunks are, byte for byte, the
beginning of the file, which is never smaller than a size it was announced or
measured with before (`DownloadInv`); a call that has got past the switch began
while logging was on (`SwitchInv`).

`PlaybackModuleProofs`, about the table: `OneNumberOneDevice` and `RefusalsAreJust`. Who
searches the table has the module's lock (`LockInv`); a device that exists is in
the table under its number (`TableInv`); after the clearing, the slot a thread
is about to fill is free (`SlotIsFree`), and one it refuses was taken when it
looked (`TakenInv`).

`CameraDeviceProofs`: `NoThreadSurvivesStop`, from an invariant about how far
`stop` has joined (`JoinInv`), for any cameras. `SharedCounterTimes`, for any
cameras: one thread runs for each (`OneThread`), and while no update is lost the
counter has passed the end of every packet whose thread is done with it, and
what a thread is about to store reaches the end of what it has sent
(`StampInv`). `OneCameraLosesNothing`: what the only thread has loaded is still
the counter's value.
`SamplesContiguous`, for any drivers, receivers and sample counts: while a packet
is on its way to the receivers, those it has reached are a packet ahead of the
device's count, and the last packet of the others ends at it, but for a failed
call (`ContiguousInv`).

`RecorderApp` states what it takes of its constants as a definition
(`RecorderAppConstants`), a hypothesis of its theorems, which the instance of
the run assumes; `VectorIoAssumption`, `SieSamplesAssumption`, `MtigAssumption`
`SieXmlAssumption` and `SizesAssumption` are assumed by the modules themselves or by the instances
that hold them, and say that a call is a block that ends with its footer, that
counts and times are numbers, that a tick is no longer than a second and no
shorter than a nanosecond (a bound of the model, which looks for the exponent of
a scale among ten), that the variables of a decoder (`VariableNames`, the `v0`,
`v1`, ... of the code) are distinct and enough for the fields of every
descriptor, that no XML name is a slash, and that a chunk's size is a
number or -1.

Every invariant and every action property of a passing run is stated by a
theorem, but for what is next. Only checked by TLC: the liveness properties,
which are out of the prover's reach.

## 5. Not modelled

- The module factories and entry points: they keep no state.
- Device info, device types, names from options, descriptors of cameras:
  constant data.
- Descriptor and enumeration printing, dispatch by type (`utilities/`): pure
  formatting, used by the logs and the demonstration only.
- `static_fatigue_module`: method bodies are empty.
- The grammar of CSV files, the CRC and byte order of SIE blocks, the contents
  of MTIG710 samples.
- `build/`, `dependencies/`, `cmake/`: generated or third-party.

## 6. Plan

The modules were built in the order writer stack, signals, recorder, file I/O,
playback, camera, then what files hold (XML, samples), the log, MTIG710 and the
program; proofs followed in the same order. What is left, most important first:

1. A composition of `AdvancedRecorder` and `RecorderSignals` over several
   writers, so that data written after stop is seen in the file itself:
   `RecorderFiles` is its interface.
2. `PlaybackDevice` over `PlaybackChannel`: what an exception in one channel's
   `collectSamples` does to the others.
