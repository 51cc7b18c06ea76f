-------------------------- MODULE PlaybackChannel --------------------------
(***************************************************************************)
(* A playback channel: it replays an array, or the samples of a CSV file,  *)
(* at the rate its metadata gives.  The device's acquisition thread calls  *)
(* collectSamples; property writes come from user threads under the        *)
(* channel's lock; the Zero function is called without the lock.           *)
(*                                                                         *)
(* The clock counts Clock units in a second (microseconds in the code),    *)
(* from the channel's start.  Packets are stamped in ticks of the           *)
(* resolution, num/den of a second each.  A CSV file is abstracted to its   *)
(* samples and to the deltaT and the resolution in its metadata; metadata   *)
(* it does not hold are those of the file before.  Rates are exact here;    *)
(* the code multiplies in double precision.                                 *)
(***************************************************************************)
EXTENDS Integers, Sequences

CONSTANTS
    Clock,              \* clock units per second
    EpochToStart,       \* clock units from the epoch to the channel's start
    DefaultDeltaT,      \* deltaT before any file is read
    DefaultArray,       \* default of the ValueArray property
    Arrays,             \* arrays a user may write
    CsvFiles,           \* the readable files: [data, deltaT, resolution]
    BadCsvMayThrow,     \* TRUE iff a number in a file may fail to parse
    Targets,            \* targets a user may zero to
    Word,               \* 2^64: unsigned subtraction wraps at it
    MaxRate,            \* bound on the ticks per second, times num^2
    MaxTime             \* bound on the time

AllData == Arrays \cup {DefaultArray} \cup {f.data : f \in CsvFiles}
Samples == UNION {{s[i] : i \in DOMAIN s} : s \in AllData}

Ratio(num, den) == [num |-> num, den |-> den]
DefaultResolution == Ratio(1, Clock)

(* Metadata a file does not hold.                                           *)
NoDeltaT == 0
NoResolution == Ratio(0, 0)

Resolutions == {DefaultResolution} \cup ({f.resolution : f \in CsvFiles} \ {NoResolution})

ASSUME PlaybackChannelAssumption ==
    /\ Clock \in Nat \ {0} /\ EpochToStart \in Nat
    /\ DefaultDeltaT \in Nat \ {0}
    /\ DefaultArray \in Seq(Int) \ {<<>>} /\ Arrays \subseteq Seq(Int) /\ Targets \subseteq Int
    /\ \A f \in CsvFiles : f.data \in Seq(Int) /\ f.deltaT \in Nat
    /\ \A r \in Resolutions :
          /\ r \in [num : Nat \ {0}, den : Nat \ {0}]
          /\ r.den * r.num <= MaxRate
    /\ MaxTime \in Nat /\ MaxRate \in Nat /\ Word \in Nat /\ MaxTime * MaxRate < Word \div 2

VARIABLES
    now,                \* clock units since the channel's start
    dataSource,         \* the DataSource property
    valueArrayBuffer, fileDataBuffer, dataBuffer,
    dataBufferIndex,    \* counts from 0, as in the code
    deltaT, resolution, sampleRate,
    descriptor,         \* of the time signal: its rule and its resolution
    active,             \* the value signal is active
    samplesGenerated, lastValue, zeroOffset,
    job,                \* the packet the acquisition thread works on
    sent,               \* the time range of the last packet sent, and the
                        \* spacing and resolution it was timed with
    zeroed,             \* history: target and result of the last Zero
    raced,              \* history: lastValue is of a packet Zero interrupted
    unapplied,          \* history: a file that failed to parse left its metadata
    crashed             \* the acquisition thread died of an exception

buffers == <<dataSource, valueArrayBuffer, fileDataBuffer>>
playing == <<dataBuffer, dataBufferIndex, deltaT, resolution, sampleRate, descriptor, active>>
history == <<zeroed, raced, unapplied>>
vars == <<now, buffers, playing, samplesGenerated, lastValue, zeroOffset, job, sent, history,
          crashed>>

NoJob == [step |-> "none", todo |-> 0, until |-> 0, first |-> 0, zeroed |-> FALSE]
Unlocked == job.step = "none" /\ ~crashed

(* Without signals there is no descriptor.                                  *)
Descriptor(dt, res) == [deltaT |-> dt, resolution |-> res]
NoDescriptor == Descriptor(0, DefaultResolution)
HasSignals == descriptor # NoDescriptor

-----------------------------------------------------------------------------
(* dataSourceChanged, for new buffers: replaces the data and the signals.   *)
RateFor(dt, res) == (res.den \div dt) * res.num

(* Mutants of DataSourceChanged: the position in the old data stays, or the  *)
(* signals stay as they are.                                                *)
DataSourceChangedKeepingIndex(source, array, fileData, dt, res) ==
    LET data == IF source = "Array" THEN array ELSE fileData IN
    /\ dataBuffer' = data
    /\ sampleRate' = RateFor(dt, res)
    /\ descriptor' = IF data = <<>> THEN NoDescriptor ELSE Descriptor(dt, res)
    /\ unapplied' = FALSE
    /\ UNCHANGED <<dataBufferIndex, active>>

DataSourceChangedKeepingSignals(source, array, fileData, dt, res) ==
    LET data == IF source = "Array" THEN array ELSE fileData IN
    /\ dataBuffer' = data
    /\ dataBufferIndex' = 0
    /\ sampleRate' = RateFor(dt, res)
    /\ unapplied' = FALSE
    /\ UNCHANGED <<descriptor, active>>

DataSourceChanged(source, array, fileData, dt, res) ==
    LET data == IF source = "Array" THEN array ELSE fileData IN
    /\ dataBuffer' = data
    /\ IF data = <<>>
       THEN /\ descriptor' = NoDescriptor
            /\ UNCHANGED <<dataBufferIndex, sampleRate, active, unapplied>>
       ELSE /\ dataBufferIndex' = 0
            /\ sampleRate' = RateFor(dt, res)
            /\ descriptor' = Descriptor(dt, res)
            /\ active' = TRUE
            /\ unapplied' = FALSE

Init ==
    /\ now = 0
    /\ dataSource = "Array"
    /\ valueArrayBuffer = DefaultArray /\ fileDataBuffer = <<>>
    /\ dataBuffer = DefaultArray /\ dataBufferIndex = 0
    /\ deltaT = DefaultDeltaT /\ resolution = DefaultResolution
    /\ sampleRate = RateFor(DefaultDeltaT, DefaultResolution)
    /\ descriptor = Descriptor(DefaultDeltaT, DefaultResolution)
    /\ active = TRUE
    /\ samplesGenerated = 0 /\ lastValue = 0 /\ zeroOffset = 0
    /\ job = NoJob
    /\ sent = [start |-> EpochToStart, end |-> EpochToStart, deltaT |-> DefaultDeltaT,
               resolution |-> DefaultResolution, applied |-> TRUE]
    /\ zeroed = [target |-> 0, offset |-> 0, clean |-> FALSE]
    /\ raced = FALSE /\ unapplied = FALSE
    /\ crashed = FALSE

untouched == <<now, samplesGenerated, lastValue, zeroOffset, job, sent, zeroed, raced, crashed>>

SetDataSource(source) ==
    /\ Unlocked
    /\ dataSource' = source
    /\ DataSourceChanged(source, valueArrayBuffer, fileDataBuffer, deltaT, resolution)
    /\ UNCHANGED <<valueArrayBuffer, fileDataBuffer, deltaT, resolution, untouched>>

SetValueArray(array) ==
    /\ Unlocked
    /\ valueArrayBuffer' = array
    /\ DataSourceChanged(dataSource, array, fileDataBuffer, deltaT, resolution)
    /\ UNCHANGED <<dataSource, fileDataBuffer, deltaT, resolution, untouched>>

(* The metadata after the metadata line of a file.                          *)
DeltaTOf(csv) == IF csv.deltaT = NoDeltaT THEN deltaT ELSE csv.deltaT
ResolutionOf(csv) == IF csv.resolution = NoResolution THEN resolution ELSE csv.resolution

(* filePathChanged with a .csv file that can be read to its end.            *)
SetFilePath(csv) ==
    /\ Unlocked
    /\ fileDataBuffer' = csv.data
    /\ deltaT' = DeltaTOf(csv) /\ resolution' = ResolutionOf(csv)
    /\ DataSourceChanged(dataSource, valueArrayBuffer, csv.data, DeltaTOf(csv), ResolutionOf(csv))
    /\ UNCHANGED <<dataSource, valueArrayBuffer, untouched>>

(* The file cannot be opened, or is no .csv file: the old data stays.       *)
SetBadFilePath ==
    /\ Unlocked
    /\ DataSourceChanged(dataSource, valueArrayBuffer, fileDataBuffer, deltaT, resolution)
    /\ UNCHANGED <<buffers, deltaT, resolution, untouched>>

(* A number fails to parse: the exception leaves filePathChanged with part  *)
(* of the file read, and dataSourceChanged is not called.                   *)
FilePathThrows(csv) ==
    /\ BadCsvMayThrow
    /\ Unlocked
    /\ \E n \in 0..Len(csv.data) : fileDataBuffer' = SubSeq(csv.data, 1, n)
    /\ deltaT' \in {deltaT, DeltaTOf(csv)} /\ resolution' \in {resolution, ResolutionOf(csv)}
    /\ fileDataBuffer' # <<>> => deltaT' = DeltaTOf(csv) /\ resolution' = ResolutionOf(csv)
    /\ unapplied' = (unapplied \/ deltaT' # deltaT \/ resolution' # resolution)
    /\ UNCHANGED <<dataSource, valueArrayBuffer, dataBuffer, dataBufferIndex, sampleRate,
                   descriptor, active, untouched>>

SetActive(b) ==
    /\ Unlocked /\ HasSignals
    /\ active' = b
    /\ UNCHANGED <<buffers, dataBuffer, dataBufferIndex, deltaT, resolution, sampleRate, descriptor,
                   unapplied, untouched>>

(* The Zero function takes no lock: it may come while samples are generated. *)
Zero(target) ==
    /\ ~crashed
    /\ zeroOffset' = target - lastValue
    /\ zeroed' = [target |-> target, offset |-> zeroOffset', clean |-> ~raced]
    /\ job' = IF job = NoJob THEN NoJob ELSE [job EXCEPT !.zeroed = TRUE]
    /\ UNCHANGED <<now, buffers, playing, samplesGenerated, lastValue, sent, raced, unapplied,
                   crashed>>

Tick ==
    /\ now < MaxTime /\ ~crashed
    /\ now' = now + 1
    /\ UNCHANGED <<buffers, playing, samplesGenerated, lastValue, zeroOffset, job, sent, history, crashed>>

-----------------------------------------------------------------------------
(* collectSamples                                                           *)

SamplesSinceStart == (now * sampleRate) \div Clock
NewSamples == (SamplesSinceStart - samplesGenerated) % Word

(* No packet of this many samples can be allocated.                         *)
TooMany(n) == n >= Word \div 2

(* Mutants of SkipSamples: the count is added up, or stays.                 *)
SkipAddingUp ==
    /\ Unlocked
    /\ NewSamples > 0 /\ ~(HasSignals /\ active)
    /\ samplesGenerated' = samplesGenerated + SamplesSinceStart
    /\ UNCHANGED <<now, buffers, playing, lastValue, zeroOffset, job, sent, history, crashed>>

SkipNothing ==
    /\ Unlocked
    /\ NewSamples > 0 /\ ~(HasSignals /\ active)
    /\ UNCHANGED vars

(* No signal, or nobody listens: the samples are skipped.                   *)
SkipSamples ==
    /\ Unlocked
    /\ NewSamples > 0 /\ ~(HasSignals /\ active)
    /\ samplesGenerated' = SamplesSinceStart
    /\ UNCHANGED <<now, buffers, playing, lastValue, zeroOffset, job, sent, history, crashed>>

StartPacket ==
    /\ Unlocked
    /\ NewSamples > 0 /\ HasSignals /\ active
    /\ IF TooMany(NewSamples)
       THEN crashed' = TRUE /\ UNCHANGED job
       ELSE /\ job' = [step |-> "generate", todo |-> NewSamples,
                       until |-> SamplesSinceStart, first |-> 0, zeroed |-> FALSE]
            /\ UNCHANGED crashed
    /\ UNCHANGED <<now, buffers, playing, samplesGenerated, lastValue, zeroOffset, sent, history>>

(* buffer[sampleIndex] = dataBuffer[dataBufferIndex] + zeroOffset; the first *)
(* sample of the packet is needed again below.                              *)
GenerateSample ==
    /\ job.step = "generate" /\ job.todo > 0
    /\ job' = [job EXCEPT !.todo = @ - 1,
                          !.first = IF job.until - samplesGenerated = job.todo
                                    THEN dataBuffer[dataBufferIndex + 1] + zeroOffset ELSE @]
    /\ dataBufferIndex' = (dataBufferIndex + 1) % Len(dataBuffer)
    /\ UNCHANGED <<now, buffers, dataBuffer, deltaT, resolution, sampleRate, descriptor, active,
                   samplesGenerated, lastValue, zeroOffset, sent, history, crashed>>

(* Mutant of FirstValue: the offset stays in.                               *)
FirstValueShifted == job.first

FirstValue == job.first - zeroOffset

(* Mutant of CountSamples: the samples sent are not counted.                *)
CountNothing == UNCHANGED samplesGenerated

CountSamples == samplesGenerated' = job.until

(* The clock's time of the start, in clock units, is added to a count of    *)
(* ticks as it is.                                                          *)
PacketTime == samplesGenerated * deltaT + EpochToStart

(* lastValue = buffer[0] - zeroOffset, then the packets are sent.           *)
SendPacket ==
    /\ job.step = "generate" /\ job.todo = 0
    /\ lastValue' = FirstValue
    /\ sent' = [start |-> PacketTime,
                end |-> PacketTime + (job.until - samplesGenerated) * descriptor.deltaT,
                deltaT |-> deltaT, resolution |-> descriptor.resolution, applied |-> ~unapplied]
    /\ raced' = job.zeroed
    /\ CountSamples
    /\ job' = NoJob
    /\ UNCHANGED <<now, buffers, playing, zeroOffset, zeroed, unapplied, crashed>>

UserStep ==
    \/ \E source \in {"Array", "File"} : SetDataSource(source)
    \/ \E array \in Arrays : SetValueArray(array)
    \/ \E csv \in CsvFiles : SetFilePath(csv) \/ FilePathThrows(csv)
    \/ SetBadFilePath
    \/ \E b \in BOOLEAN : SetActive(b)
    \/ \E target \in Targets : Zero(target)

Collect == SkipSamples \/ StartPacket \/ GenerateSample \/ SendPacket

Next == UserStep \/ Tick \/ Collect

Spec == Init /\ [][Next]_vars

(* The acquisition thread keeps running.                                    *)
FairSpec == Spec /\ WF_vars(Collect)

-----------------------------------------------------------------------------
(* Properties                                                              *)

TypeOK ==
    /\ now \in 0..MaxTime
    /\ dataSource \in {"Array", "File"}
    /\ {valueArrayBuffer, fileDataBuffer, dataBuffer} \subseteq Seq(Samples)
    /\ dataBufferIndex \in Nat
    /\ deltaT \in Nat \ {0} /\ sampleRate \in Nat /\ resolution \in Resolutions
    /\ descriptor \in [deltaT : Nat, resolution : Resolutions]
    /\ active \in BOOLEAN /\ crashed \in BOOLEAN
    /\ samplesGenerated \in 0..(Word - 1)
    /\ lastValue \in Int /\ zeroOffset \in Int
    /\ job \in [step : {"none", "generate"}, todo : Nat, until : Nat, first : Int, zeroed : BOOLEAN]
    /\ sent \in [start : Nat, end : Nat, deltaT : Nat, resolution : Resolutions, applied : BOOLEAN]
    /\ zeroed \in [target : Int, offset : Int, clean : BOOLEAN]
    /\ raced \in BOOLEAN /\ unapplied \in BOOLEAN

(* generateSamples reads dataBuffer[dataBufferIndex] unchecked: the index    *)
(* is always within the buffer, whatever was loaded in between (and every    *)
(* variable keeps its type).                                                *)
IndexInBuffer ==
    /\ TypeOK
    /\ dataBuffer # <<>> => dataBufferIndex < Len(dataBuffer)

(* Tests ErrorPath and ChangePathAfterSucessfullCreation: a channel has     *)
(* signals exactly when it has data, whatever happened to files before; and *)
(* their descriptor gives the spacing and the resolution the packets are    *)
(* timed with, unless a file that failed to parse has left metadata nobody  *)
(* applied.                                                                 *)
SignalsDescribeData ==
    /\ HasSignals <=> dataBuffer # <<>>
    /\ HasSignals /\ ~unapplied => descriptor = Descriptor(deltaT, resolution)

(* While the spacing and the resolution stay, a packet starts where the     *)
(* previous one ended, or later: sample times never go back and never       *)
(* overlap.  And, for a resolution with numerator 1, all ticks counted from *)
(* the start lie within the time that has passed since: no samples from the *)
(* future.  This is said of ticks since the start, not of the stamp: the    *)
(* start is added in clock units, so the stamp itself is right only when    *)
(* the ticks are the clock's (den = Clock, as for a file without a          *)
(* resolution); for any other resolution it is off by as much as the units  *)
(* differ over the time since the epoch.                                    *)
TimesNeverOverlap ==
    [][sent' # sent /\ sent'.applied =>
           /\ sent'.deltaT = sent.deltaT /\ sent'.resolution = sent.resolution /\ sent.applied =>
                 sent'.start >= sent.end
           /\ sent'.resolution.num = 1 =>
                 (sent'.end - EpochToStart) * Clock <= now * sent'.resolution.den]_vars

(* Test SucessPath, after a switch of source: "Wait some time, so that      *)
(* switch gets active and new values apply".  Collecting samples never      *)
(* kills the acquisition thread.                                            *)
CollectSurvives == ~crashed

(* Test SucessPath: with the constant array 2.0 a zero to target t gives    *)
(* the offset t - 2.0, again and again.  In general the offset is t minus   *)
(* a sample of the data, unless an earlier Zero came while the last packet  *)
(* was generated.                                                           *)
ZeroHitsTarget ==
    zeroed.clean => zeroed.target - zeroed.offset \in Samples \cup {0}

(* Samples that are due are eventually sent or skipped.                     *)
SamplesKeepUp == (samplesGenerated < SamplesSinceStart) ~> (samplesGenerated = SamplesSinceStart)
=============================================================================
