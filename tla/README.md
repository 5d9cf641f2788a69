# A verification of the Acbotics interface library

`acbotics_interface` receives the UDP streams of Acbotics instruments (acoustic
samples, beamformer output, inertial, pressure, temperature and clock data), hands
them from thread to thread through queues, computes FFTs and detections, logs to
files, and serves the newest data to an application or to Python. This directory holds
TLA+ models of that library, TLC configurations that check them on small
instances, and proofs checked by TLAPS. Source paths below are relative to the
repository; the library itself is in its `src/` directory.

To check a run: `tlc -config <run>.cfg <module>.tla`; to check the proofs:
`tlapm <module>Proofs.tla`.

## Inventory

| component | source | state | operations |
|---|---|---|---|
| `tsQueue<T>` | `utils/thread_safe_queue.h` | `m_queue`, `m_length`, waiting threads | push, push_all, pop (plain, timed), pop_N, pop_all (plain, timed), pop_limit, front, back, clear, set_queue_length |
| `QueueClient` | `utils/QueueClient.h` | one queue per data type, `keep_alive`, `_is_running`, thread | run, stop |
| `UdpSocketIn` | `utils/UdpSocketIn.cpp` | socket, lists of client queues, frame being assembled | socket thread (connect with retries, receive, dispatch), register_client, stop |
| UDP protocol classes | `udp_protocols/*` | a decoded header and its data | constructors and decode, encode, print; `UdpBeamformRaw` also reassembles frames |
| `FreqDomainBase` | `utils/FreqDomainBase.cpp` | NFFT, noverlap, nstep, nfreq, frequency bands and weights | setters, recompute_frequencies |
| `FFT` | `utils/FFT.cpp` | sample buffer, timestamps, frame number | FFT thread, run, register_client, channel filter |
| `EnergyDetector` | `utils/EnergyDetector.cpp` | weights, latest sample rate | detector thread, register_client |
| `InterfaceHelper` | `utils/InterfaceHelper.{h,cpp}` | which threads and loggers are enabled, running, active; sockets; latest data | enable_*, run_threads, stop_threads, start_logging, stop_logging, set_curr_ch, get_latest_data |
| its buffer threads | `utils/InterfaceHelper_buffering.cpp` | history buffers, request and reply queues, `buffer_has_data_*` | acoustic fork and buffer, FFT buffer, beamformer buffer, detections, BNO state |
| its acoustic loggers | `utils/InterfaceHelper_logging_aco.cpp` | open file, rollover time, header | CSV, FLAC and WAV logger threads |
| its sensor loggers | `utils/InterfaceHelper.h` | open file, rollover time, `latest_data` | one CSV logger thread per sensor |
| `FilenameTime` | `utils/log_filename_time.cpp`, `utils/InterfaceHelper.cpp` | file name, rollover time | reset |
| `LoggerBlock`, `Logger_Acoustic_*` | `utils/LoggerBlock.cpp`, `utils/Logger_Acoustic.cpp` | running, file_initialized, open file | Start, Stop, Log_ACO_Data, logger thread |
| `Logger_Sensor_Block` | `utils/Logger_Sensor.cpp` | logging_active, open files | six logger threads |
| GPS loggers | `utils/Logger_GPS_Host.cpp`, `utils/InterfaceHelper_logging_gps.cpp` | connection to gpsd, open file | logger threads |
| Python bindings, applications | `python/*`, `apps/*` | none of their own | call the above |

How they interact. A socket thread is the only producer: it decodes a datagram and
pushes it to the queue of every registered client. The acoustic helper thread forks the
acoustic stream to the FFT thread, the loggers and its own history buffer; the FFT
thread feeds the FFT buffer and the detector, which feeds the detections
buffer. An application asks for buffered data by pushing to a request queue and
popping the reply queue, and reads the newest sensor data from `latest_data`. Threads
share nothing but queues and plain (unsynchronised) flags: `keep_alive`,
`logger_active`, `logger_running`, `buffer_has_data_*`, `_is_running`.

What is hard. Every hand-over is a condition variable with `notify_one`, several
of whose waits have no timeout, so a lost wakeup or a flag cleared while a
thread waits blocks it for good; queues drop their oldest items when full;
beamformer frames come in pieces over a network that loses, repeats and reorders
them, and datagrams may be shorter than their kind; windows of samples have to be cut across packets and batches; loggers
must neither lose nor repeat a record while files roll over and
logging is switched on and off; parameters are changed under running threads.
The unit tests of the repository only decode sample datagrams and cover none of this.

For each component, what makes it correct, and where that is stated:

| component | what must hold | stated in |
|---|---|---|
| `tsQueue` | holds the newest items in order; bounded; loses data only when full; items handed out in order and once; nobody sleeps beside data | `TsQueue`, `LossyFifo` |
| beamformer frames | data handed out is one whole frame; a frame whose parts all came is handed out; nothing undefined happens but in two known cases | `BeamReassembly` |
| `FFT` | frames are the consecutive windows of the stream, stamped accordingly; every window becomes a frame | `FftFraming` |
| `FilenameTime` | a rollover lies after the time it is computed at, by one window at most; no two files of a logger share a name, but where daylight saving ends | `FilenameTime` |
| acoustic loggers | nothing written twice or out of order, no gaps in a file but for what a full queue dropped, nothing lost in a rollover | `AcousticLogger` |
| history buffers | data handed out once, in order, nothing left out but what was trimmed; bounded; requests answered | `HistoryBuffer` |
| sensor loggers, latest data | an application does not take records from a logger that has data to show; threads end | `SensorQueue` |
| `QueueClient`, `UdpSocketIn`, lifecycle | once stopped no thread handles data; stop returns but for named waits | `Lifecycle` |
| `FreqDomainBase`, `EnergyDetector` | one detection, in order, per frame that the full queue did not drop; averages and frame are of the same bins, all of which exist; a change of the bands reaches the detector | `FreqDomainBase`, `EnergyDetector` |
| `LoggerBlock`, `Logger_Acoustic`, `Logger_Sensor_Block`, GPS loggers | rows in order and once, no gaps in a file but for what a full queue dropped, rows stay in their file, besides that a batch lost per stop at most; the thread ends | `LoggerBlocks` |
| UDP protocol classes, dispatch of `UdpSocketIn` | a client gets every object of its kinds once and in order from the time it registers; samples agree with the header; a beam read and written again is the same datagram | `Datagrams`, `BeamCodec` |

## How the modules are written

Items, packets, samples and records are numbered in the order they are pushed, and
the number stands for the content: whether something was lost, repeated,
reordered or mixed up is then a statement about numbers. A variable keeps the
name it has in the code; those marked `history` in a declaration exist only to
state properties. One step of a module is the code between two points where
another thread can be noticed: a lock released, a flag or a queue looked at, a
file opened. Thread-local work between two such points is one step with them.

Definitions ending in a comment "mutant" are wrong variants of the definition below
them. They are used by no specification; they show for every property that it
distinguishes the code from a plausible mistake.

### LossyFifo and TsQueue (`thread_safe_queue.h`)

`TsQueue` has an action per method: `push`, `push_all`, `clear`,
`set_queue_length`, and for the eight blocking methods `Invoke` (lock, test the
predicate, finish or sleep) and `Resume` (the look after a wakeup). `Notify` wakes one
sleeper or none; `Timeout` is the end of a `wait_for`, `SpuriousWakeup` what a
condition variable may do. `Ready` and `Takes` say what a method waits for and
removes. `LossyFifo` is the promise: items are put, the oldest may be evicted, the
oldest are delivered without a gap, everything may be discarded. `TsQueue`
implements it with `put <- pushed`, `gone <- pushed - Len(queue)`. The threads that take from
a queue (`FftFraming`, `AcousticLogger`, `HistoryBuffer`, `SensorQueue`,
`EnergyDetector`, `LoggerBlocks`) have it by that promise, with the limit that every
`tsQueue` is created with as the constant `QueueLength`: `Append`, and when that makes it too long
`Tail`. Where a property speaks of what is missing, `dropped` remembers what was lost that way.
`BeamReassembly` and `Datagrams`, which only fill queues, keep everything that was ever pushed, and
`Lifecycle` only whether a queue holds something. `MCTsQueue`
has both ways the library's threads use a queue: one consumer that calls any
method, fed by batches, or several that remove items, fed one item at a time.

### BeamReassembly (`UdpBeamformRaw`, cases ACBR and ACBC of the socket thread)

The device sends the parts of each frame in order (`Send`); the network keeps
between `MinCopies` and `MaxCopies` of each datagram, and one of the
`Overtake + 1` oldest arrives next. `RecvPrimary` is the constructor and the
push that follows it; `Store`, `Ignore` and `Undefined` are the outcomes of a
continuation; with no copy of a datagram it is lost. A null `beam_raw_0`, or a store into a vector that was cleared,
leads to status "undefined", where the behaviour ends.

### FftFraming (`FFT::run_fft_thread`)

`pc` follows the thread: first packet, take up to ten packets, copy them one by
one, look for windows, emit them, drop what was used. `data_buffer` holds sample
numbers, `data_timestamps` their timestamps. `IntMax` stands for 2^31 - 1. The
parameters are constants: changes under the running thread are not in this
module. The FFT itself is left out; a frame keeps the samples it was computed of.

### FilenameTime, AcousticLogger (`log_filename_time.cpp`, `InterfaceHelper_logging_aco.cpp`)

`FilenameTime` is the calendar arithmetic with the lengths of a minute and an
hour as constants. `mktime(&tm_now)` reads a time in UTC as a local one. For standard time the
offset of that cancels; in daylight saving `mktime` also moves `tm_now` by the shift,
and the name is formatted from the result (`tm_now`, `fname_str`). `Daylight` is the set of
times at which that happens, any set, and `DaylightShift` the shift. `rollover_time` is not affected, since
the time it is computed from is moved back. `AcousticLogger` extends it: the acoustic helper thread that
looks at the flag and later pushes (`SeeActive`, `PushPacket`), the application
(`start_logging`, `stop_logging`, `stop_threads`), the clock, and the logger
thread. `format` chooses between the threads: only the CSV thread asks whether its file is
open. `openable` chooses whether files always open. A file is named by the
second it was opened in, as `fname_str` spells it, and opening one of the same name empties it; so does
a later second with the same name (`CameAgain`). `disk` is indexed by names, `log` by the seconds.

### HistoryBuffer (`InterfaceHelper_buffering.cpp`, `python/_utils.cpp`)

`kind` chooses between the four threads: FFT and beamformer start over with a
packet they wait for, the others with an empty buffer; detections are not
trimmed and their reader does not look at a flag. `Held` is what was pushed and not
yet handed out; with it the module is an instance of `LossyFifo` (`ImplementsFifo`), as long as the queue
does not overflow. `Trimmed` returns the possible
results of a trim: for the FFT buffer also one read from freed memory
(`Garbage`), since that trim assigns a block of a matrix to the matrix. A client looks at
`buffer_has_data_*`, asks, and waits; one that reads acoustic data first looks at the queue and, if
it holds something, waits for its newest packet (`SeeQueue`, `GetBack`).

### SensorQueue (`InterfaceHelper.h`, `_run_thread_bno_state_buffer`)

A sensor's queue and its three takers: the logger, the application in
`get_latest_data`, and for BNO and BNR the thread that keeps their state. `sensor` "pts"
stands for a sensor without such a thread; it is the one whose `logger_running`
is reset in the end. The threads' pauses are left out, and so are their files, for
which the loop is the one of `AcousticLogger`.

### Lifecycle (`InterfaceHelper.cpp`, `QueueClient.h`, `UdpSocketIn.cpp`)

Composes the pipeline's threads as `run_threads` creates and `stop_threads` joins them.
`app` and `at` are where the application is in the two calls and in `Order`, the
list `threads` (with the FFT thread where it is started; it is joined
separately). Of a queue `data` says whether it holds something. `pc` keeps of a
thread what stopping it depends on: "first" is a loop that waits for a first
item and looks at `keep_alive` between tries, "loop" the test of `keep_alive`, "wait" a pop
without a timeout, "undefined" the use of a packet that never came
(`InterfaceHelper_buffering.cpp:46` and 222). `Turn`, `HelperTurn` and `WaitEnds` are
what the other modules treat in detail. Configurations are the sets of
enabled threads. `Detect` stands for the detector, whose thread only its destructor stops.

### FreqDomainBase, EnergyDetector (`FreqDomainBase.cpp`, `EnergyDetector.cpp`)

`FreqDomainBase` holds the frequencies, what a band is and which bins a set of bands
makes active. `EnergyDetector` has the thread (`WaitRate`, `First`, `Loop`, `StartUpdate`,
`Restart`, `ResetUpdate`, `Get`, `NextFrame`, `Detect`) and, beside it, the calls
that change parameters: each changes its own and then runs
`recompute_frequencies`, which clears the vector of active bins, fills it one by one and sets
`_rx_runtime_update` (`ClearActive`, `PushActive`, `FlagUpdate`). `set_NFFT` is
that of `InterfaceHelper`: first the FFT's, then the detector's. Of the averages the
module keeps which bins they were started from; a detection is "sound" when
averages and frame are of the same bins, "stale" when they are not, "none"
without active bins, and "undefined" when a bin is not in the frame, a maximum is
taken of nothing, or the averages were never started. `overlap`, `lost` and
`resized` record which of the races the code leaves open has happened.

### LoggerBlocks (`LoggerBlock.cpp`, `Logger_Acoustic.cpp`, `Logger_Sensor.cpp`, `Logger_GPS_Host.cpp`, `InterfaceHelper_logging_gps.cpp`)

`kind` chooses between four threads. `LoggerBlock` pops a batch and hands
each packet to `Log_ACO_Data` (`LogPacket`, then `SkipPacket` or `RollFile` and
`WritePacket`), while the application is in `Start`, which sets its two flags one
after the other (`start_logging`, `StartReset`); the constructor leaves the flags as they are
in memory, so both start with either value. The other three share `Top`, `Open` and
`Test`: a sensor thread pops with a timeout and looks at the flag again before it
writes its batch record by record (`PopRecords`, `LookAgain`, `WriteRecord`); the two GPS threads connect to gpsd,
which may refuse, and read a fix that is new, the one before again, or nothing
(`Connect`, `ReadFix`, `ReadNothing`). gpsd and its library are
modelled from what the threads do with the results.

### BeamCodec, Datagrams (`udp_protocols/*`, `UdpSocketIn.cpp`)

`BeamCodec` reads and writes a beam: header words swapped where the sender has the other byte
order, vectors one after the other, the beam pattern transposed or not. A word is an integer and its
swapped form the negative, so that swapping twice, or not, can be told.
`Datagrams` is the loop from `recv` to the clients' queues: `check_msg_id`, one
operator per protocol class with the class's name, the real sizes in bytes, and
what an object holds when the datagram is too short. A raw beam in several datagrams is left
undecoded by its constructor (`NoBeam`). `Receive` makes the object;
`PushObject` and `EndLoop` walk the lists of queues, whose bounds the loop reads
once, while `register_client` adds a client's queues list by list without a
lock. An addition to the list being walked may move it; that is status
"undefined", where the behaviour ends. The cases of `check_msg_id` and of the
loop on the main thread, which takes any datagram for an acoustic one, are in
the same module. The specifications of `Datagrams` and `BeamReassembly` are named
`SocketSpec` and `BeamSpec`, and their parts likewise, so that `UdpSocketInProofs` can extend
both: one thread of the code runs them, and a client's queue of `SensorQueue` is filled by it.

## Runs

| run | question | bounds | distinct states |
|---|---|---|---|
| `TsQueue` | is the queue a bounded lossy FIFO that serves every call it can, and is a wakeup lost? | one consumer with all methods, batches to 2, 4 items; or three that remove items, 3 items; limits 0 (none), 1, 2 | 71 358 |
| `BeamFaults` | loss, repetition, any reordering: is data intact, and where does the code leave defined behaviour? | frames of 3 and 2 parts, up to 2 copies each | 7 314 |
| `BeamIncomplete` | are only complete frames pushed? (violated) | frames of 3, 1, 2 parts | |
| `FftOverlap` | are frames the windows of the stream, and does every window become one? | windows of 4, overlap 1, packets of 2 and 5, queue of 3, 16 samples, numbers 0..2 | 111 676 |
| `AcoLogFiles` | are logs ordered and whole over rollovers, stops and failed opens? | 4 packets, queue of 2, 7 seconds, minutes of 2, hours of 3 minutes, windows of 2 minutes, daylight saving that ends with the first minute, 1 stop | 890 188 |
| `HistAll` | are buffered data handed out once and in order, all of them but what was trimmed, as a FIFO would, and requests answered? | history 2, queue of 3, 7 packets, 3 replies | 68 226 |
| `HistFftTrim` | does an FFT reply hold only what was pushed? (violated) | history 1, 4 packets | |
| `SensorAll` | when does the application take records from the logger, and do threads and calls end? | 4 records, queue of 2; plain, BNO and BNR sensor | 30 766 |
| `LifecycleStop` | what still runs after `stop_threads`, and does it return? | four sets of enabled threads | 32 648 |
| `LoggerBlocks` | rows in order, which gaps a file has, what a stop loses, and do the threads end? | four loggers, 4 items of which one makes no row, queue of 2, 2 seconds in minutes of 1, daylight saving that ends with the first, 1 stop, 4 rows | 1 271 991 |
| `Detector` | what does a detection compare when parameters change under the thread? | FFT sizes 2 and 4, three bands, 4 frames, queue of 2, 3 changes | 3 563 997 |
| `Datagrams` | who gets which objects, what do they hold, and are beams written back as they came? | 24 datagrams, 2 of them received, a client of all kinds and two single queues | 849 818 |

Why these bounds are enough. Queues: four items pass a limit of two by two, so
drops, repeated drops and a limit lowered below the size all occur, and with three consumers
two sleep while one is awake. Frames: three parts let a middle part be missing,
two frames let parts of one meet the other. Windows: packets shorter and longer than a
window, none a divisor of it, and 16 samples give five windows, more than the
numbers 0..2. Acoustic loggers: a window of two minutes in hours of three does not divide
the hour, and 7 seconds pass the turn of the hour with a rollover before and after
it. Its names come round again after six seconds, and three packets in a row overflow its queue of two.
Buffers: a history of two is exceeded twice over by five columns, and seven columns leave
some for the requests after that. Sensors: one record for each taker and one to
come after them. Lifecycle: the four sets have threads fed by the
socket alone, with and without two takers of one queue, and threads fed through the helper and the FFT
thread; the theorem holds for all sets. Logger blocks: a window of one second
rolls a file over twice, and three rows around an unusable item let two files and a
gap in either occur. Detector: three changes are one to have bins at all and two
to race with; four frames are one looked at, one that restarts the averages,
one compared with them and one for the queue of two to drop; sizes two and four let a bin be missing. Datagrams:
every kind and every length on either side of what the classes test, with beams whose
dimensions differ from each other; two are enough for a client to join before, between and within
them. Where a bound matters to a safety property the proofs below have none.

Deadlock is not checked where the system may really stop: after the packets,
datagrams, frames or records of the bound are used up, the threads have been stopped, or, in `BeamReassembly`
and `Datagrams`, the behaviour became undefined. It is checked in the run of `TsQueue`, where
`set_queue_length` is always possible.

The two runs that are violated are differences between the code and what it says
of itself, listed in `PROJECT.json` with the lines quoted:

- A primary beamformer packet is pushed before it is complete (`UdpSocketIn.cpp:79`, comment at 91).
- The FFT buffer is trimmed by an aliased assignment (`InterfaceHelper_buffering.cpp:172`,
  comment at `FFT.cpp:176`).

Seen while modelling, and in the models as the code has it, but not stated as a property:

- File names repeat. In a time zone with daylight saving the name is formatted from a
  time that `mktime(&tm_now)` has moved (`log_filename_time.cpp:30`, `InterfaceHelper.cpp:246`), so
  that for the hour after the shift ends names come round again, and a file opened then empties the
  one of an hour before. `NothingLostUnlessStopped` and `TruncatedOnlyByRestart` name the case.
- A logger that waits for a packet when logging is switched off keeps its file open until
  one comes (`InterfaceHelper_logging_aco.cpp:71`), whatever the comment at line 200 says.
- The BNO state thread shares its queue with the logger and misses what that takes
  (`InterfaceHelper_buffering.cpp:312`, comment at 313-315).
- A datagram that is too short or of a wrong length still makes an object that is
  pushed, with the defaults of its class and, for a sensor, the time of the
  datagram (`UdpSocketIn.cpp:237`, "Ignoring invalid buffer" at `UdpData.cpp:80`). Only
  acoustic packets are tested before they are pushed.
- Pitch and roll of an inertial record are computed from themselves, never from the datagram, and
  stay zero (`UdpImuData.cpp:67`).
- The angles of a beam header are 64 bits wide and swapped as 32: one half is lost
  (`UdpBeamform2D.cpp:108`). `BeamsEncodeBack` says so.
- `retry_counter` is never incremented (`UdpSocketIn.cpp:34`): connecting is tried for ever.
- The detector looks at its flag only before it waits for frames: bands added while it
  waits meet averages that were not started (`EnergyDetector.cpp:76`).

## Fairness

- `TsQueue`: a thread that is awake runs (`WF(Resume)`), and a timer that was set
  runs out (`WF(Timeout)`): the scheduler and `wait_for`. No producer and no idle
  consumer is assumed to do anything, and spurious wakeups are never assumed.
- `FftFraming`, `HistoryBuffer`, `SensorQueue`, `LoggerBlocks`: the thread modelled goes on
  whenever it can, since it runs a loop that waits for nothing but what its guards name. An
  application finishes a call it has begun and need not begin one. Neither gpsd nor files are assumed to
  be there: a read that returns nothing and an open that fails are steps of the thread too.
- `Lifecycle`: besides, the device keeps sending messages of every kind while the
  socket thread receives. Connecting is not assumed to succeed, nor the
  application to call `stop_threads`.
- `BeamReassembly`, `AcousticLogger`, `EnergyDetector` and `Datagrams` state safety only and assume no
  fairness.

No other property assumes that packets keep coming. Where a thread may wait for one for
ever, the property names that state (`EndsUnlessStarved`, `EndsUnlessWaiting`,
`RequestAnswered`, and `WaitsForHelper` within `StopReturns`).

## Proofs

All theorems hold for every value of the constants that satisfies the modules'
assumptions; there is nothing unproved below them. The assumptions say that
lengths are positive, the overlap is smaller than the window, every `pop_N` and
`pop_limit` asks for at least one item, and bounds are numbers. Of the datagrams
received `Datagrams` assumes that they hold the tag they are told apart by, that no
acoustic one has zero channels, that a raw beam comes in one part at least, and that a beam longer than
its header also holds the payload its header announces, for one bearing and one elevation at least,
if it is decoded at once (`ReceivedAssumption`, `BeamsAssumption`). Of the times at which `mktime` finds daylight saving
nothing is assumed. The code tests none of this: what it
does with other datagrams is undefined, so no theorem can speak of them.

The proofs are in one module per component: `UdpSocketInProofs` has those of
`BeamReassembly`, `SensorQueue`, `Datagrams` and `BeamCodec`, `AcousticLoggerProofs` those of
`FilenameTime` as well.

| theorem | inductive invariant and argument |
|---|---|
| `QueueTypes` | with `QueueInv`: only consumers inside a call wait, and what is queued or taken are numbers up to `pushed`. |
| `QueueInvariant` | `QueueInv`: the queue is the items `pushed - Len + 1 .. pushed`. Each insertion, drop and removal takes from the front or adds the next number. |
| `QueueImplementsFifo` | every step of `TsQueue` under `QueueInv` is an `Offer`, `Deliver` or `Discard` of `LossyFifo`, or changes nothing it sees. |
| `ItemsComeOutInOrder` | the abstract queue hands out numbers in order; follows from the refinement. |
| `LimitsAreKept` | under `QueueInv`, the lengths of what `DropOne` and `DropExcess` leave (`DropLengths`): no insertion makes the queue longer than the limit, and one that drops items leaves as many as the limit. |
| `OneConsumerNeverSleepsOnData` | `SleeperHasNothing`: with one consumer a sleeping thread's predicate is false; an insertion that makes it true wakes it. |
| `ManyConsumersNeverAllSleepOnData` | `TakersOnTheWay`: with one item per notification, while somebody sleeps there are at most as many items as threads awake in a call. |
| `DataIsOneWholeFrame`, `AllPartsSuffice`, `UndefinedIsConfined` | `BeamInv`: the frame in hand is assembling, with exactly the parts seen since its primary, or done and pushed last. The count of distinct parts reaches the number of parts only when all are in (`CountingIsEnough`). |
| `BeamTypes` | `NetInv` (what is under way are datagrams of known frames) with `BeamInv`. |
| `FramesAreStamped`, `OffsetStaysInBuffer` | `BufferInv`: samples and timestamps are equal sequences and the offset is inside them. |
| `FramesAreTheWindows` | `TileInv`: the packets under way follow each other up to `received`, the buffer ends where they begin, and the next window starts where the last frame said. `FramesTileTheStream` alone is not inductive: it does not mention the buffer. |
| `FramingTypes` | `BufferInv` and the types of packets on their way; a frame number is set back to zero before it passes `IntMax`. |
| `RolloverAhead` | integer arithmetic, with the minute within the hour and the remainder named. |
| `LogIsOrdered`, `FilesAreRuns`, `WindowsAreAhead` | `IInv`: the queue is consecutive, since it drops from the front; what was written has left it; and what left the queue after the packet an open file ends with was dropped, since nobody but a full queue takes from it meanwhile (`DroppedSince`). |
| `TypeCorrect` | `TypeInv`: a rollover time is a number because the window start is not negative (`FilenameTime`). |
| `NothingIsLost` | `CalmInv`, while logging was never stopped and files open: a file is opened once per second, because a rollover is later than the opening it ends; what was written is in files of earlier seconds or the open one, whose name is theirs only if it came round again (`Written`); and what left the queue was written or dropped (`Accounted`). |
| `RepliesInOrder` | `IInv` on sets of columns: those handed out are below those in the buffer (unless a reply was just pushed), and those below the ones queued. Left out is the FFT thread, of which it is false. |
| `NothingIsSkipped` | `SkipInv`: while the queue overflowed never, every column that left the queue is settled (in a reply, or older than a reply that holds a whole history) or in the thread's hands, to be settled by the next reply. |
| `HistoryTypes` | `TalkTypes`: of an application that waits there is exactly one request or one reply under way, so replies can be counted. |
| `BuffersImplementFifo` | `HeldInv`, with `SkipInv`: without an overflow what is held is the run of columns that ends with `pushed`. A push appends to it, a trim keeps its back (both an `Offer`), a reply takes its front (a `Deliver`), and every other step leaves it as it is. What the replies make together is defined by concatenation, see below. |
| `BuffersAreBounded` | `BoundInv`: a buffer thread adds to its buffer only through the trim. |
| `StoppedThreadsHaveEnded` | `IInv`: a joined thread stays ended; the helper is joined before the FFT thread is looked for and feeds only one that has set `_is_running`, so one that starts later finds no packet; a socket thread in `recv` says that it runs until it is cancelled. |
| `StealsAreBounded` | `StealInv`: a call that looks after the logger has had a record has read it, or began before; there is one call at a time. |
| `RecordTypes`, `LifecycleTypes` | the types, the first with the back of the queue, the second with where the FFT and socket threads say that they run. |
| `FramesAreDetected` | `WorkInv`: what has left the queue is in hand, was detected or was dropped, ever newer frames in that order, and a frame is in hand wherever one is used. |
| `DetectionsAreSound` | `SizeInv`: without a resize every frame has all active bins. `SoundInv`: without an overlap, wherever the detector works its columns and its averages are of the active bins, or there are none. |
| `StaleOnlyByLostFlag` | `FlagInv`: while the flag is unset and was not lost, the averages are of the bins active now, or a caller is about to set it. |
| `LoggerTypes` | `TypeInv`: besides the types, where a row is written a file was opened, and where a packet is used there is one in hand. |
| `RowsAreInOrder`, `RowsHaveNoGaps` | `StreamInv`: the batch follows what has been dealt with, the queue follows the batch but for what it dropped, and rows are of what has been dealt with. `FileInv`: while a file of `LoggerBlock` is to be continued, nothing usable is missing behind its last row but what was dropped. |
| `FilesAreKept` | `WindowInv` and `SafeInv`: a file is opened before its window ends; and wherever a thread is about to open one, no row is in a file of this second or logging was started in it. An opening that empties an earlier file shows that its name came round again. |
| `StopsLoseOneBatch` | `CreditInv`: a stop accounts for each gap in the rows that the full queue does not, and one more for the batch that is about to be given up. Each stop is spent once, since the flag is looked at once per batch. |
| `PushedOnceInOrder` | `SocketInv`: each client is in a list once (`MembersInv`), the loop's end lies in the list being walked (`LoopInv`), and a client has been pushed the objects since it joined, but for the last while the loop has not reached it (`PushedInv`). |
| `PacketsAgreeWithHeaders` | `MadeInv`: what is being pushed was made of a datagram of the list's kind; the samples of a packet are as many as its header says, row by row (`FlattenColumns`). |
| `BeamsAreEncodedBack` | `MadeInv`: a raw beam that holds its vectors came in one datagram. Then by computation: the offsets of the vectors are the sums of their lengths, so cutting a payload at them and writing the pieces one after the other is the payload again (`VectorsBack`), words swapped twice are unchanged but for the angles (`HeaderBack`), and so is a pattern transposed twice. |
| `DetectorTypes` | `TypesInv`, in four parts that the calls, the flags, the frames and the columns keep apart; `WorkInv` for the detections. |

With these every invariant and every safety property of a step that a passing run checks
is stated by a theorem. Two proofs argue about sequences of any length, where
only induction helps. The induction theorems of the library take a predicate as
a parameter, which the provers cannot instantiate, so the modules have one of
their own: a set of numbers that has zero and with every number the next is all
of `Nat` (`SetInduction`), because a number left out would have a least one. `FlattenIsLast` uses it to
characterise the concatenation of a sequence of sequences, which the community modules define by
`CHOOSE` of a function.

`ItemsComeOutInOrder`, `OffsetStaysInBuffer`, `WindowsAreAhead`, `RolloverAhead` and `BuffersAreBounded`
state facts the other theorems rest on or that no run needs to check besides. The theorems
of `FilenameTime` are in `AcousticLoggerProofs`, where they are used.

Only model-checked: the liveness properties `BlockedCallServed`, `EveryWindowFramed`, `RequestAnswered`,
`EndsUnlessStarved`, `StopReturns` and `EndsUnlessWaiting`. They rest on fairness and so on ENABLED, which the
prover does not handle here.

## Not modelled

- The FFT, the detector's energies, scaling of readings and other arithmetic on samples, and text output:
  functions of one packet without state. IPC classes only hold fields and print them.
- Frequency weights of the detector and `add_frequency_bin_closest`, which change parameters as
  the modelled setters do; two threads that change parameters at once.
- `set_NFFT` and `set_noverlap` inside an iteration of the FFT thread: `FftFraming` has them
  constant, `EnergyDetector` changes them between frames.
- `set_curr_ch`, which changes the row the FFT and beamformer buffers keep, and the
  BNO state buffer, which holds one record.
- `run` called twice, `run_threads` called again, and destructors.
- Two threads of an application that ask for the same buffer at once: their
  requests may be answered by one reply each, but which of the two waits longer is nobody's promise.
- Data races on plain flags and shared pointers: flags are read and written in one
  step, which is what the builds do on the processors supported. What a race may leave undefined
  in a vector is in `EnergyDetector` and `Datagrams`.
- `front` and `back` beside another consumer, where they may take the only notification. In the
  repository only `back` of the Python calls does that, beside the acoustic helper thread, whose timed wait
  looks again within a second.
- A call of `set_queue_length`, which takes no lock, while another thread inserts: nobody calls it.
- Raw beams that announce no parts, and continuations with an index beyond the number announced:
  the code tests neither.
- That one thread keeps both the BNO and the BNR state, so that a wait for one holds up the other.
- Beam payloads shorter than their header says: nothing in the code tests that,
  and reading beyond a datagram has no defined result.
- FLAC and WAV loggers of `LoggerBlock`, which are never started and write nothing; the
  libraries; the file system but for files that do not open.
- Python bindings but for the calls that ask for buffered data; the applications, which
  parse flags, call the library and sleep; the tests.

## Plan

Done, in this order: `TsQueue` with `LossyFifo`, `BeamReassembly`, `FftFraming`,
`FilenameTime` and `AcousticLogger`, `HistoryBuffer`, `SensorQueue`, `Lifecycle`, `LoggerBlocks`,
`EnergyDetector` with `FreqDomainBase`, `Datagrams` with `BeamCodec`, and the
proofs of all their safety properties. Next:

1. `FftFraming` with `NFFT` and `noverlap` changed by another thread inside an
   iteration. Property: a frame holds a window of one size, and its timestamp is that of its first sample.
2. `Lifecycle` extended: `run` called twice, `run_threads` after `stop_threads` (which leaves
   `keep_alive` unset), destructors. Property: at most one thread per object.
3. `HistoryBuffer` with `set_curr_ch`: which channels a reply may mix.
4. Theorems: that the queues of `FftFraming` and `SensorQueue` implement `LossyFifo`, as those of
   `HistoryBuffer` do.
