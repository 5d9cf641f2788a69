-------------------------- MODULE LoggerBlocks ---------------------------
(* The loggers an application runs beside InterfaceHelper or in its place: *)
(*   "aco"     LoggerBlock with its Logger_Acoustic_CSV                    *)
(*   "sensor"  one thread of Logger_Sensor_Block                           *)
(*   "gps"     the GPS logger thread of InterfaceHelper                    *)
(*   "host"    Logger_GPS_Host_Block                                       *)
(* The first two take what the socket thread pushes to their queue; the    *)
(* other two read gpsd.  The FLAC and WAV loggers of LoggerBlock are never *)
(* started and write nothing: they are left out.                           *)
(*                                                                         *)
(* Packets, records and fixes are numbered as they come (items).           *)
EXTENDS FilenameTime, Sequences, FiniteSets

CONSTANTS
    Kinds,          \* which loggers
    RolloverMin,    \* their rollover time, in minutes
    Unusable,       \* items that make no row: packets without data, records
                    \* without a time, fixes without a position
    QueueLength,    \* m_length of their queues (1000 in the code)
    MaxItems,       \* bound: items that come
    MaxTime,        \* bound: the clock
    MaxStops,       \* bound: calls of stop_logging
    MaxRows         \* bound: rows written

ASSUME KindsAssumption == Kinds \subseteq {"aco", "sensor", "gps", "host"}
ASSUME RolloverAssumption == RolloverMin \in Nat \cup {-1}
ASSUME QueueAssumption == QueueLength \in Nat \ {0}
ASSUME BoundsAssumption == {MaxItems, MaxTime, MaxStops, MaxRows} \subseteq Nat

None == 0           \* no fix read yet

VARIABLES
    kind,               \* the logger this is
    openable,           \* do all files open?
    queue,              \* q_aco, or the queue of the sensor
    pushed,             \* items that have come
    dropped,            \* history: items the full queue has dropped
    keep_alive,
    logging_active,     \* Logger_Acoustic::running in "aco"
    starting,           \* the application is inside Logger_Acoustic::Start
    stops,              \* history: calls of stop_logging
    restarts,           \* history: the seconds start_logging ran in
    now,                \* std::time(nullptr)
    pc,                 \* where the logger thread is
    batch,              \* what it took and has not dealt with
    latest,             \* the last fix gpsd reported
    file_initialized,   \* of Logger_Acoustic
    fntime,             \* when the current file was opened, and its rollover
    is_open,            \* whether it is open
    disk,               \* what each file holds, by name
    log                 \* history: the rows written, as [item, file], the
                        \* file by the second it was opened

setup == <<kind, openable>>
control == <<keep_alive, logging_active, starting, stops, restarts, now>>
input == <<queue, pushed, dropped>>
taken == <<batch, latest>>
file == <<fntime, is_open, disk>>
vars == <<setup, control, input, pc, taken, file_initialized, file, log>>

Items == 1..MaxItems
Times == 0..MaxTime
NoFile == [fname_time |-> -1, rollover |-> 0]

(* The names files can have, and the name of the current one.              *)
Names == {fname_str(t) : t \in Times}
fname == fname_str(fntime.fname_time)

Queued == kind \in {"aco", "sensor"}

TypeOK ==
    /\ kind \in Kinds /\ openable \in BOOLEAN
    /\ {queue, batch} \subseteq Seq(Items)
    /\ Len(queue) <= QueueLength /\ dropped \subseteq Items
    /\ pushed \in 0..MaxItems /\ latest \in 0..pushed
    /\ {keep_alive, logging_active, starting, file_initialized, is_open}
          \subseteq BOOLEAN
    /\ stops \in 0..MaxStops /\ restarts \subseteq Times /\ now \in Times
    /\ pc \in {"init", "top", "connect", "opening", "loop", "get", "packet",
               "file", "write", "skip", "rows", "exited"}
    /\ fntime \in [fname_time : Times, rollover : Nat] \cup {NoFile}
    /\ is_open => fntime # NoFile
    /\ disk \in [Names -> Seq(Items)]
    /\ log \in Seq([item : Items, file : Times])
    /\ ~Queued => Len(log) <= MaxRows
    /\ ~Queued => queue = <<>> /\ batch = <<>>
    /\ batch # <<>> => pc \in {"packet", "file", "write", "skip", "rows"}

(* The constructor of Logger_Acoustic sets none of its flags.              *)
Init ==
    /\ kind \in Kinds
    /\ openable \in BOOLEAN
    /\ queue = <<>> /\ pushed = 0 /\ dropped = {}
    /\ keep_alive = TRUE
    /\ logging_active \in BOOLEAN
    /\ starting = FALSE
    /\ stops = 0 /\ restarts = {} /\ now = 0
    /\ pc = IF kind = "aco" THEN "init" ELSE "top"
    /\ batch = <<>> /\ latest = None
    /\ file_initialized \in IF kind = "aco" THEN BOOLEAN ELSE {FALSE}
    /\ fntime = NoFile /\ is_open = FALSE
    /\ disk = [name \in Names |-> <<>>]
    /\ log = <<>>

--------------------------------------------------------------------------
(* Around the thread: the socket thread or the receiver, the application,  *)
(* and the clock.                                                          *)

(* A full queue drops its oldest.                                          *)
Enqueue(item) ==
    LET q == Append(queue, item)
    IN  IF Len(q) > QueueLength
        THEN queue' = Tail(q) /\ dropped' = dropped \cup {Head(q)}
        ELSE queue' = q /\ UNCHANGED dropped

Arrive ==
    /\ pushed < MaxItems
    /\ pushed' = pushed + 1
    /\ IF Queued THEN Enqueue(pushed + 1) ELSE UNCHANGED <<queue, dropped>>
    /\ UNCHANGED <<setup, control, pc, taken, file_initialized, file, log>>

(* LoggerBlock starts its CSV logger, whose Start sets two flags; the      *)
(* other loggers have one flag.                                            *)
start_logging ==
    /\ ~starting
    /\ logging_active' = TRUE
    /\ starting' = (kind = "aco")
    /\ restarts' = restarts \cup {now}
    /\ UNCHANGED <<setup, keep_alive, stops, now, input, pc, taken,
                   file_initialized, file, log>>

StartReset ==
    /\ starting
    /\ file_initialized' = FALSE
    /\ starting' = FALSE
    /\ restarts' = restarts \cup {now}
    /\ UNCHANGED <<setup, keep_alive, logging_active, stops, now, input, pc,
                   taken, file, log>>

stop_logging ==
    /\ ~starting
    /\ stops < MaxStops
    /\ stops' = stops + 1
    /\ logging_active' = FALSE
    /\ UNCHANGED <<setup, keep_alive, starting, restarts, now, input, pc,
                   taken, file_initialized, file, log>>

(* QueueClient::stop and InterfaceHelper::stop_threads; the host block has *)
(* nothing of the kind.                                                    *)
stop ==
    /\ kind # "host"
    /\ keep_alive' = FALSE
    /\ UNCHANGED <<setup, logging_active, starting, stops, restarts, now,
                   input, pc, taken, file_initialized, file, log>>

Tick ==
    /\ now < MaxTime
    /\ now' = now + 1
    /\ UNCHANGED <<setup, keep_alive, logging_active, starting, stops,
                   restarts, input, pc, taken, file_initialized, file, log>>

--------------------------------------------------------------------------
(* What the threads do with files.                                         *)

(* Opening a file empties the one of that name.                            *)
OpenFile ==
    /\ fntime' = [fname_time |-> now,
                  rollover |-> rollover_time(now, RolloverMin)]
    /\ \/ /\ is_open' = TRUE
          /\ disk' = [disk EXCEPT ![fname_str(now)] = <<>>]
       \/ /\ ~openable
          /\ is_open' = FALSE
          /\ UNCHANGED disk

CloseFile ==
    /\ is_open' = FALSE
    /\ UNCHANGED <<fntime, disk>>

WriteRow(n) ==
    IF n \in Unusable
    THEN UNCHANGED <<disk, log>>
    ELSE /\ disk' = [disk EXCEPT ![fname] = Append(@, n)]
         /\ log' = Append(log, [item |-> n, file |-> fntime.fname_time])

--------------------------------------------------------------------------
(* LoggerBlock::run_log_thread_audio.                                      *)

(* The first packet is looked at, not taken, to learn the channels.        *)
Initialize ==
    /\ kind = "aco" /\ pc = "init"
    /\ keep_alive => queue # <<>>
    /\ pc' = "loop"
    /\ UNCHANGED <<setup, control, input, taken, file_initialized, file, log>>

(* The thread ends with the CSV logger stopped; its file is not closed.    *)
BlockLoop ==
    /\ kind = "aco" /\ pc = "loop"
    /\ pc' = IF keep_alive THEN "get" ELSE "exited"
    /\ logging_active' = (keep_alive /\ logging_active)
    /\ UNCHANGED <<setup, keep_alive, starting, stops, restarts, now, input,
                   taken, file_initialized, file, log>>

PopAll ==
    /\ kind = "aco" /\ pc = "get"
    /\ queue # <<>>
    /\ batch' = queue
    /\ queue' = <<>>
    /\ pc' = "packet"
    /\ UNCHANGED <<setup, control, pushed, dropped, latest,
                   file_initialized, file, log>>

(* Logger_Acoustic_CSV::Log_ACO_Data, from here to WritePacket, for the    *)
(* first packet of the batch.                                              *)
LogPacket ==
    /\ kind = "aco" /\ pc = "packet"
    /\ pc' = IF batch = <<>> THEN "loop"
             ELSE IF logging_active THEN "file" ELSE "skip"
    /\ UNCHANGED <<setup, control, input, taken, file_initialized, file, log>>

SkipLeavesFile ==           \* mutant: the file is left to the next Start
    /\ kind = "aco" /\ pc = "skip"
    /\ batch' = Tail(batch)
    /\ pc' = "packet"
    /\ UNCHANGED <<setup, control, input, latest, file_initialized, file,
                   log>>

SkipPacket ==
    /\ kind = "aco" /\ pc = "skip"
    /\ IF file_initialized THEN CloseFile ELSE UNCHANGED file
    /\ file_initialized' = FALSE
    /\ batch' = Tail(batch)
    /\ pc' = "packet"
    /\ UNCHANGED <<setup, control, input, latest, log>>

RollAlways ==               \* mutant: every packet gets a new file
    /\ kind = "aco" /\ pc = "file"
    /\ OpenFile /\ file_initialized' = TRUE
    /\ pc' = "write"
    /\ UNCHANGED <<setup, control, input, taken, log>>

NeedsFile == ~is_open \/ ~file_initialized \/ now > fntime.rollover

RollFile ==
    /\ kind = "aco" /\ pc = "file"
    /\ IF NeedsFile
       THEN OpenFile /\ file_initialized' = TRUE
       ELSE UNCHANGED <<file, file_initialized>>
    /\ pc' = "write"
    /\ UNCHANGED <<setup, control, input, taken, log>>

WritePacket ==
    /\ kind = "aco" /\ pc = "write"
    /\ IF is_open
       THEN WriteRow(Head(batch))
       ELSE UNCHANGED <<disk, log>>
    /\ batch' = Tail(batch)
    /\ pc' = "packet"
    /\ UNCHANGED <<setup, control, input, latest, file_initialized, fntime,
                   is_open>>

AcousticBlock ==
    \/ Initialize \/ BlockLoop \/ PopAll
    \/ LogPacket \/ SkipPacket \/ RollFile \/ WritePacket

--------------------------------------------------------------------------
(* The loops the other three share: a file is written to until a flag or   *)
(* the clock says otherwise.                                               *)

Top ==
    /\ kind # "aco" /\ pc = "top"
    /\ IF keep_alive
       THEN /\ logging_active
            /\ pc' = IF Queued THEN "opening" ELSE "connect"
       ELSE pc' = "exited"
    /\ UNCHANGED <<setup, control, input, taken, file_initialized, file, log>>

(* No file without gpsd: after a second all starts over.                   *)
Connect ==
    /\ ~Queued /\ pc = "connect"
    /\ pc' \in {"opening", "top"}
    /\ UNCHANGED <<setup, control, input, taken, file_initialized, file, log>>

Open ==
    /\ kind # "aco" /\ pc = "opening"
    /\ OpenFile
    /\ pc' = "loop"
    /\ UNCHANGED <<setup, control, input, taken, file_initialized, log>>

Continues ==
    /\ keep_alive
    /\ logging_active
    /\ is_open
    /\ now < fntime.rollover

Test ==
    /\ kind # "aco" /\ pc = "loop"
    /\ IF Continues
       THEN pc' = "get" /\ UNCHANGED file
       ELSE pc' = "top" /\ CloseFile
    /\ UNCHANGED <<setup, control, input, taken, file_initialized, log>>

--------------------------------------------------------------------------
(* Logger_Sensor_Block: pop_all with a timeout, and another look at the    *)
(* flag before what it returned is written.                                *)

PopRecordsWaits ==          \* mutant: pop_all without a timeout
    /\ kind = "sensor" /\ pc = "get"
    /\ queue # <<>>
    /\ batch' = queue
    /\ queue' = <<>>
    /\ pc' = "write"
    /\ UNCHANGED <<setup, control, pushed, dropped, latest,
                   file_initialized, file, log>>

PopRecords ==
    /\ kind = "sensor" /\ pc = "get"
    /\ batch' = queue
    /\ queue' = <<>>
    /\ pc' = IF queue = <<>> THEN "loop" ELSE "write"
    /\ UNCHANGED <<setup, control, pushed, dropped, latest,
                   file_initialized, file, log>>

LookAgainKeepsBatch ==      \* mutant: what is not written stays in hand
    /\ kind = "sensor" /\ pc = "write"
    /\ pc' = IF logging_active THEN "rows" ELSE "loop"
    /\ UNCHANGED <<setup, control, input, taken, file_initialized, file, log>>

LookAgain ==
    /\ kind = "sensor" /\ pc = "write"
    /\ IF logging_active
       THEN pc' = "rows" /\ UNCHANGED batch
       ELSE pc' = "loop" /\ batch' = <<>>
    /\ UNCHANGED <<setup, control, input, latest, file_initialized, file,
                   log>>

WriteLastRecord ==          \* mutant: one record of a batch is written
    /\ kind = "sensor" /\ pc = "rows"
    /\ IF batch = <<>>
       THEN UNCHANGED <<disk, log>>
       ELSE WriteRow(batch[Len(batch)])
    /\ batch' = <<>>
    /\ pc' = "loop"
    /\ UNCHANGED <<setup, control, input, latest, file_initialized, fntime,
                   is_open>>

WriteRecord ==
    /\ kind = "sensor" /\ pc = "rows"
    /\ IF batch = <<>>
       THEN pc' = "loop" /\ UNCHANGED <<batch, disk, log>>
       ELSE /\ WriteRow(Head(batch))
            /\ batch' = Tail(batch)
            /\ UNCHANGED pc
    /\ UNCHANGED <<setup, control, input, latest, file_initialized, fntime,
                   is_open>>

SensorBlock == PopRecords \/ LookAgain \/ WriteRecord

--------------------------------------------------------------------------
(* The two GPS loggers.  gpsd reports a fix any number of times, in the    *)
(* order they were made; a read may also time out or fail.                 *)

ReadNothing ==
    /\ ~Queued /\ pc = "get"
    /\ pc' = "loop"
    /\ UNCHANGED <<setup, control, input, taken, file_initialized, file, log>>

(* The host block has no notion of an old fix.                             *)
ReadFix ==
    /\ ~Queued /\ pc = "get"
    /\ Len(log) < MaxRows
    /\ \E fix \in latest..pushed \ {None} :
        /\ kind = "gps" => fix # latest
        /\ latest' = fix
        /\ WriteRow(fix)
    /\ pc' = "loop"
    /\ UNCHANGED <<setup, control, input, batch, file_initialized, fntime,
                   is_open>>

GpsLogger == Connect \/ ReadNothing \/ ReadFix

--------------------------------------------------------------------------
Logger == AcousticBlock \/ Top \/ Open \/ Test \/ SensorBlock \/ GpsLogger

Next ==
    \/ Arrive \/ Tick
    \/ start_logging \/ StartReset \/ stop_logging \/ stop
    \/ Logger

Spec == Init /\ [][Next]_vars

(* The logger thread runs.                                                 *)
FairSpec == Spec /\ WF_vars(Logger)

--------------------------------------------------------------------------
(* Properties.                                                             *)

(* Is an item left out between these two that the queue did not drop?      *)
Missing(m, n) == \E k \in (m + 1)..(n - 1) : k \notin Unusable \cup dropped

(* Rows are written in the order of their items and no item twice, over    *)
(* stops, restarts, rollovers and lost connections, but for the fixes the  *)
(* host block writes as often as gpsd reports them.  A file of LoggerBlock *)
(* has no gap besides, but for the packets that its full queue dropped     *)
(* while it was behind, although Start sets its two flags one after the    *)
(* other while the logger reads them: what came while logging was off      *)
(* separates two files.                                                    *)
InOrderWithoutGaps ==
    /\ \A i, j \in DOMAIN log : i < j =>
          \/ log[i].item < log[j].item
          \/ kind = "host" /\ log[i].item = log[j].item
    /\ kind = "aco" =>
          \A name \in Names : \A i \in 1..(Len(disk[name]) - 1) :
              ~Missing(disk[name][i], disk[name][i + 1])

(* The items of the rows, 0 before the first, and the rows before which    *)
(* an item is left out.                                                    *)
Row(i) == IF i = 0 THEN 0 ELSE log[i].item
Gaps == {i \in 1..Len(log) : Missing(Row(i - 1), Row(i))}

(* Logger_Sensor_Block keeps its queue while logging is off, and each time *)
(* logging is stopped it loses the batch it has in hand at most: whatever  *)
(* else is left out was dropped by the full queue.                         *)
OneBatchPerStop == kind = "sensor" => Cardinality(Gaps) <= stops

(* A row written stays in its file, unless logging was started again in    *)
(* the second the file was opened, or the file's name came round again.    *)
TruncatedOnlyByRestart ==
    \A i \in DOMAIN log :
        \/ log[i].file \in restarts
        \/ CameAgain(log[i].file, now)
        \/ \E k \in DOMAIN disk[fname_str(log[i].file)] :
              disk[fname_str(log[i].file)][k] = log[i].item

(* Once stopped a thread ends, gpsd or none, files or none, or it is       *)
(* LoggerBlock waiting for a packet without a timeout.                     *)
EndsUnlessWaiting ==
    ~keep_alive ~> \/ pc = "exited"
                   \/ [](kind = "aco" /\ pc = "get" /\ queue = <<>>)
==========================================================================
