------------------------- MODULE AcousticLogger --------------------------
(* The acoustic logger threads of InterfaceHelper                          *)
(* (utils/InterfaceHelper_logging_aco.cpp), one module for the CSV, FLAC   *)
(* and WAV threads, which differ in what they do when a file cannot be     *)
(* opened.  Around it: the fork in the acoustic helper thread that feeds   *)
(* the logger's queue, and the application, which starts and stops logging *)
(* and ends the threads.                                                   *)
(*                                                                         *)
(* Packets are numbered in the order they are pushed to the queue.         *)
EXTENDS FilenameTime, Sequences

CONSTANTS
    Formats,        \* which loggers: "csv", "flac", "wav"
    RolloverMin,    \* rollover_min[L]
    QueueLength,    \* m_length of its queue (1000 in the code)
    MaxPackets,     \* bound: packets pushed
    MaxTime,        \* bound: the clock
    MaxStops        \* bound: calls of stop_logging

ASSUME FormatsAssumption == Formats \subseteq {"csv", "flac", "wav"}
ASSUME RolloverAssumption == RolloverMin \in Nat \cup {-1}
ASSUME QueueAssumption == QueueLength \in Nat \ {0}
ASSUME BoundsAssumption ==
    MaxPackets \in Nat /\ MaxTime \in Nat /\ MaxStops \in Nat

VARIABLES
    format,             \* the logger this is
    openable,           \* do all files open?
    queue,              \* q_aco_dup[format]
    pushed,             \* packets pushed to it so far
    dropped,            \* history: packets the full queue has dropped
    helper,             \* where the acoustic helper thread is
    logging_active,     \* logger_active[L]
    keep_alive,
    now,                \* std::time(nullptr)
    pc,                 \* where the logger thread is
    fntime,             \* when the current file was opened, and its rollover
    is_open,            \* whether that file was opened successfully
    disk,               \* what each file holds, by name
    log,                \* history: what was written, as [packet, file],
                        \* the file by the second it was opened
    stops               \* how often stop_logging has been called

setup == <<format, openable>>
offered == <<queue, pushed, dropped>>
shared == <<setup, offered, helper, logging_active, keep_alive, now, stops>>
files == <<fntime, is_open, disk, log>>
vars == <<shared, pc, files>>

Times == 0..MaxTime
NoFile == [fname_time |-> -1, rollover |-> 0]

(* The names files can have, and the name of the current one.              *)
Names == {fname_str(t) : t \in Times}
fname == fname_str(fntime.fname_time)

TypeOK ==
    /\ format \in Formats /\ openable \in BOOLEAN
    /\ queue \in Seq(1..MaxPackets) /\ Len(queue) <= QueueLength
    /\ pushed \in 0..MaxPackets
    /\ dropped \subseteq 1..MaxPackets
    /\ helper \in {"rest", "fork", "push"}
    /\ {logging_active, keep_alive, is_open} \subseteq BOOLEAN
    /\ now \in Times
    /\ pc \in {"init", "top", "opening", "loop", "pop", "off", "exited"}
    /\ fntime \in [fname_time : Times, rollover : Nat] \cup {NoFile}
    /\ pc \in {"loop", "pop"} <=> fntime # NoFile
    /\ disk \in [Names -> Seq(1..MaxPackets)]
    /\ log \in Seq([packet : 1..MaxPackets, file : Times])
    /\ stops \in 0..MaxStops

Init ==
    /\ format \in Formats
    /\ openable \in BOOLEAN
    /\ queue = <<>>
    /\ pushed = 0
    /\ dropped = {}
    /\ helper = "rest"
    /\ logging_active \in BOOLEAN
    /\ keep_alive = TRUE
    /\ now = 0
    /\ pc = "init"
    /\ fntime = NoFile
    /\ is_open = FALSE
    /\ disk = [name \in Names |-> <<>>]
    /\ log = <<>>
    /\ stops = 0

--------------------------------------------------------------------------
(* The rest of the library.                                                *)

(* The acoustic helper thread: it looks at keep_alive, then takes packets, *)
(* then looks at the flag, then pushes.                                    *)
TakePackets ==
    /\ helper = "rest"
    /\ keep_alive
    /\ pushed < MaxPackets
    /\ helper' = "fork"
    /\ UNCHANGED <<setup, offered, logging_active, keep_alive, now, stops,
                   pc, files>>

SeeActive ==
    /\ helper = "fork"
    /\ helper' = IF logging_active THEN "push" ELSE "rest"
    /\ UNCHANGED <<setup, offered, logging_active, keep_alive, now, stops,
                   pc, files>>

(* A full queue drops its oldest.                                          *)
PushPacket ==
    /\ helper = "push"
    /\ pushed' = pushed + 1
    /\ LET q == Append(queue, pushed + 1)
       IN  IF Len(q) > QueueLength
           THEN /\ queue' = Tail(q)
                /\ dropped' = dropped \cup {Head(q)}
           ELSE queue' = q /\ UNCHANGED dropped
    /\ helper' = "rest"
    /\ UNCHANGED <<setup, logging_active, keep_alive, now, stops, pc,
                   files>>

Helper == TakePackets \/ SeeActive \/ PushPacket

start_logging ==
    /\ logging_active' = TRUE
    /\ UNCHANGED <<setup, offered, helper, keep_alive, now, stops, pc,
                   files>>

stop_logging ==
    /\ stops < MaxStops
    /\ stops' = stops + 1
    /\ logging_active' = FALSE
    /\ UNCHANGED <<setup, offered, helper, keep_alive, now, pc, files>>

(* stop_threads, before it joins the threads.                              *)
stop_threads ==
    /\ keep_alive' = FALSE
    /\ UNCHANGED <<setup, offered, helper, logging_active, now, stops, pc,
                   files>>

Tick ==
    /\ now < MaxTime
    /\ now' = now + 1
    /\ UNCHANGED <<setup, offered, helper, logging_active, keep_alive,
                   stops, pc, files>>

--------------------------------------------------------------------------
(* The logger thread.                                                      *)

(* The first packet is looked at, not taken, to learn the channels.        *)
Peek ==
    /\ pc = "init"
    /\ keep_alive => logging_active /\ queue # <<>>
    /\ pc' = "top"
    /\ UNCHANGED <<shared, files>>

Top ==
    /\ pc = "top"
    /\ pc' = IF ~keep_alive THEN "exited"
             ELSE IF logging_active THEN "opening" ELSE "off"
    /\ UNCHANGED <<shared, files>>

(* Opening a file for writing empties it.                                  *)
OpenFile ==
    /\ pc = "opening"
    /\ fntime' = [fname_time |-> now,
                  rollover |-> rollover_time(now, RolloverMin)]
    /\ \/ /\ is_open' = TRUE
          /\ disk' = [disk EXCEPT ![fname_str(now)] = <<>>]
       \/ /\ ~openable
          /\ is_open' = FALSE
          /\ UNCHANGED disk
    /\ pc' = "loop"
    /\ UNCHANGED <<shared, log>>

Continues ==
    /\ keep_alive
    /\ logging_active
    /\ format = "csv" => is_open
    /\ now < fntime.rollover

(* A file is written to until the condition fails, then closed.            *)
Test ==
    /\ pc = "loop"
    /\ IF Continues
       THEN pc' = "pop" /\ UNCHANGED <<fntime, is_open>>
       ELSE pc' = "top" /\ fntime' = NoFile /\ is_open' = FALSE
    /\ UNCHANGED <<shared, disk, log>>

Entries(batch) ==
    [i \in DOMAIN batch |-> [packet |-> batch[i], file |-> fntime.fname_time]]

(* pop_all waits without a timeout; what it returns goes to the file.      *)
WriteOncePerFile ==         \* mutant: a new file for every batch
    /\ pc = "pop"
    /\ queue # <<>>
    /\ queue' = <<>>
    /\ IF is_open
       THEN /\ disk' = [disk EXCEPT ![fname] = @ \o queue]
            /\ log' = log \o Entries(queue)
       ELSE UNCHANGED <<disk, log>>
    /\ pc' = "opening"
    /\ UNCHANGED <<setup, pushed, dropped, helper, logging_active,
                   keep_alive, now, stops, fntime, is_open>>

WriteNewestOnly ==          \* mutant: only the last packet is written
    /\ pc = "pop"
    /\ queue # <<>>
    /\ queue' = <<>>
    /\ LET last == SubSeq(queue, Len(queue), Len(queue))
       IN  IF is_open
           THEN /\ disk' = [disk EXCEPT ![fname] = @ \o last]
                /\ log' = log \o Entries(last)
           ELSE UNCHANGED <<disk, log>>
    /\ pc' = "loop"
    /\ UNCHANGED <<setup, pushed, dropped, helper, logging_active,
                   keep_alive, now, stops, fntime, is_open>>

WriteAndKeep ==             \* mutant: the packets stay in the queue
    /\ pc = "pop"
    /\ queue # <<>>
    /\ Len(log) < 2 * MaxPackets
    /\ IF is_open
       THEN /\ disk' = [disk EXCEPT ![fname] = @ \o queue]
            /\ log' = log \o Entries(queue)
       ELSE UNCHANGED <<disk, log>>
    /\ pc' = "loop"
    /\ UNCHANGED <<shared, fntime, is_open>>

Write ==
    /\ pc = "pop"
    /\ queue # <<>>
    /\ queue' = <<>>
    /\ IF is_open
       THEN /\ disk' = [disk EXCEPT ![fname] = @ \o queue]
            /\ log' = log \o Entries(queue)
       ELSE UNCHANGED <<disk, log>>
    /\ pc' = "loop"
    /\ UNCHANGED <<setup, pushed, dropped, helper, logging_active,
                   keep_alive, now, stops, fntime, is_open>>

(* While logging is off the queue is emptied.                              *)
Clear ==
    /\ pc = "off"
    /\ queue' = <<>>
    /\ pc' = "top"
    /\ UNCHANGED <<setup, pushed, dropped, helper, logging_active,
                   keep_alive, now, stops, files>>

Logger == Peek \/ Top \/ OpenFile \/ Test \/ Write \/ Clear

Next ==
    \/ Helper
    \/ start_logging \/ stop_logging \/ stop_threads
    \/ Tick
    \/ Logger

Spec == Init /\ [][Next]_vars

--------------------------------------------------------------------------
(* Properties.                                                             *)

(* Packets are written in the order they were pushed, and none twice, over *)
(* all files, rollovers, stops and restarts.                               *)
WrittenInOrder ==
    \A i, j \in DOMAIN log : i < j => log[i].packet < log[j].packet

(* Between two packets next to each other in a file only those are missing *)
(* that the full queue dropped while the logger was behind.                *)
FilesHaveNoGaps ==
    \A name \in Names : \A i \in 1..(Len(disk[name]) - 1) :
        /\ disk[name][i] < disk[name][i + 1]
        /\ (disk[name][i] + 1)..(disk[name][i + 1] - 1) \subseteq dropped

(* An entry of the log is in the file it was written to.                   *)
InItsFile(entry) ==
    \E k \in DOMAIN disk[fname_str(entry.file)] :
        disk[fname_str(entry.file)][k] = entry.packet

(* A rollover loses nothing: while logging was never stopped every packet  *)
(* pushed is queued, written or was dropped by the full queue, and what    *)
(* was written is in its file unless the file's name came round again.     *)
NothingLostUnlessStopped ==
    (stops = 0 /\ openable) =>
        /\ \A i \in DOMAIN log :
              InItsFile(log[i]) \/ CameAgain(log[i].file, now)
        /\ \A n \in 1..pushed :
              \/ n \in dropped
              \/ \E i \in DOMAIN queue : queue[i] = n
              \/ \E i \in DOMAIN log : log[i].packet = n

(* A file is not written past its window: while one is open its rollover   *)
(* time is ahead of the second it was opened, by one window at most.       *)
FileWindow ==
    fntime # NoFile =>
        /\ fntime.fname_time < fntime.rollover
        /\ fntime.rollover
              <= fntime.fname_time + ChosenRollover(RolloverMin) * Minute
==========================================================================
