--------------------------- MODULE SensorQueue ---------------------------
(* The threads that take from the queue of one sensor of InterfaceHelper:  *)
(* its CSV logger (InterfaceHelper::_run_csv_logger_thread), the           *)
(* application in get_latest_data, and, for the inertial sensors BNO and   *)
(* BNR, the thread that keeps their state (_run_thread_bno_state_buffer).  *)
(*                                                                         *)
(* Records are numbered as they are pushed.  Files are left out but for    *)
(* the end of a window, which may come at any time; shared pointers and    *)
(* flags are read and written in one step.                                 *)
EXTENDS Integers, Sequences

CONSTANTS
    Sensors,        \* which queues: "pts", "bno" or "bnr"
    QueueLength,    \* m_length of the queue (1000 in the code)
    MaxRecords      \* bound: records pushed

ASSUME SensorsAssumption == Sensors \subseteq {"pts", "bno", "bnr"}
ASSUME QueueAssumption == QueueLength \in Nat \ {0}
ASSUME BoundsAssumption == MaxRecords \in Nat

None == 0           \* a null pointer, a state never set

VARIABLES
    sensor,         \* the sensor this is
    queue,          \* queue[LOGGER_QUEUE[L]]
    pushed,
    keep_alive,
    logger_active,
    logger_running,
    logger,         \* where the logger thread is
    latest_data,    \* the newest record the logger has had
    state,          \* where the state thread is
    bno_state,      \* the newest record latest_bno_state has had
    app,            \* where the application is
    ptr,            \* what it read from latest_data
    late_steals     \* history: batches the application took from the queue
                    \* while it could have had latest_data

flags == <<sensor, pushed, keep_alive, logger_active>>
logging == <<logger_running, logger, latest_data>>
keeping == <<state, bno_state>>
calling == <<app, ptr, late_steals>>
vars == <<flags, queue, logging, keeping, calling>>

Record == 1..MaxRecords

TypeOK ==
    /\ sensor \in Sensors
    /\ queue \in Seq(Record) /\ Len(queue) <= QueueLength
    /\ pushed \in 0..MaxRecords
    /\ {keep_alive, logger_active, logger_running} \subseteq BOOLEAN
    /\ logger \in {"start", "top", "loop", "pop", "off", "popoff", "exited"}
    /\ {latest_data, bno_state, ptr} \subseteq Record \cup {None}
    /\ state \in {"top", "pop", "exited"}
    /\ app \in {"idle", "look", "pop"}
    /\ late_steals \in Nat
    /\ Len(queue) > 0 => queue[Len(queue)] = pushed

Init ==
    /\ sensor \in Sensors
    /\ queue = <<>>
    /\ pushed = 0
    /\ keep_alive = TRUE
    /\ logger_active \in BOOLEAN
    /\ logger_running = FALSE
    /\ logger = "start"
    /\ latest_data = None
    /\ state = "top"
    /\ bno_state = None
    /\ app = "idle"
    /\ ptr = None
    /\ late_steals = 0

Back == queue[Len(queue)]

--------------------------------------------------------------------------
(* The socket thread, and the calls that set flags.                        *)

(* A full queue drops its oldest record.                                   *)
PushRecord ==
    /\ pushed < MaxRecords
    /\ pushed' = pushed + 1
    /\ LET q == Append(queue, pushed + 1)
       IN  queue' = IF Len(q) > QueueLength THEN Tail(q) ELSE q
    /\ UNCHANGED <<sensor, keep_alive, logger_active, logging, keeping,
                   calling>>

start_logging ==
    /\ logger_active' = TRUE
    /\ UNCHANGED <<sensor, pushed, keep_alive, queue, logging, keeping,
                   calling>>

stop_logging ==
    /\ logger_active' = FALSE
    /\ UNCHANGED <<sensor, pushed, keep_alive, queue, logging, keeping,
                   calling>>

stop_threads ==
    /\ keep_alive' = FALSE
    /\ UNCHANGED <<sensor, pushed, logger_active, queue, logging, keeping,
                   calling>>

--------------------------------------------------------------------------
(* The logger thread.                                                      *)

LoggerStart ==
    /\ logger = "start"
    /\ logger_running' = TRUE
    /\ logger' = "top"
    /\ UNCHANGED <<flags, queue, latest_data, keeping, calling>>

(* A thread that ends resets the flag of the PTS logger, whichever it is.  *)
LoggerTop ==
    /\ logger = "top"
    /\ IF keep_alive
       THEN /\ logger' = IF logger_active THEN "loop" ELSE "off"
            /\ UNCHANGED logger_running
       ELSE /\ logger' = "exited"
            /\ logger_running' = (logger_running /\ sensor # "pts")
    /\ UNCHANGED <<flags, queue, latest_data, keeping, calling>>

(* The inner loop ends when its flags say so, or at a rollover.            *)
LoggerLoop ==
    /\ logger = "loop"
    /\ \/ keep_alive /\ logger_active /\ logger' = "pop"
       \/ logger' = "top"
    /\ UNCHANGED <<flags, queue, logger_running, latest_data, keeping,
                   calling>>

(* pop_all with a timeout.                                                 *)
LoggerWrite ==
    /\ logger = "pop"
    /\ IF queue # <<>>
       THEN latest_data' = Back /\ queue' = <<>>
       ELSE UNCHANGED <<latest_data, queue>>
    /\ logger' = "loop"
    /\ UNCHANGED <<flags, logger_running, keeping, calling>>

(* While logging is off: size(), and then pop_all without a timeout.       *)
LoggerOff ==
    /\ logger = "off"
    /\ logger' = IF queue # <<>> THEN "popoff" ELSE "top"
    /\ UNCHANGED <<flags, queue, logger_running, latest_data, keeping,
                   calling>>

LoggerDrop ==
    /\ logger = "popoff"
    /\ queue # <<>>
    /\ latest_data' = Back
    /\ queue' = <<>>
    /\ logger' = "top"
    /\ UNCHANGED <<flags, logger_running, keeping, calling>>

Logger ==
    \/ LoggerStart \/ LoggerTop \/ LoggerLoop \/ LoggerWrite
    \/ LoggerOff \/ LoggerDrop

--------------------------------------------------------------------------
(* The state thread: BNO records are awaited with a timeout, for BNR       *)
(* records the size is looked at first and pop_all waits for ever.  The    *)
(* code does the two in turn in one thread.                                *)

Newer(n) == IF n > bno_state THEN n ELSE bno_state

KeepStateLeavesRest ==      \* mutant: only the newest record is removed
    /\ queue # <<>>
    /\ bno_state' = Newer(Back)
    /\ queue' = SubSeq(queue, 1, Len(queue) - 1)

KeepState ==
    /\ queue # <<>>
    /\ bno_state' = Newer(Back)
    /\ queue' = <<>>

StateTopIgnoresStop ==      \* mutant: keep_alive is not looked at
    /\ sensor # "pts"
    /\ state = "top"
    /\ IF sensor = "bno" /\ queue # <<>>
       THEN KeepState /\ UNCHANGED state
       ELSE /\ state' = IF sensor = "bnr" /\ queue # <<>> THEN "pop" ELSE "top"
            /\ UNCHANGED <<queue, bno_state>>
    /\ UNCHANGED <<flags, logging, calling>>

StateTop ==
    /\ sensor # "pts"
    /\ state = "top"
    /\ \/ /\ ~keep_alive
          /\ state' = "exited"
          /\ UNCHANGED <<queue, bno_state>>
       \/ /\ keep_alive
          /\ sensor = "bno"
          /\ KeepState
          /\ UNCHANGED state
       \/ /\ keep_alive
          /\ sensor = "bnr"
          /\ queue # <<>>
          /\ state' = "pop"
          /\ UNCHANGED <<queue, bno_state>>
    /\ UNCHANGED <<flags, logging, calling>>

StatePop ==
    /\ state = "pop"
    /\ KeepState
    /\ state' = "top"
    /\ UNCHANGED <<flags, logging, calling>>

State == StateTop \/ StatePop

--------------------------------------------------------------------------
(* The application in get_latest_data.                                     *)

ReadLatest ==
    /\ app = "idle"
    /\ ptr' = latest_data
    /\ app' = "look"
    /\ UNCHANGED <<flags, queue, logging, keeping, late_steals>>

LookAlwaysAtQueue ==        \* mutant: the queue is preferred to latest_data
    /\ app = "look"
    /\ app' = IF queue # <<>> THEN "pop" ELSE "idle"
    /\ ptr' = None
    /\ UNCHANGED <<flags, queue, logging, keeping, late_steals>>

(* It returns what it read if the logger is running; otherwise it looks at *)
(* the size of the queue, and then waits in pop_all.                       *)
Look ==
    /\ app = "look"
    /\ app' = IF ~(logger_running /\ ptr # None) /\ queue # <<>>
              THEN "pop" ELSE "idle"
    /\ ptr' = None
    /\ UNCHANGED <<flags, queue, logging, keeping, late_steals>>

PopLatest ==
    /\ app = "pop"
    /\ queue # <<>>
    /\ queue' = <<>>
    /\ app' = "idle"
    /\ late_steals' = IF keep_alive /\ latest_data # None
                      THEN late_steals + 1 ELSE late_steals
    /\ UNCHANGED <<flags, logging, keeping, ptr>>

Application == ReadLatest \/ Look \/ PopLatest

Next ==
    \/ PushRecord \/ start_logging \/ stop_logging \/ stop_threads
    \/ Logger \/ State \/ Application

Spec == Init /\ [][Next]_vars

(* Every thread runs, and the application finishes a call it has begun.    *)
FairSpec == Spec /\ WF_vars(Logger) /\ WF_vars(State)
                 /\ WF_vars(Look \/ PopLatest)

--------------------------------------------------------------------------
(* Properties.                                                             *)

(* The application takes records away from the logger until the logger has *)
(* had one, and after that with the one call at most that was in progress. *)
AtMostOneLateSteal == late_steals <= 1

(* Whoever waits for a record without a timeout, because another thread    *)
(* took what size() had seen, waits until one comes; nothing else holds up *)
(* the call, or the threads once they are stopped.                         *)
EndsUnlessStarved ==
    /\ app # "idle" ~> (app = "idle" \/ [](app = "pop" /\ queue = <<>>))
    /\ ~keep_alive ~> (\/ logger = "exited"
                       \/ [](logger = "popoff" /\ queue = <<>>))
    /\ (~keep_alive /\ sensor # "pts")
           ~> (state = "exited" \/ [](state = "pop" /\ queue = <<>>))
==========================================================================
