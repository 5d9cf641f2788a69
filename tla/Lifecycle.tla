---------------------------- MODULE Lifecycle ----------------------------
(* How the threads of an InterfaceHelper begin and end: run_threads and    *)
(* stop_threads (utils/InterfaceHelper.cpp), QueueClient::stop, FFT::run   *)
(* and UdpSocketIn's thread and stop, with the threads that are joined     *)
(* while data still flow from the socket through the queues to them.       *)
(*                                                                         *)
(* Of a queue the model keeps whether it is empty; the modules of the      *)
(* single threads say what is done with the data.  One socket stands for   *)
(* all, and "aco_logger" and "sensor_logger" each for their kind.  Of the  *)
(* detector's own thread, which only its destructor stops and nobody waits *)
(* for here, there are just the turns.                                     *)
EXTENDS Integers, Sequences

CONSTANTS
    Configurations      \* the sets of threads that may be enabled

(* The order run_threads creates and stop_threads joins them in; the FFT   *)
(* thread is not in the list threads.                                      *)
Order == <<"aco_helper", "fft_buffer", "cbf_buffer", "detections", "fft",
           "bno_state", "aco_logger", "sensor_logger">>

Threads == {Order[i] : i \in 1..Len(Order)} \ {"fft"}

(* enable_logger enables the helper thread with an acoustic logger; the    *)
(* thread that keeps the BNO state is always created.                      *)
MayBeEnabled(c) ==
    /\ c \subseteq Threads
    /\ "bno_state" \in c
    /\ "aco_logger" \in c => "aco_helper" \in c

ASSUME ConfigurationsAssumption == \A c \in Configurations : MayBeEnabled(c)

Queue == [aco_helper |-> "aco", fft_buffer |-> "fft_out",
          cbf_buffer |-> "beam2d", detections |-> "detect",
          bno_state |-> "bnr", aco_logger |-> "aco_log",
          sensor_logger |-> "bnr", fft |-> "fft_in"]

FromSocket == {"aco", "beam2d", "bnr"}

VARIABLES
    enabled,            \* enable_thread_..., logger_enabled
    app,                \* where the application is
    at,                 \* ... and at which thread of Order
    keep_alive,
    pc,                 \* where the threads are
    fft,                \* where the FFT thread is
    fft_keep_alive,
    fft_running,        \* its _is_running
    socket,             \* where the socket thread is
    socket_keep_alive,
    socket_running,     \* its _is_running
    cancelled,          \* has pthread_cancel been called for it?
    data                \* the queues that hold something

application == <<app, at, keep_alive>>
fftVars == <<fft, fft_keep_alive, fft_running>>
socketVars == <<socket, socket_keep_alive, socket_running, cancelled>>
vars == <<enabled, application, pc, fftVars, socketVars, data>>

FftNeeded == enabled \cap {"fft_buffer", "detections"} # {}

TypeOK ==
    /\ enabled \in Configurations
    /\ app \in {"run", "running", "join", "join_fft", "stop_socket",
                "try_join", "try_again", "stopped"}
    /\ at \in 1..(Len(Order) + 1)
    /\ pc \in [Threads -> {"new", "first", "loop", "wait", "ended",
                           "undefined"}]
    /\ fft \in {"new", "start", "first", "loop", "ended"}
    /\ socket \in {"new", "start", "connect", "recv", "ended"}
    /\ {keep_alive, fft_keep_alive, socket_keep_alive, cancelled}
          \subseteq BOOLEAN
    /\ fft_running <=> fft \in {"first", "loop"}
    /\ socket_running => socket \in {"connect", "recv"}
    /\ data \subseteq {Queue[t] : t \in Threads \cup {"fft"}} \cup {"detect_in"}

Init ==
    /\ enabled \in Configurations
    /\ app = "run"
    /\ at = 1
    /\ keep_alive = TRUE
    /\ pc = [t \in Threads |-> "new"]
    /\ fft = "new"
    /\ fft_keep_alive = TRUE
    /\ fft_running = FALSE
    /\ socket = "new"
    /\ socket_keep_alive = TRUE
    /\ socket_running = FALSE
    /\ cancelled = FALSE
    /\ data = {}

--------------------------------------------------------------------------
(* The application: run_threads, and some time after it stop_threads.      *)

(* Some threads begin with a loop that awaits the first item.              *)
Begin(t) == IF t \in {"aco_helper", "fft_buffer", "cbf_buffer", "aco_logger"}
            THEN "first" ELSE "loop"

CreateThread ==
    /\ app = "run"
    /\ at <= Len(Order)
    /\ at' = at + 1
    /\ LET t == Order[at]
       IN  /\ pc' = IF t \in enabled THEN [pc EXCEPT ![t] = Begin(t)] ELSE pc
           /\ fft' = IF t = "fft" /\ FftNeeded THEN "start" ELSE fft
    /\ UNCHANGED <<enabled, app, keep_alive, fft_keep_alive, fft_running,
                   socketVars, data>>

run_socket_thread ==
    /\ app = "run"
    /\ at > Len(Order)
    /\ socket' = "start"
    /\ app' = "running"
    /\ UNCHANGED <<enabled, at, keep_alive, pc, fftVars, socket_keep_alive,
                   socket_running, cancelled, data>>

StopSocketsToo ==           \* mutant: the sockets are told to stop first
    /\ app = "running"
    /\ keep_alive' = FALSE
    /\ socket_keep_alive' = FALSE
    /\ app' = "join"
    /\ at' = 1
    /\ UNCHANGED <<enabled, pc, fftVars, socket, socket_running, cancelled,
                   data>>

stop_threads ==
    /\ app = "running"
    /\ keep_alive' = FALSE
    /\ app' = "join"
    /\ at' = 1
    /\ UNCHANGED <<enabled, pc, fftVars, socketVars, data>>

Join ==
    /\ app = "join"
    /\ at <= Len(Order)
    /\ Order[at] \in enabled => pc[Order[at]] = "ended"
    /\ at' = at + 1
    /\ UNCHANGED <<enabled, app, keep_alive, pc, fftVars, socketVars, data>>

(* The FFT thread is stopped and joined if it has said that it runs.       *)
StopFft ==
    /\ app = "join"
    /\ at > Len(Order)
    /\ fft_keep_alive' = (fft_keep_alive /\ ~fft_running)
    /\ app' = IF fft_running THEN "join_fft" ELSE "stop_socket"
    /\ UNCHANGED <<enabled, at, keep_alive, pc, fft, fft_running, socketVars,
                   data>>

JoinFft ==
    /\ app = "join_fft"
    /\ fft = "ended"
    /\ app' = "stop_socket"
    /\ UNCHANGED <<enabled, at, keep_alive, pc, fftVars, socketVars, data>>

StopSocket ==
    /\ app = "stop_socket"
    /\ socket_keep_alive' = FALSE
    /\ app' = IF socket_running THEN "try_join" ELSE "stopped"
    /\ UNCHANGED <<enabled, at, keep_alive, pc, fftVars, socket,
                   socket_running, cancelled, data>>

TryJoin ==
    /\ app = "try_join"
    /\ app' = IF socket = "ended" THEN "stopped" ELSE "try_again"
    /\ UNCHANGED <<enabled, at, keep_alive, pc, fftVars, socketVars, data>>

TryAgainWithoutCancel ==    \* mutant: a hanging thread is left alone
    /\ app = "try_again"
    /\ app' = "stopped"
    /\ UNCHANGED <<enabled, at, keep_alive, pc, fftVars, socketVars, data>>

(* Two seconds later a thread that has not ended is cancelled.             *)
TryAgain ==
    /\ app = "try_again"
    /\ app' = "stopped"
    /\ IF socket = "ended"
       THEN UNCHANGED <<cancelled, socket_running>>
       ELSE cancelled' = TRUE /\ socket_running' = FALSE
    /\ UNCHANGED <<enabled, at, keep_alive, pc, fftVars, socket,
                   socket_keep_alive, data>>

Stopping ==
    \/ Join \/ StopFft \/ JoinFft \/ StopSocket \/ TryJoin \/ TryAgain

--------------------------------------------------------------------------
(* The socket thread.                                                      *)

SocketStart ==
    /\ socket = "start"
    /\ socket_running' = TRUE
    /\ socket' = "connect"
    /\ UNCHANGED <<enabled, application, pc, fftVars, socket_keep_alive,
                   cancelled, data>>

SocketEnds == socket' = "ended" /\ socket_running' = FALSE

(* configure_socket; when it fails it is tried again, without end since    *)
(* retry_counter is never increased, for as long as keep_alive is set.     *)
Connect ==
    /\ socket = "connect"
    /\ socket_keep_alive
    /\ socket' = "recv"
    /\ UNCHANGED <<enabled, application, pc, fftVars, socket_keep_alive,
                   socket_running, cancelled, data>>

SocketGivesUp ==
    /\ socket = "connect"
    /\ ~socket_keep_alive
    /\ SocketEnds
    /\ UNCHANGED <<enabled, application, pc, fftVars, socket_keep_alive,
                   cancelled, data>>

(* recv waits for a message and the message is pushed to its queue; then   *)
(* keep_alive is looked at.                                                *)
Recv(q) ==
    /\ socket = "recv"
    /\ data' = data \cup {q}
    /\ IF socket_keep_alive
       THEN UNCHANGED <<socket, socket_running>>
       ELSE SocketEnds
    /\ UNCHANGED <<enabled, application, pc, fftVars, socket_keep_alive,
                   cancelled>>

(* A cancelled thread ends in recv, or in the pause between two attempts   *)
(* to connect.                                                             *)
SocketCancelled ==
    /\ cancelled
    /\ socket \in {"connect", "recv"}
    /\ socket' = "ended"
    /\ UNCHANGED <<enabled, application, pc, fftVars, socket_keep_alive,
                   socket_running, cancelled, data>>

Socket == SocketStart \/ SocketGivesUp \/ SocketCancelled

--------------------------------------------------------------------------
(* The FFT thread.                                                         *)

FftStart ==
    /\ fft = "start"
    /\ fft' = "first"
    /\ fft_running' = TRUE
    /\ UNCHANGED <<enabled, application, pc, fft_keep_alive, socketVars, data>>

(* The first packet is waited for without a timeout.                       *)
FftFirst ==
    /\ fft = "first"
    /\ "fft_in" \in data
    /\ data' \in {data, data \ {"fft_in"}}
    /\ fft' = "loop"
    /\ UNCHANGED <<enabled, application, pc, fft_keep_alive, fft_running,
                   socketVars>>

(* The queues a frame goes to, by register_client in run_threads.          *)
FftClients ==
    {q \in {"fft_out", "detect_in"} :
        IF q = "fft_out" THEN "fft_buffer" \in enabled
                         ELSE "detections" \in enabled}

(* A turn takes up to ten packets and emits the frames the buffer holds.   *)
FftTurn ==
    /\ fft = "loop"
    /\ fft_keep_alive
    /\ \E taken \in SUBSET {"fft_in"}, out \in {{}, FftClients} :
          data' = (data \ taken) \cup out
    /\ UNCHANGED <<enabled, application, pc, fftVars, socketVars>>

FftEndsSilently ==          \* mutant: _is_running is not reset
    /\ fft = "loop"
    /\ ~fft_keep_alive
    /\ fft' = "ended"
    /\ UNCHANGED <<enabled, application, pc, fft_keep_alive, fft_running,
                   socketVars, data>>

FftEnd ==
    /\ fft = "loop"
    /\ ~fft_keep_alive
    /\ fft' = "ended"
    /\ fft_running' = FALSE
    /\ UNCHANGED <<enabled, application, pc, fft_keep_alive, socketVars, data>>

Fft == FftStart \/ FftFirst \/ FftTurn \/ FftEnd

(* The detector makes detections of the frames; stop_threads does not stop *)
(* its thread.                                                             *)
Detect ==
    /\ "detect_in" \in data
    /\ \E taken \in SUBSET {"detect_in"} :
          data' = (data \ taken) \cup {"detect"}
    /\ UNCHANGED <<enabled, application, pc, fftVars, socketVars>>

--------------------------------------------------------------------------
(* The threads that stop_threads joins.                                    *)

Holds(t) == Queue[t] \in data

(* What is left after t has taken something: pop may leave items behind.   *)
After(t) == {data \ {Queue[t]}} \cup
            (IF t \in {"aco_helper", "fft_buffer", "cbf_buffer"}
             THEN {data} ELSE {})

Step(t, next, left) ==
    /\ pc' = [pc EXCEPT ![t] = next]
    /\ data' = left
    /\ UNCHANGED <<enabled, application, fftVars, socketVars>>

(* The loop before the first item.  The helper and the beamformer thread   *)
(* go on to use that item also when they are stopped without one.          *)
First(t) ==
    /\ pc[t] = "first"
    /\ \/ /\ keep_alive
          /\ Holds(t)
          /\ \E left \in (IF t = "aco_logger" THEN {data} ELSE After(t)) :
                Step(t, "loop", left)
       \/ /\ ~keep_alive
          /\ Step(t, IF t \in {"aco_helper", "cbf_buffer"}
                     THEN "undefined" ELSE "ended", data)

End(t) ==
    /\ pc[t] = "loop"
    /\ ~keep_alive
    /\ Step(t, "ended", data)

(* The helper hands what it takes to the FFT thread, if that runs, and to  *)
(* a logger that is active.                                                *)
Forwarded ==
    {(IF fft_running THEN {"fft_in"} ELSE {}) \cup out :
        out \in {{}, IF "aco_logger" \in enabled THEN {"aco_log"} ELSE {}}}

HelperTurn ==
    /\ pc["aco_helper"] = "loop"
    /\ keep_alive
    /\ Holds("aco_helper")
    /\ \E out \in Forwarded :
          Step("aco_helper", "loop", (data \ {"aco"}) \cup out)

(* The others take what there is, or wait without a timeout: after a reply *)
(* for the next packet, in an open file for data, and where size() was     *)
(* looked at for what it saw.                                              *)
Turn(t) ==
    /\ t # "aco_helper"
    /\ pc[t] = "loop"
    /\ keep_alive
    /\ \/ Holds(t) /\ Step(t, "loop", data \ {Queue[t]})
       \/ /\ t \in {"fft_buffer", "cbf_buffer"}
          /\ \E left \in {data, data \ {Queue[t]}} : Step(t, "wait", left)
       \/ /\ t = "aco_logger"
          /\ Step(t, "wait", data)
       \/ /\ t \in {"bno_state", "sensor_logger"}
          /\ Holds(t)
          /\ Step(t, "wait", data)

WaitEnds(t) ==
    /\ pc[t] = "wait"
    /\ Holds(t)
    /\ \E left \in After(t) : Step(t, "loop", left)

Thread(t) ==
    \/ First(t)
    \/ End(t)
    \/ t = "aco_helper" /\ HelperTurn
    \/ Turn(t)
    \/ WaitEnds(t)

Next ==
    \/ CreateThread \/ run_socket_thread \/ stop_threads \/ Stopping
    \/ Socket
    \/ Connect
    \/ \E q \in FromSocket : Recv(q)
    \/ Fft
    \/ Detect
    \/ \E t \in Threads : Thread(t)

Spec == Init /\ [][Next]_vars

(* Threads run, a call that has begun goes on, and the device keeps        *)
(* sending messages of every kind.                                         *)
FairSpec ==
    /\ Spec
    /\ WF_vars(Stopping)
    /\ WF_vars(Socket)
    /\ WF_vars(Fft)
    /\ \A q \in FromSocket : WF_vars(Recv(q))
    /\ \A t \in Threads : WF_vars(Thread(t))

--------------------------------------------------------------------------
(* Properties.                                                             *)

(* When stop_threads has returned no thread handles data any more: those   *)
(* joined have ended, the FFT thread has ended unless it never had a       *)
(* packet, and a socket thread still in recv has been cancelled.           *)
EndedOnceStopped ==
    app = "stopped" =>
        /\ \A t \in enabled : pc[t] = "ended"
        /\ fft # "loop"
        /\ socket = "recv" => cancelled

(* The threads that live on what the helper thread passes on.              *)
WaitsForHelper ==
    \/ pc["aco_logger"] = "wait" /\ "aco_log" \notin data
    \/ pc["fft_buffer"] = "wait" /\ "fft_out" \notin data
    \/ fft = "first" /\ "fft_in" \notin data

(* stop_threads returns, because the sockets are stopped last and go on    *)
(* feeding the threads it waits for.  It does not only if one of them      *)
(* waits for data that came through the helper thread, which has ended, or *)
(* if a thread that never had data goes on without.                        *)
StopReturns ==
    app = "join" ~>
        \/ app = "stopped"
        \/ \E t \in {"aco_helper", "cbf_buffer"} : pc[t] = "undefined"
        \/ [](app \in {"join", "join_fft"} /\ WaitsForHelper)
==========================================================================
