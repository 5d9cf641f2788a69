------------------------- MODULE LifecycleProofs -------------------------
(* What has ended when InterfaceHelper::stop_threads has returned, proved  *)
(* for every combination of enabled threads.  The argument: a thread joined *)
(* stays ended; the helper thread is among those joined, or was never      *)
(* created, so nobody feeds an FFT thread that starts after stop_threads   *)
(* looked for it; and a socket thread in recv says that it runs until it   *)
(* is cancelled.                                                           *)
EXTENDS Lifecycle, TLAPS

Place == {"new", "first", "loop", "wait", "ended", "undefined"}

(* stop_threads has joined the threads it created, and then has dealt with *)
(* the FFT thread, and with the socket.                                    *)
JoinedAll == app \in {"join_fft", "stop_socket", "try_join", "try_again",
                      "stopped"}
FftDone == app \in {"stop_socket", "try_join", "try_again", "stopped"}
SocketTold == app \in {"try_join", "try_again", "stopped"}

Types ==
    /\ enabled \subseteq Threads
    /\ at \in Nat \ {0}
    /\ pc \in [Threads -> Place]
    /\ fft_running \in BOOLEAN
    /\ fft_running <=> fft \in {"first", "loop"}
    /\ app = "run" => \A i \in 1..Len(Order) :
                        at <= i /\ Order[i] = "fft" => fft = "new"

(* A thread that is not enabled is never created; those joined have ended. *)
Joined ==
    /\ \A t \in Threads \ enabled : pc[t] = "new"
    /\ \A i \in 1..Len(Order) :
          /\ Order[i] \in enabled
          /\ JoinedAll \/ (app = "join" /\ i < at)
          => pc[Order[i]] = "ended"

(* The helper thread passes packets on only to an FFT thread that runs.    *)
Unfed ==
    /\ fft \in {"new", "start"} => "fft_in" \notin data
    /\ FftDone => fft # "loop"
    /\ FftDone /\ fft = "first" => "fft_in" \notin data

SocketParts ==
    /\ socket \in {"connect", "recv"} => socket_running \/ cancelled
    /\ SocketTold => ~socket_keep_alive
    /\ app = "stopped" /\ socket = "recv" => cancelled

IInv == Types /\ Joined /\ Unfed /\ SocketParts

LEMMA Lengths == Len(Order) = 8
BY DEF Order

LEMMA OneFft ==
    \A i, j \in 1..Len(Order) : Order[i] = "fft" /\ Order[j] = "fft" => i = j
BY Lengths DEF Order

LEMMA InThreads ==
    ASSUME NEW t \in Threads PROVE \E i \in 1..Len(Order) : Order[i] = t
BY DEF Threads

LEMMA HelperInThreads == "aco_helper" \in Threads
<1>1. 1 \in 1..Len(Order) /\ Order[1] = "aco_helper"
  BY Lengths DEF Order
<1> QED BY <1>1 DEF Threads

(* Every thread has ended or was never created once all are joined.        *)
LEMMA AllEnded ==
    ASSUME Types, Joined, JoinedAll, NEW t \in Threads
    PROVE  pc[t] \in {"new", "ended"} /\ (t \in enabled => pc[t] = "ended")
<1>1. PICK i \in 1..Len(Order) : Order[i] = t
  BY InThreads
<1>2. CASE t \in enabled
  BY <1>1, <1>2 DEF Joined
<1>3. CASE t \notin enabled
  BY <1>3 DEF Joined
<1> QED BY <1>2, <1>3

(* What a step of a joined thread can change: its own place, and data that *)
(* hold a packet for the FFT thread only if the helper saw that one run.   *)
LEMMA ThreadStep ==
    ASSUME NEW t \in Threads, Thread(t)
    PROVE  /\ pc[t] \in {"first", "loop", "wait"}
           /\ \E p \in Place : pc' = [pc EXCEPT ![t] = p]
           /\ "fft_in" \in data' => "fft_in" \in data \/ fft_running
           /\ UNCHANGED <<enabled, application, fftVars, socketVars>>
<1>1. CASE First(t)
  BY <1>1 DEF First, Step, Place, After
<1>2. CASE End(t)
  BY <1>2 DEF End, Step, Place
<1>3. CASE t = "aco_helper" /\ HelperTurn
  <2>1. PICK out \in Forwarded :
           Step("aco_helper", "loop", (data \ {"aco"}) \cup out)
    BY <1>3 DEF HelperTurn
  <2>2. "fft_in" \in out => fft_running
    BY DEF Forwarded
  <2> QED BY <1>3, <2>1, <2>2 DEF HelperTurn, Step, Place
<1>4. CASE Turn(t)
  BY <1>4 DEF Turn, Step, Place
<1>5. CASE WaitEnds(t)
  BY <1>5 DEF WaitEnds, Step, Place, After
<1> QED BY <1>1, <1>2, <1>3, <1>4, <1>5 DEF Thread

LEMMA ThreadKeeps ==
    ASSUME IInv, NEW t \in Threads, Thread(t) PROVE IInv'
<1> USE DEF application, fftVars, socketVars
<1>1. /\ pc[t] \in {"first", "loop", "wait"}
      /\ "fft_in" \in data' => "fft_in" \in data \/ fft_running
      /\ UNCHANGED <<enabled, application, fftVars, socketVars>>
  BY ThreadStep
<1>2. PICK p \in Place : pc' = [pc EXCEPT ![t] = p]
  BY ThreadStep
<1>3. Types'
  BY <1>1, <1>2 DEF IInv, Types
<1>4. ~JoinedAll
  BY <1>1, AllEnded DEF IInv
<1>5. Joined'
  <2>1. ASSUME NEW u \in Threads, u \notin enabled PROVE pc'[u] = "new"
    BY <1>1, <1>2, <2>1 DEF IInv, Types, Joined
  <2>2. ASSUME NEW i \in 1..Len(Order), Order[i] \in enabled,
               app = "join", i < at
        PROVE  pc'[Order[i]] = "ended"
    <3>1. pc[Order[i]] = "ended" /\ Order[i] \in Threads
      BY <2>2 DEF IInv, Types, Joined
    <3> QED BY <1>1, <1>2, <3>1 DEF IInv, Types
  <2> QED BY <1>1, <1>4, <2>1, <2>2 DEF Joined, JoinedAll
<1>6. Unfed'
  BY <1>1, <1>4 DEF IInv, Types, Unfed, FftDone, JoinedAll
<1>7. SocketParts'
  BY <1>1 DEF IInv, SocketParts, SocketTold
<1> QED BY <1>3, <1>5, <1>6, <1>7 DEF IInv

LEMMA CreateKeeps == ASSUME IInv, CreateThread PROVE IInv'
<1> USE DEF fftVars, socketVars
<1>1. app = "run" /\ app' = "run" /\ at' = at + 1 /\ UNCHANGED enabled
  BY DEF CreateThread
<1>2. UNCHANGED <<fft_running, data, socket, socket_running, cancelled,
                  socket_keep_alive>>
  BY DEF CreateThread
<1>3. pc' = pc \/ (Order[at] \in enabled
                      /\ pc' = [pc EXCEPT ![Order[at]] = Begin(Order[at])])
  BY DEF CreateThread
<1>4. Begin(Order[at]) \in Place
  BY DEF Begin, Place
<1>5. pc' \in [Threads -> Place] /\ \A u \in Threads \ enabled : pc'[u] = pc[u]
  BY <1>3, <1>4 DEF IInv, Types
<1>6. at \in 1..Len(Order)
  BY Lengths DEF CreateThread, IInv, Types
<1>7. CASE fft' = fft
  <2>1. Types'
    BY <1>1, <1>2, <1>5, <1>7, Lengths DEF IInv, Types
  <2> QED
    BY <1>1, <1>2, <1>5, <1>7, <2>1
    DEF IInv, Joined, JoinedAll, Unfed, FftDone, SocketParts, SocketTold
<1>8. CASE fft' = "start" /\ Order[at] = "fft" /\ at \in 1..Len(Order)
  <2>1. fft = "new"
    BY <1>1, <1>8, Lengths DEF IInv, Types
  <2>2. \A i \in 1..Len(Order) : at' <= i => Order[i] # "fft"
    BY <1>1, <1>8, OneFft, Lengths DEF IInv, Types
  <2>3. Types'
    BY <1>1, <1>2, <1>5, <1>8, <2>1, <2>2 DEF IInv, Types
  <2> QED
    BY <1>1, <1>2, <1>5, <1>8, <2>1, <2>3
    DEF IInv, Joined, JoinedAll, Unfed, FftDone, SocketParts, SocketTold
<1>9. fft' = fft \/ (fft' = "start" /\ Order[at] = "fft")
  BY DEF CreateThread
<1> QED BY <1>6, <1>7, <1>8, <1>9

LEMMA StartAndStopKeep ==
    ASSUME IInv, run_socket_thread \/ stop_threads PROVE IInv'
<1> USE DEF fftVars, socketVars
<1>1. CASE run_socket_thread
  BY <1>1, Lengths
  DEF run_socket_thread, IInv, Types, Joined, JoinedAll, Unfed, FftDone,
      SocketParts, SocketTold
<1>2. CASE stop_threads
  BY <1>2, Lengths
  DEF stop_threads, IInv, Types, Joined, JoinedAll, Unfed, FftDone,
      SocketParts, SocketTold
<1> QED BY <1>1, <1>2

LEMMA JoinKeeps == ASSUME IInv, Join PROVE IInv'
<1> USE DEF Join, fftVars, socketVars
<1>1. Types'
  BY DEF IInv, Types
<1>2. ASSUME NEW i \in 1..Len(Order), i < at', Order[i] \in enabled
      PROVE  pc[Order[i]] = "ended"
  <2>1. i < at \/ i = at
    BY <1>2, Lengths DEF IInv, Types
  <2> QED BY <1>2, <2>1 DEF IInv, Joined
<1>3. Joined'
  BY <1>2 DEF IInv, Joined, JoinedAll
<1> QED
  BY <1>1, <1>3 DEF IInv, Unfed, FftDone, SocketParts, SocketTold

(* The FFT thread runs and is waited for, or has ended, or has not started *)
(* and has no packet.                                                      *)
LEMMA FftStopsKeep == ASSUME IInv, StopFft \/ JoinFft PROVE IInv'
<1> USE DEF fftVars, socketVars
<1>1. CASE StopFft
  <2>1. app' = IF fft_running THEN "join_fft" ELSE "stop_socket"
    BY <1>1 DEF StopFft
  <2>2. \A i \in 1..Len(Order) : Order[i] \in enabled => pc[Order[i]] = "ended"
    BY <1>1, Lengths DEF StopFft, IInv, Types, Joined
  <2>3. Types' /\ Joined'
    BY <1>1, <2>1, <2>2 DEF StopFft, IInv, Types, Joined
  <2>4. Unfed'
    BY <1>1, <2>1 DEF StopFft, IInv, Types, Unfed, FftDone
  <2>5. SocketParts'
    BY <1>1, <2>1 DEF StopFft, IInv, SocketParts, SocketTold
  <2> QED BY <2>3, <2>4, <2>5 DEF IInv
<1>2. CASE JoinFft
  BY <1>2
  DEF JoinFft, IInv, Types, Joined, JoinedAll, Unfed, FftDone, SocketParts,
      SocketTold
<1> QED BY <1>1, <1>2

LEMMA SocketStopsKeep ==
    ASSUME IInv, StopSocket \/ TryJoin \/ TryAgain PROVE IInv'
<1> USE DEF fftVars, socketVars, IInv, Types, Joined, JoinedAll, Unfed, FftDone,
            SocketParts, SocketTold
<1>1. CASE StopSocket
  BY <1>1 DEF StopSocket
<1>2. CASE TryJoin
  BY <1>2 DEF TryJoin
<1>3. CASE TryAgain
  BY <1>3 DEF TryAgain
<1> QED BY <1>1, <1>2, <1>3

LEMMA SocketKeeps ==
    ASSUME IInv, Socket \/ Connect \/ \E q \in FromSocket : Recv(q)
    PROVE  IInv'
<1> USE DEF application, fftVars, socketVars, IInv, Types, Joined, JoinedAll,
            Unfed, FftDone, SocketParts, SocketTold, SocketEnds
<1>1. CASE SocketStart
  BY <1>1 DEF SocketStart
<1>2. CASE SocketGivesUp
  BY <1>2 DEF SocketGivesUp
<1>3. CASE SocketCancelled
  BY <1>3 DEF SocketCancelled
<1>4. CASE Connect
  BY <1>4 DEF Connect
<1>5. ASSUME NEW q \in FromSocket, Recv(q) PROVE IInv'
  BY <1>5 DEF Recv, FromSocket
<1> QED BY <1>1, <1>2, <1>3, <1>4, <1>5 DEF Socket

LEMMA FftKeeps == ASSUME IInv, Fft \/ Detect PROVE IInv'
<1> USE DEF application, fftVars, socketVars, IInv, Types, Joined, JoinedAll,
            Unfed, FftDone, SocketParts, SocketTold
<1>1. CASE FftStart
  BY <1>1 DEF FftStart
<1>2. CASE FftFirst
  BY <1>2 DEF FftFirst
<1>3. CASE FftTurn
  BY <1>3 DEF FftTurn, FftClients
<1>4. CASE FftEnd
  BY <1>4 DEF FftEnd
<1>5. CASE Detect
  BY <1>5 DEF Detect
<1> QED BY <1>1, <1>2, <1>3, <1>4, <1>5 DEF Fft

LEMMA NextKeeps == ASSUME IInv, [Next]_vars PROVE IInv'
<1>1. CASE UNCHANGED vars
  BY <1>1
  DEF vars, application, fftVars, socketVars, IInv, Types, Joined, JoinedAll,
      Unfed, FftDone, SocketParts, SocketTold
<1>2. CASE Next
  BY <1>2, CreateKeeps, StartAndStopKeep, JoinKeeps, FftStopsKeep,
     SocketStopsKeep, SocketKeeps, FftKeeps, ThreadKeeps
  DEF Next, Stopping
<1> QED BY <1>1, <1>2

LEMMA InitHolds == ASSUME Init PROVE IInv
<1>1. enabled \subseteq Threads
  BY ConfigurationsAssumption DEF Init, MayBeEnabled
<1>2. app = "run" /\ at = 1 /\ fft = "new" /\ fft_running = FALSE /\ data = {}
  BY DEF Init
<1>3. pc = [t \in Threads |-> "new"] /\ socket = "new"
  BY DEF Init
<1>4. Types
  <2>1. pc \in [Threads -> Place]
    BY <1>3 DEF Place
  <2>2. fft_running \in BOOLEAN /\ ~fft_running
    BY <1>2
  <2>3. fft_running <=> fft \in {"first", "loop"}
    BY <1>2, <2>2
  <2>4. at \in Nat \ {0}
    BY <1>2
  <2> QED BY <1>1, <1>2, <2>1, <2>2, <2>3, <2>4 DEF Types
<1>5. Joined
  BY <1>2, <1>3 DEF Joined, JoinedAll
<1>6. Unfed /\ SocketParts
  BY <1>2, <1>3 DEF Unfed, FftDone, SocketParts, SocketTold
<1> QED BY <1>4, <1>5, <1>6 DEF IInv

(* When InterfaceHelper::stop_threads has returned, every thread it joins  *)
(* has ended, whatever combination was enabled; the FFT thread handles no  *)
(* data, also when it was created but had not yet set _is_running; and a   *)
(* socket thread that still waits in recv has been cancelled.              *)
THEOREM StoppedThreadsHaveEnded == Spec => []EndedOnceStopped
<1>1. IInv => EndedOnceStopped
  <2> SUFFICES ASSUME IInv, app = "stopped" PROVE EndedOnceStopped
    BY DEF EndedOnceStopped
  <2>1. \A t \in enabled : pc[t] = "ended"
    BY AllEnded DEF IInv, Types, JoinedAll
  <2> QED BY <2>1 DEF EndedOnceStopped, IInv, Unfed, FftDone, SocketParts
<1> QED BY <1>1, InitHolds, NextKeeps, PTL DEF Spec

--------------------------------------------------------------------------
(* Types.                                                                  *)

Queues == {Queue[t] : t \in Threads \cup {"fft"}} \cup {"detect_in"}

(* What the invariant above leaves open.                                   *)
AppTypes ==
    /\ enabled \in Configurations
    /\ app \in {"run", "running", "join", "join_fft", "stop_socket",
                "try_join", "try_again", "stopped"}
    /\ at \in 1..(Len(Order) + 1)

FlagTypes ==
    {keep_alive, fft_keep_alive, socket_keep_alive, cancelled} \subseteq BOOLEAN

(* A thread is cancelled when it has run, and then no longer says it does. *)
PlaceTypes ==
    /\ fft \in {"new", "start", "first", "loop", "ended"}
    /\ socket \in {"new", "start", "connect", "recv", "ended"}
    /\ socket_running => socket \in {"connect", "recv"}
    /\ app = "run" => socket = "new"
    /\ (app \in {"try_join", "try_again"} \/ cancelled) =>
          socket \in {"connect", "recv", "ended"}
    /\ cancelled => ~socket_running

DataTypes == data \subseteq Queues

LEMMA QueueNames ==
    /\ \A t \in Threads \cup {"fft"} : Queue[t] \in Queues
    /\ {"aco", "fft_out", "beam2d", "detect", "bnr", "aco_log", "fft_in",
        "detect_in"} \subseteq Queues
<1>1. {"aco_helper", "fft_buffer", "cbf_buffer", "detections", "bno_state",
       "aco_logger", "sensor_logger"} \subseteq Threads
  <2>1. /\ Order[1] = "aco_helper" /\ Order[2] = "fft_buffer"
        /\ Order[3] = "cbf_buffer" /\ Order[4] = "detections"
        /\ Order[6] = "bno_state" /\ Order[7] = "aco_logger"
        /\ Order[8] = "sensor_logger"
    BY DEF Order
  <2>2. {1, 2, 3, 4, 6, 7, 8} \subseteq 1..Len(Order)
    BY Lengths
  <2> QED BY <2>1, <2>2 DEF Threads
<1>2. \A t \in Threads \cup {"fft"} : Queue[t] \in Queues
  BY DEF Queues
<1>3. "detect_in" \in Queues
  BY DEF Queues
<1>4. /\ Queue["aco_helper"] = "aco" /\ Queue["fft_buffer"] = "fft_out"
      /\ Queue["cbf_buffer"] = "beam2d" /\ Queue["detections"] = "detect"
      /\ Queue["bno_state"] = "bnr" /\ Queue["aco_logger"] = "aco_log"
      /\ Queue["fft"] = "fft_in"
  BY DEF Queue
<1> QED BY <1>1, <1>2, <1>3, <1>4

LEMMA ThreadTypes ==
    ASSUME DataTypes, NEW t \in Threads, Thread(t)
    PROVE  DataTypes'
<1>1. CASE First(t)
  BY <1>1 DEF First, Step, After, DataTypes
<1>2. CASE End(t)
  BY <1>2 DEF End, Step, DataTypes
<1>3. CASE HelperTurn
  <2>1. PICK out \in Forwarded :
           Step("aco_helper", "loop", (data \ {"aco"}) \cup out)
    BY <1>3 DEF HelperTurn
  <2>2. out \subseteq Queues
    BY QueueNames DEF Forwarded
  <2> QED BY <2>1, <2>2 DEF Step, DataTypes
<1>4. CASE Turn(t)
  BY <1>4 DEF Turn, Step, DataTypes
<1>5. CASE WaitEnds(t)
  BY <1>5 DEF WaitEnds, Step, After, DataTypes
<1> QED BY <1>1, <1>2, <1>3, <1>4, <1>5 DEF Thread

LEMMA NextTypes ==
    ASSUME AppTypes, FlagTypes, PlaceTypes, DataTypes, [Next]_vars
    PROVE  AppTypes' /\ FlagTypes' /\ PlaceTypes' /\ DataTypes'
<1> USE DEF application, fftVars, socketVars
<1>1. CASE CreateThread
  <2>1. at' \in 1..(Len(Order) + 1)
    BY <1>1, Lengths DEF CreateThread, AppTypes
  <2> QED
    BY <1>1, <2>1
    DEF CreateThread, AppTypes, FlagTypes, PlaceTypes, DataTypes
<1>2. CASE run_socket_thread \/ stop_threads
  <2>1. at' \in 1..(Len(Order) + 1)
    BY <1>2, Lengths DEF run_socket_thread, stop_threads, AppTypes
  <2>2. FlagTypes'
    BY <1>2 DEF run_socket_thread, stop_threads, FlagTypes
  <2>3. socket_running' => socket' \in {"connect", "recv"}
    BY <1>2 DEF run_socket_thread, stop_threads, PlaceTypes
  <2> QED
    BY <1>2, <2>1, <2>2, <2>3
    DEF run_socket_thread, stop_threads, AppTypes, PlaceTypes, DataTypes
<1>3. CASE Stopping
  <2>1. at' \in 1..(Len(Order) + 1)
    BY <1>3, Lengths
    DEF Stopping, Join, StopFft, JoinFft, StopSocket, TryJoin, TryAgain,
        AppTypes
  <2>2. FlagTypes'
    BY <1>3
    DEF Stopping, Join, StopFft, JoinFft, StopSocket, TryJoin, TryAgain,
        FlagTypes
  <2> QED
    BY <1>3, <2>1, <2>2
    DEF Stopping, Join, StopFft, JoinFft, StopSocket, TryJoin, TryAgain,
        AppTypes, PlaceTypes, DataTypes
<1>4. CASE Socket \/ Connect
  <2> USE DEF AppTypes, FlagTypes, PlaceTypes, DataTypes
  <2>1. CASE SocketStart
    BY <2>1 DEF SocketStart
  <2>2. CASE SocketGivesUp
    BY <2>2 DEF SocketGivesUp, SocketEnds
  <2>3. CASE SocketCancelled
    BY <2>3 DEF SocketCancelled
  <2>4. CASE Connect
    BY <2>4 DEF Connect
  <2> QED BY <1>4, <2>1, <2>2, <2>3, <2>4 DEF Socket
<1>5. ASSUME NEW q \in FromSocket, Recv(q)
      PROVE  AppTypes' /\ FlagTypes' /\ PlaceTypes' /\ DataTypes'
  <2>1. DataTypes'
    BY <1>5, QueueNames DEF Recv, FromSocket, DataTypes
  <2> QED
    BY <1>5, <2>1 DEF Recv, SocketEnds, AppTypes, FlagTypes, PlaceTypes
<1>6. CASE Fft \/ Detect
  <2>1. DataTypes'
    BY <1>6, QueueNames
    DEF Fft, FftStart, FftFirst, FftTurn, FftEnd, FftClients, Detect, DataTypes
  <2> QED
    BY <1>6, <2>1
    DEF Fft, FftStart, FftFirst, FftTurn, FftEnd, Detect, AppTypes, FlagTypes,
        PlaceTypes
<1>7. ASSUME NEW t \in Threads, Thread(t)
      PROVE  AppTypes' /\ FlagTypes' /\ PlaceTypes' /\ DataTypes'
  <2>1. UNCHANGED <<enabled, application, fftVars, socketVars>>
    BY <1>7, ThreadStep
  <2> QED
    BY <1>7, <2>1, ThreadTypes DEF AppTypes, FlagTypes, PlaceTypes
<1>8. CASE UNCHANGED vars
  BY <1>8 DEF vars, AppTypes, FlagTypes, PlaceTypes, DataTypes
<1> QED
  BY <1>1, <1>2, <1>3, <1>4, <1>5, <1>6, <1>7, <1>8 DEF Next

(* Every variable keeps its type; the FFT thread says that it runs exactly *)
(* while it takes packets, and the socket thread only while it connects or *)
(* receives.                                                               *)
THEOREM LifecycleTypes == Spec => []TypeOK
<1> DEFINE Inv == AppTypes /\ FlagTypes /\ PlaceTypes /\ DataTypes
<1>1. Init => Inv
  <2>1. Init => AppTypes
    BY Lengths DEF Init, AppTypes
  <2> QED BY <2>1 DEF Init, FlagTypes, PlaceTypes, DataTypes
<1>2. Inv /\ [Next]_vars => Inv'
  BY NextTypes
<1>3. IInv /\ Inv => TypeOK
  BY DEF IInv, Types, Place, AppTypes, FlagTypes, PlaceTypes, DataTypes, Queues,
         TypeOK
<1> HIDE DEF Inv
<1> QED BY <1>1, <1>2, <1>3, InitHolds, NextKeeps, PTL DEF Spec
==========================================================================
