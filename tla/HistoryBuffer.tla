-------------------------- MODULE HistoryBuffer --------------------------
(* The buffer threads of InterfaceHelper                                   *)
(* (utils/InterfaceHelper_buffering.cpp) that keep the newest data for an  *)
(* application: one module for acoustic samples ("aco"), FFT rasters       *)
(* ("fft"), beamformer rasters ("cbf") and detections ("detections"), and  *)
(* the application that asks for them (python/_utils.cpp).                 *)
(*                                                                         *)
(* Columns of data are numbered as they are pushed; a packet is one        *)
(* column.  Where the acoustic packets have many, a trim may cut through a *)
(* packet, here it cuts between two.                                       *)
EXTENDS Integers, Sequences, SequencesExt

CONSTANTS
    Kinds,          \* which threads: "aco", "fft", "cbf", "detections"
    History,        \* history_aco, history_fft
    QueueLength,    \* m_length of the queue that is read
    MaxPackets,     \* bound: packets pushed
    MaxReplies      \* bound: requests made

ASSUME KindsAssumption == Kinds \subseteq {"aco", "fft", "cbf", "detections"}
ASSUME HistoryAssumption == History \in Nat \ {0}
ASSUME QueueAssumption == QueueLength \in Nat \ {0}
ASSUME BoundsAssumption == MaxPackets \in Nat /\ MaxReplies \in Nat

VARIABLES
    kind,           \* the thread this is
    queue,          \* q_aco, q_fft, q_beam2d or q_detect
    pushed,         \* packets pushed to it so far
    lost,           \* history: has it overflowed?
    keep_alive,
    pc,             \* where the buffer thread is
    buffer,         \* data_buffer, fft_buffer, detections
    has_data,       \* buffer_has_data_aco, _fft, _cbf
    requests,       \* length of q_request_aco, _fft, _cbf, _detections
    replies,        \* q_aco_out, q_fft_out, q_cbf_out, q_detections_out
    client,         \* where the application is
    answered        \* history: the replies in the order they were pushed

input == <<kind, queue, pushed, lost, keep_alive>>
thread == <<pc, buffer, has_data>>
talk == <<requests, replies, client, answered>>
vars == <<input, thread, talk>>

Garbage == 0        \* a column read from memory that was freed
Column == 0..MaxPackets

TypeOK ==
    /\ kind \in Kinds
    /\ queue \in Seq(1..MaxPackets) /\ Len(queue) <= QueueLength
    /\ pushed \in 0..MaxPackets
    /\ {lost, keep_alive, has_data} \subseteq BOOLEAN
    /\ pc \in {"first", "top", "request", "flag", "empty", "exited", "crashed"}
    /\ buffer \in Seq(Column)
    /\ requests \in 0..1
    /\ replies \in Seq(Seq(Column)) /\ Len(replies) <= 1
    /\ client \in {"idle", "back", "look", "asking", "waiting"}
    /\ client = "waiting" <=> requests + Len(replies) = 1
    /\ answered \in Seq(Seq(Column)) /\ Len(answered) <= MaxReplies

Init ==
    /\ kind \in Kinds
    /\ queue = <<>>
    /\ pushed = 0
    /\ lost = FALSE
    /\ keep_alive = TRUE
    /\ pc = IF kind = "detections" THEN "top" ELSE "first"
    /\ buffer = <<>>
    /\ has_data = FALSE
    /\ requests = 0
    /\ replies = <<>>
    /\ client = "idle"
    /\ answered = <<>>

--------------------------------------------------------------------------
(* The rest of the library and the application.                            *)

PushPacket ==
    /\ pushed < MaxPackets
    /\ pushed' = pushed + 1
    /\ LET q == Append(queue, pushed + 1)
       IN  IF Len(q) > QueueLength
           THEN queue' = Tail(q) /\ lost' = TRUE
           ELSE queue' = q /\ UNCHANGED lost
    /\ UNCHANGED <<kind, keep_alive, thread, talk>>

stop_threads ==
    /\ keep_alive' = FALSE
    /\ UNCHANGED <<kind, queue, pushed, lost, thread, talk>>

(* get_acoustic_data looks at the newest packet for its time before all    *)
(* else: at the size of the queue, and then in back(), which waits without *)
(* a timeout when the buffer thread has taken the packets.                 *)
SeeQueue ==
    /\ client = "idle"
    /\ kind = "aco"
    /\ Len(answered) < MaxReplies
    /\ client' = IF queue # <<>> THEN "back" ELSE "look"
    /\ UNCHANGED <<input, thread, requests, replies, answered>>

GetBack ==
    /\ client = "back"
    /\ queue # <<>>
    /\ client' = "look"
    /\ UNCHANGED <<input, thread, requests, replies, answered>>

(* get_acoustic_data and its like: look at the flag, ask, wait for the     *)
(* reply.  get_detection_data does not look.                               *)
SeeData ==
    /\ client = IF kind = "aco" THEN "look" ELSE "idle"
    /\ Len(answered) < MaxReplies
    /\ client' = IF has_data \/ kind = "detections" THEN "asking" ELSE "idle"
    /\ UNCHANGED <<input, thread, requests, replies, answered>>

Ask ==
    /\ client = "asking"
    /\ requests' = requests + 1
    /\ client' = "waiting"
    /\ UNCHANGED <<input, thread, replies, answered>>

GetReply ==
    /\ client = "waiting"
    /\ replies # <<>>
    /\ replies' = Tail(replies)
    /\ client' = "idle"
    /\ UNCHANGED <<input, thread, requests, answered>>

--------------------------------------------------------------------------
(* The buffer thread.                                                      *)

(* The first packet fills the buffer but does not set the flag.  A thread  *)
(* stopped before it goes on: the acoustic and the beamformer thread use a *)
(* null pointer, the FFT thread finds that it must end.                    *)
FirstPacket ==
    /\ pc = "first"
    /\ IF keep_alive
       THEN /\ queue # <<>>
            /\ buffer' = <<Head(queue)>>
            /\ queue' = Tail(queue)
            /\ pc' = "top"
       ELSE /\ pc' = IF kind = "fft" THEN "exited" ELSE "crashed"
            /\ UNCHANGED <<queue, buffer>>
    /\ UNCHANGED <<kind, pushed, lost, keep_alive, has_data, talk>>

Oldest(cols, n) ==          \* mutant: the wrong end is kept
    SubSeq(cols, 1, n)

Newest(cols, n) == SubSeq(cols, Len(cols) - n + 1, Len(cols))

(* Beyond twice the history a buffer is cut to it.  The FFT thread assigns *)
(* a block of the matrix to the matrix without eval(): the rows come from  *)
(* memory that the resize has freed.                                       *)
Trimmed(cols) ==
    IF kind # "detections" /\ Len(cols) > 2 * History
    THEN {Newest(cols, History)}
         \cup (IF kind = "fft" THEN {[i \in 1..History |-> Garbage]} ELSE {})
    ELSE {cols}

TakeUntimed ==              \* mutant: pop_all without a timeout
    /\ pc = "top"
    /\ keep_alive
    /\ queue # <<>>
    /\ buffer' \in Trimmed(buffer \o queue)
    /\ queue' = <<>>
    /\ has_data' = (kind # "detections")
    /\ pc' = "request"
    /\ UNCHANGED <<kind, pushed, lost, keep_alive, talk>>

(* pop_all with a timeout.                                                 *)
Take ==
    /\ pc = "top"
    /\ keep_alive
    /\ IF queue # <<>>
       THEN /\ buffer' \in Trimmed(buffer \o queue)
            /\ queue' = <<>>
            /\ has_data' = (kind # "detections")
       ELSE UNCHANGED <<buffer, queue, has_data>>
    /\ pc' = "request"
    /\ UNCHANGED <<kind, pushed, lost, keep_alive, talk>>

Exit ==
    /\ pc = "top"
    /\ ~keep_alive
    /\ pc' = "exited"
    /\ UNCHANGED <<input, buffer, has_data, talk>>

Answer ==
    /\ pc = "request"
    /\ IF requests > 0
       THEN /\ requests' = requests - 1
            /\ replies' = Append(replies, buffer)
            /\ answered' = Append(answered, buffer)
            /\ pc' = "flag"
       ELSE /\ pc' = "top"
            /\ UNCHANGED <<requests, replies, answered>>
    /\ UNCHANGED <<input, buffer, has_data, client>>

ClearFlag ==
    /\ pc = "flag"
    /\ has_data' = FALSE
    /\ pc' = "empty"
    /\ UNCHANGED <<input, buffer, talk>>

WaitsForData == kind \in {"fft", "cbf"}

StartKeepingAll ==          \* mutant: the buffer is not emptied
    /\ pc = "empty"
    /\ pc' = "top"
    /\ UNCHANGED <<input, buffer, has_data, talk>>

StartOverWithoutNext ==     \* mutant: the packet popped is not kept
    /\ pc = "empty"
    /\ WaitsForData => queue # <<>>
    /\ buffer' = <<>>
    /\ queue' = IF WaitsForData THEN Tail(queue) ELSE queue
    /\ pc' = "top"
    /\ UNCHANGED <<kind, pushed, lost, keep_alive, has_data, talk>>

(* The FFT and the beamformer thread start over with the next packet, for  *)
(* which they wait without a timeout; the others with an empty buffer.     *)
StartOver ==
    /\ pc = "empty"
    /\ IF WaitsForData
       THEN /\ queue # <<>>
            /\ buffer' = <<Head(queue)>>
            /\ queue' = Tail(queue)
       ELSE /\ buffer' = <<>>
            /\ UNCHANGED queue
    /\ pc' = "top"
    /\ UNCHANGED <<kind, pushed, lost, keep_alive, has_data, talk>>

Buffer == FirstPacket \/ Take \/ Exit \/ Answer \/ ClearFlag \/ StartOver

Client == SeeQueue \/ GetBack \/ SeeData \/ Ask \/ GetReply

Next == PushPacket \/ stop_threads \/ Client \/ Buffer

Spec == Init /\ [][Next]_vars

(* The thread runs; the application finishes a call it has begun.          *)
FairSpec == Spec /\ WF_vars(Buffer) /\ WF_vars(Ask \/ GetReply)

--------------------------------------------------------------------------
(* Properties.                                                             *)

(* No column is handed out twice, and none after a newer one, whatever is  *)
(* trimmed and however the queue overflows; of the FFT thread, which reads *)
(* freed memory, this cannot be said.                                      *)
HandedInOrder ==
    kind # "fft" =>
        \A i, j \in DOMAIN answered : \A k \in DOMAIN answered[i] :
            \A l \in DOMAIN answered[j] :
                (i < j \/ (i = j /\ k < l)) => answered[i][k] < answered[j][l]

(* Columns are left out for one reason only: a column older than the last  *)
(* one handed out is in a reply, or the first reply with newer ones starts *)
(* after it and holds a whole history.                                     *)
Holds(i, n) == \E k \in DOMAIN answered[i] : answered[i][k] = n
Passes(i, n) == \E k \in DOMAIN answered[i] : answered[i][k] > n
NothingSkipped ==
    (~lost /\ kind # "fft") =>
        \A j \in DOMAIN answered : \A n \in 1..pushed :
            Passes(j, n) =>
                \/ \E i \in 1..j : Holds(i, n)
                \/ \E i \in 1..j :
                      /\ Passes(i, n) /\ \A h \in 1..(i - 1) : ~Passes(h, n)
                      /\ answered[i][1] > n
                      /\ Len(answered[i]) >= History

(* A buffer never holds more than twice the history; the list of           *)
(* detections has no bound.                                                *)
BufferBounded == kind # "detections" => Len(buffer) <= 2 * History

(* As long as the queue does not overflow, socket thread, buffer thread    *)
(* and application are together the FIFO that a queue is: columns are      *)
(* pushed, the oldest may be trimmed away, and the rest reach the          *)
(* application in order, once and without a gap.                           *)
Held == IF pc \in {"flag", "empty"} THEN queue ELSE buffer \o queue
Fifo == INSTANCE LossyFifo WITH
            put <- pushed, gone <- pushed - Len(Held),
            taken <- FlattenSeq(answered)
ImplementsFifo ==
    /\ Fifo!FifoInit
    /\ [][lost' \/ kind = "fft" \/ Fifo!FifoNext]_(Fifo!fifoVars)

(* An application that waits gets its reply without new data having to     *)
(* come, unless the threads are stopped or the thread has just answered    *)
(* and waits for a packet to start over with.                              *)
RequestAnswered ==
    (client = "waiting") ~>
        (\/ client # "waiting"
         \/ ~keep_alive
         \/ WaitsForData /\ [](pc = "empty" /\ queue = <<>>))

(* "use .eval() to prevent aliasing": what is handed out are columns that  *)
(* were pushed.                                                            *)
OnlyPushedColumns ==
    \A i \in DOMAIN answered : \A k \in DOMAIN answered[i] :
        answered[i][k] # Garbage
==========================================================================
