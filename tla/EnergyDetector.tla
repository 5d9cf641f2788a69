------------------------- MODULE EnergyDetector --------------------------
(* The energy detector thread (utils/EnergyDetector.cpp) and the calls     *)
(* that change sample rate, FFT size and frequency bands while it runs     *)
(* (utils/FreqDomainBase.cpp, and InterfaceHelper, which changes the FFT   *)
(* first and the detector after it).  Nothing is locked but the queue.     *)
(*                                                                         *)
(* Frames are numbered by the FFT.  Of the moving averages the model keeps *)
(* the bins they were started from, of a detection whether it compares     *)
(* what can be compared; the energies are left out.  One thread at a time  *)
(* changes parameters.                                                     *)
EXTENDS FreqDomainBase, Sequences

CONSTANTS
    Sizes,          \* values of NFFT
    Rates,          \* sample rates
    Bands,          \* bands the application asks for, as [low, high]
    Widths,         \* bands it asks for, as [center, width]
    QueueLength,    \* m_length of q_fft (1000 in the code)
    MaxFrames,      \* bound: frames
    MaxChanges      \* bound: calls that change parameters

ASSUME SizesAssumption == Sizes \subseteq Nat \ {0, 1} /\ Sizes # {}
ASSUME RatesAssumption == Rates \subseteq Nat \ {0}
ASSUME BandsAssumption ==
    /\ Bands \subseteq [low : Nat, high : Nat]
    /\ Widths \subseteq [center : Nat, width : Nat]
ASSUME QueueAssumption == QueueLength \in Nat \ {0}
ASSUME BoundsAssumption == MaxFrames \in Nat /\ MaxChanges \in Nat

VARIABLES
    fft_NFFT,               \* NFFT of the FFT thread
    queue,                  \* q_fft: frames as [packet, nfreq]
    pushed,                 \* frames made
    dropped,                \* history: packets of frames the full queue dropped
    keep_alive,
    sample_rate, NFFT,      \* of the detector, with the next three
    frequency_bands,
    active_frequencies,
    rx_runtime_update,      \* _rx_runtime_update
    caller,                 \* where the thread that changes parameters is
    pending,                \* bins it has still to push to active_frequencies
    changes,                \* calls so far
    pc,                     \* where the detector thread is
    batch,                  \* new_packets not dealt with
    in_hand,                \* the frame fft_buffer_in was made from
    columns,                \* the bins fft_buffer was made from
    averages,               \* [state, bins]: were they started, and from what
    detections,             \* q_detect of a client
    overlap, lost, resized  \* histories, see the actions

parameters == <<sample_rate, NFFT, frequency_bands>>
changing == <<caller, pending, changes>>
shared == <<active_frequencies, rx_runtime_update>>
input == <<fft_NFFT, queue, pushed, dropped, keep_alive>>
working == <<pc, batch, in_hand, columns, averages, detections>>
histories == <<overlap, lost, resized>>
vars == <<input, parameters, shared, changing, working, histories>>

Bins == UNION {0..(nfreq(n) - 1) : n \in Sizes}
Frames == [packet : 1..MaxFrames, nfreq : {nfreq(n) : n \in Sizes}]
NoFrame == [packet |-> 0, nfreq |-> 0]
Verdicts == {"none", "sound", "stale", "undefined"}
Unstarted == [state |-> "unstarted", bins |-> {}]
Garbage == [state |-> "garbage", bins |-> {}]

TypeOK ==
    /\ fft_NFFT \in Sizes /\ NFFT \in Sizes
    /\ {queue[i] : i \in DOMAIN queue} \cup {batch[i] : i \in DOMAIN batch}
          \subseteq Frames
    /\ Len(queue) <= QueueLength
    /\ pushed \in 0..MaxFrames /\ dropped \subseteq 1..pushed
    /\ changes \in 0..MaxChanges
    /\ sample_rate \in Rates \cup {0}
    /\ \A band \in frequency_bands : band \in Nat \X Nat
    /\ {active_frequencies, pending, columns} \subseteq SUBSET Bins
    /\ caller \in {"idle", "resize", "clear", "fill", "flag"}
    /\ caller \in {"idle", "resize", "clear", "flag"} => pending = {}
    /\ pc \in {"rate", "first", "loop", "started", "restart", "reset", "get",
               "frame", "detect", "exited"}
    /\ in_hand \in Frames \cup {NoFrame}
    /\ averages.state \in {"unstarted", "running", "garbage"}
    /\ \A i \in DOMAIN detections : detections[i].verdict \in Verdicts
    /\ {keep_alive, rx_runtime_update, overlap, lost, resized}
          \subseteq BOOLEAN
    /\ pc \notin {"rate", "first", "exited"} => in_hand # NoFrame
    /\ batch # <<>> => pc \in {"frame", "detect"}

Init ==
    /\ fft_NFFT \in Sizes /\ NFFT = fft_NFFT
    /\ queue = <<>> /\ pushed = 0 /\ dropped = {}
    /\ keep_alive = TRUE
    /\ sample_rate = 0
    /\ frequency_bands = {} /\ active_frequencies = {}
    /\ rx_runtime_update = TRUE
    /\ caller = "idle" /\ pending = {} /\ changes = 0
    /\ pc = "rate"
    /\ batch = <<>> /\ in_hand = NoFrame /\ columns = {}
    /\ averages = Unstarted
    /\ detections = <<>>
    /\ overlap = FALSE /\ lost = FALSE /\ resized = FALSE

--------------------------------------------------------------------------
(* Around the detector.                                                    *)

(* A full queue drops its oldest frame.                                    *)
Enqueue(frame) ==
    LET q == Append(queue, frame)
    IN  IF Len(q) > QueueLength
        THEN /\ queue' = Tail(q)
             /\ dropped' = dropped \cup {Head(q).packet}
        ELSE queue' = q /\ UNCHANGED dropped

(* resized: a frame has another size than the detector's bins are of.      *)
PushFrame ==
    /\ pushed < MaxFrames
    /\ pushed' = pushed + 1
    /\ Enqueue([packet |-> pushed + 1, nfreq |-> nfreq(fft_NFFT)])
    /\ resized' = \/ resized
                  \/ \E k \in active_frequencies : k >= nfreq(fft_NFFT)
    /\ UNCHANGED <<fft_NFFT, keep_alive, parameters, shared, changing,
                   working, overlap, lost>>

stop ==
    /\ keep_alive' = FALSE
    /\ UNCHANGED <<fft_NFFT, queue, pushed, dropped, parameters, shared,
                   changing, working, histories>>

--------------------------------------------------------------------------
(* Changes of the parameters.                                              *)

(* Between two looks at _rx_runtime_update: the detector restarts its      *)
(* averages, waits for frames, or works on those it got.                   *)
Working ==
    pc \in {"started", "restart", "reset", "get", "frame", "detect"}

Call ==
    /\ caller = "idle"
    /\ changes < MaxChanges
    /\ changes' = changes + 1

set_sample_rate ==
    /\ Call
    /\ \E rate \in Rates \ {sample_rate} : sample_rate' = rate
    /\ caller' = "clear"
    /\ UNCHANGED <<input, NFFT, frequency_bands, shared, pending, working,
                   histories>>

(* InterfaceHelper::set_NFFT, the FFT first.                               *)
set_NFFT ==
    /\ Call
    /\ \E n \in Sizes \ {fft_NFFT} : fft_NFFT' = n
    /\ caller' = "resize"
    /\ resized' = (resized \/ pushed > 0)
    /\ UNCHANGED <<queue, pushed, dropped, keep_alive, parameters, shared,
                   pending, working, overlap, lost>>

set_NFFT_detector ==
    /\ caller = "resize"
    /\ NFFT' = fft_NFFT
    /\ caller' = "clear"
    /\ UNCHANGED <<input, sample_rate, frequency_bands, shared, pending,
                   changes, working, histories>>

(* Nothing the detector uses changes, but the bins are computed again.     *)
set_noverlap ==
    /\ Call
    /\ caller' = "clear"
    /\ UNCHANGED <<input, parameters, shared, pending, working, histories>>

(* What the calls that name a band add.                                    *)
NewBands ==
    {MinMaxBand(b.low, b.high) : b \in Bands}
        \cup {CenterBand(w.center, w.width) : w \in Widths}

(* add_frequency_band_min_max, add_frequency_band_center.                  *)
add_frequency_band ==
    /\ Call
    /\ \E new \in NewBands :
        /\ frequency_bands' = frequency_bands \cup new
        /\ caller' = IF new = {} THEN "idle" ELSE "clear"
    /\ UNCHANGED <<input, sample_rate, NFFT, shared, pending, working,
                   histories>>

(* No call of recompute_frequencies: what is active stays active.          *)
clear_frequency_bands ==
    /\ Call
    /\ frequency_bands' = {}
    /\ UNCHANGED <<input, sample_rate, NFFT, shared, caller, pending,
                   working, histories>>

(* reset_frequency_band_min_max, reset_frequency_band_center.              *)
reset_frequency_band ==
    /\ Call
    /\ frequency_bands' \in NewBands
    /\ caller' = IF frequency_bands' = {} THEN "idle" ELSE "clear"
    /\ UNCHANGED <<input, sample_rate, NFFT, shared, pending, working,
                   histories>>

(* recompute_frequencies, from here to FlagUpdate: the vector is cleared,  *)
(* refilled in ascending order, and only then is the flag set.             *)
ClearActive ==
    /\ caller = "clear"
    /\ active_frequencies' = {}
    /\ pending' = ActiveBins(frequency_bands, NFFT, sample_rate)
    /\ caller' = IF pending' = {} THEN "flag" ELSE "fill"
    /\ overlap' = (overlap \/ Working)
    /\ UNCHANGED <<input, parameters, rx_runtime_update, changes, working,
                   lost, resized>>

PushActive ==
    /\ caller = "fill"
    /\ \E k \in pending :
        /\ \A j \in pending : k <= j
        /\ active_frequencies' = active_frequencies \cup {k}
        /\ pending' = pending \ {k}
    /\ caller' = IF pending' = {} THEN "flag" ELSE "fill"
    /\ overlap' = (overlap \/ Working)
    /\ UNCHANGED <<input, parameters, rx_runtime_update, changes, working,
                   lost, resized>>

FlagForgotten ==            \* mutant: recomputing does not set the flag
    /\ caller = "flag"
    /\ caller' = "idle"
    /\ overlap' = (overlap \/ Working)
    /\ UNCHANGED <<input, parameters, shared, pending, changes, working,
                   lost, resized>>

(* lost: the flag was set between the detector's look at the bins and its  *)
(* own reset of the flag.                                                  *)
FlagUpdate ==
    /\ caller = "flag"
    /\ rx_runtime_update' = TRUE
    /\ caller' = "idle"
    /\ lost' = (lost \/ pc \in {"restart", "reset"})
    /\ overlap' = (overlap \/ Working)
    /\ UNCHANGED <<input, parameters, active_frequencies, pending, changes,
                   working, resized>>

Caller ==
    \/ set_NFFT_detector
    \/ ClearActive \/ PushActive \/ FlagUpdate

--------------------------------------------------------------------------
(* The detector thread.                                                    *)

(* overlap: bins were changed while the detector worked, or it began to    *)
(* work while they were.                                                   *)
Begin == overlap' = (overlap \/ caller \in {"fill", "flag"})

WaitRate ==
    /\ pc = "rate"
    /\ sample_rate > 0 \/ ~keep_alive
    /\ pc' = "first"
    /\ UNCHANGED <<input, parameters, shared, changing, batch, in_hand,
                   columns, averages, detections, histories>>

(* The first frame is looked at, not taken.                                *)
First ==
    /\ pc = "first"
    /\ IF keep_alive
       THEN /\ queue # <<>>
            /\ in_hand' = Head(queue)
            /\ rx_runtime_update' = TRUE
            /\ pc' = "loop"
       ELSE pc' = "exited" /\ UNCHANGED <<in_hand, rx_runtime_update>>
    /\ UNCHANGED <<input, parameters, active_frequencies, changing, batch,
                   columns, averages, detections, histories>>

LoopForgetsUpdate ==        \* mutant: the flag is not looked at any more
    /\ pc = "loop"
    /\ pc' = IF ~keep_alive THEN "exited"
             ELSE IF averages = Unstarted THEN "started" ELSE "get"
    /\ UNCHANGED <<input, parameters, shared, changing, batch, in_hand,
                   columns, averages, detections, histories>>

Loop ==
    /\ pc = "loop"
    /\ pc' = IF ~keep_alive THEN "exited"
             ELSE IF rx_runtime_update THEN "started" ELSE "get"
    /\ UNCHANGED <<input, parameters, shared, changing, batch, in_hand,
                   columns, averages, detections, histories>>

(* The active columns of the frame in hand.                                *)
SelectColumns(frame, next) ==
    /\ columns' = active_frequencies
    /\ in_hand' = frame
    /\ pc' = next

InRange == \A k \in columns : k < in_hand.nfreq

StartUpdate ==
    /\ pc = "started"
    /\ SelectColumns(in_hand, "restart")
    /\ Begin
    /\ UNCHANGED <<input, parameters, shared, changing, batch, averages,
                   detections, lost, resized>>

(* The averages start from the frame in hand, if bins are active now.      *)
Restart ==
    /\ pc = "restart"
    /\ averages' =
          IF active_frequencies = {} THEN averages
          ELSE IF columns # {} /\ InRange
               THEN [state |-> "running", bins |-> columns] ELSE Garbage
    /\ pc' = "reset"
    /\ UNCHANGED <<input, parameters, shared, changing, batch, in_hand,
                   columns, detections, histories>>

ResetUpdate ==
    /\ pc = "reset"
    /\ rx_runtime_update' = FALSE
    /\ pc' = "get"
    /\ UNCHANGED <<input, parameters, active_frequencies, changing, batch,
                   in_hand, columns, averages, detections, histories>>

(* pop_all with a timeout.                                                 *)
Get ==
    /\ pc = "get"
    /\ batch' = queue
    /\ queue' = <<>>
    /\ pc' = IF queue = <<>> THEN "loop" ELSE "frame"
    /\ UNCHANGED <<fft_NFFT, pushed, dropped, keep_alive, parameters,
                   shared, changing, in_hand, columns, averages, detections,
                   histories>>

NextFrame ==
    /\ pc = "frame"
    /\ IF batch = <<>>
       THEN pc' = "loop" /\ UNCHANGED <<columns, in_hand, overlap>>
       ELSE SelectColumns(Head(batch), "detect") /\ Begin
    /\ UNCHANGED <<input, parameters, shared, changing, batch, averages,
                   detections, lost, resized>>

(* Averages never started are empty arrays, an empty maximum and a column  *)
(* that is not there have no value.                                        *)
Verdict ==
    IF active_frequencies = {} THEN "none"
    ELSE IF columns = {} \/ ~InRange \/ averages.state # "running"
         THEN "undefined"
    ELSE IF averages.bins = columns THEN "sound" ELSE "stale"

DetectNonemptyOnly ==       \* mutant: a frame without active bins is skipped
    /\ pc = "detect"
    /\ detections' =
          IF Verdict = "none" THEN detections
          ELSE Append(detections, [packet |-> in_hand.packet,
                                   verdict |-> Verdict])
    /\ averages' = IF Verdict = "undefined" THEN Garbage ELSE averages
    /\ batch' = Tail(batch)
    /\ pc' = "frame"
    /\ UNCHANGED <<input, parameters, shared, changing, in_hand, columns,
                   histories>>

DetectKeepsBatch ==         \* mutant: the frames dealt with are kept
    /\ pc = "detect"
    /\ detections' = Append(detections, [packet |-> in_hand.packet,
                                         verdict |-> Verdict])
    /\ averages' = IF Verdict = "undefined" THEN Garbage ELSE averages
    /\ pc' = "loop"
    /\ UNCHANGED <<input, parameters, shared, changing, batch, in_hand,
                   columns, histories>>

Detect ==
    /\ pc = "detect"
    /\ detections' = Append(detections, [packet |-> in_hand.packet,
                                         verdict |-> Verdict])
    /\ averages' = IF Verdict = "undefined" THEN Garbage ELSE averages
    /\ batch' = Tail(batch)
    /\ pc' = "frame"
    /\ UNCHANGED <<input, parameters, shared, changing, in_hand, columns,
                   histories>>

Detector ==
    \/ WaitRate \/ First \/ Loop
    \/ StartUpdate \/ Restart \/ ResetUpdate
    \/ Get \/ NextFrame \/ Detect

--------------------------------------------------------------------------
Next ==
    \/ PushFrame \/ stop
    \/ set_sample_rate \/ set_NFFT \/ set_noverlap \/ add_frequency_band
    \/ clear_frequency_bands \/ reset_frequency_band
    \/ Caller
    \/ Detector

Spec == Init /\ [][Next]_vars

--------------------------------------------------------------------------
(* Properties.                                                             *)

Packets(frames) == {frames[i].packet : i \in DOMAIN frames}

(* Every frame gives one detection, in order, with the number of its       *)
(* packet, or is one that the full queue dropped while the detector waited *)
(* for a sample rate or was behind: the frame looked at first is not lost, *)
(* and none is left out because no bin was active.                         *)
OneDetectionPerFrame ==
    /\ \A i, j \in DOMAIN detections :
          i < j => detections[i].packet < detections[j].packet
    /\ 1..pushed = Packets(detections) \cup Packets(batch)
                       \cup Packets(queue) \cup dropped
    /\ Packets(detections) \cap dropped = {}

(* Averages and frame are of the same bins, and all of them exist, unless  *)
(* bins were changed between a look at the flag and the end of the batch   *)
(* taken after it, however long that was waited for, or the FFT size with  *)
(* frames on their way.                                                    *)
SoundUnlessOverlapped ==
    \A i \in DOMAIN detections :
        detections[i].verdict \in {"stale", "undefined"}
            => overlap \/ resized

(* Averages of other bins than the active ones are kept for good only when *)
(* the flag was set while the detector was about to reset it.              *)
StaleOnlyIfFlagLost ==
    (/\ pc \in {"loop", "get"} /\ caller = "idle"
     /\ ~rx_runtime_update /\ active_frequencies # {})
        => \/ lost
           \/ averages.bins = active_frequencies
           \/ averages.state = "garbage"
==========================================================================
