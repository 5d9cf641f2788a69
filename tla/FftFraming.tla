--------------------------- MODULE FftFraming ----------------------------
(* The FFT thread (utils/FFT.cpp): it gathers acoustic packets of any size *)
(* from q_aco into a buffer and cuts the buffer into overlapping windows   *)
(* of NFFT samples, each of which becomes one IpcFFT frame.                *)
(*                                                                         *)
(* Samples are numbered in the order the socket thread pushes them; the    *)
(* number stands for the sample's value and for its timestamp.  The        *)
(* transform itself is not modelled: a frame keeps the samples it is of.   *)
EXTENDS Integers, Sequences

CONSTANTS
    NFFT,           \* window length
    noverlap,       \* samples shared by consecutive windows
    PopLimit,       \* packets taken from q_aco at a time (10 in the code)
    QueueLength,    \* m_length of q_aco (1000 in the code)
    PacketCols,     \* possible numbers of samples in a packet
    SampleRates,    \* possible sample rates
    IntMax,         \* largest packet_num (2^31 - 1 in the code)
    MaxSamples      \* bound: samples ever pushed

ASSUME WindowAssumption == NFFT \in Nat /\ noverlap \in Nat /\ noverlap < NFFT
ASSUME QueueAssumption ==
    /\ PopLimit \in Nat \ {0}
    /\ QueueLength \in Nat \ {0}
    /\ PacketCols \subseteq Nat \ {0}
    /\ SampleRates \subseteq Nat \ {0}
ASSUME BoundsAssumption == IntMax \in Nat /\ MaxSamples \in Nat

VARIABLES
    q_aco,              \* packets not yet taken
    received,           \* samples pushed so far
    lost,               \* has the queue dropped a packet?
    keep_alive,
    pc,                 \* where the FFT thread is
    new_packets,        \* packets taken and not yet copied to the buffer
    data_buffer,        \* the samples gathered and not yet dropped
    data_timestamps,    \* their timestamps
    fs,                 \* rate of the newest packet of this iteration, or -1
    offset,             \* start of the next window in data_buffer
    packet_num,         \* number of the next frame
    frames              \* history: the frames pushed to v_q_fft

intake == <<q_aco, received, lost, keep_alive>>
buffer == <<data_buffer, data_timestamps>>
vars == <<intake, pc, new_packets, buffer, fs, offset, packet_num, frames>>

nstep == NFFT - noverlap

Packet == [first : Nat, cols : PacketCols, sample_rate : SampleRates]
Frame == [start_time : Nat, samples : Seq(Nat), FS : SampleRates \cup {-1},
          packet_num : 0..IntMax]

TypeOK ==
    /\ q_aco \in Seq(Packet)
    /\ received \in Nat
    /\ lost \in BOOLEAN
    /\ keep_alive \in BOOLEAN
    /\ pc \in {"start", "top", "gather", "windows", "exited"}
    /\ new_packets \in Seq(Packet)
    /\ data_buffer \in Seq(Nat)
    /\ data_timestamps \in Seq(Nat)
    /\ fs \in SampleRates \cup {-1}
    /\ offset \in Nat
    /\ packet_num \in 0..IntMax
    /\ frames \in Seq(Frame)

Init ==
    /\ q_aco = <<>>
    /\ received = 0
    /\ lost = FALSE
    /\ keep_alive = TRUE
    /\ pc = "start"
    /\ new_packets = <<>>
    /\ data_buffer = <<>>
    /\ data_timestamps = <<>>
    /\ fs = -1
    /\ offset = 0
    /\ packet_num = 0
    /\ frames = <<>>

--------------------------------------------------------------------------
(* The other threads.                                                      *)

(* The socket thread pushes a packet; a full queue drops its oldest.       *)
PushPacket(n, r) ==
    /\ received + n <= MaxSamples
    /\ received' = received + n
    /\ LET q == Append(q_aco, [first |-> received + 1, cols |-> n,
                               sample_rate |-> r])
       IN  IF Len(q) > QueueLength
           THEN q_aco' = Tail(q) /\ lost' = TRUE
           ELSE q_aco' = q /\ UNCHANGED lost
    /\ UNCHANGED <<keep_alive, pc, new_packets, buffer, fs, offset,
                   packet_num, frames>>

stop ==
    /\ keep_alive' = FALSE
    /\ UNCHANGED <<q_aco, received, lost, pc, new_packets, buffer, fs, offset,
                   packet_num, frames>>

--------------------------------------------------------------------------
(* run_fft_thread.                                                         *)

Samples(p) == [i \in 1..p.cols |-> p.first + i - 1]

Rest(q, n) == SubSeq(q, n + 1, Len(q))

(* Before the loop: a blocking pop of the first packet, whatever           *)
(* keep_alive says.                                                        *)
FirstPacket ==
    /\ pc = "start"
    /\ q_aco # <<>>
    /\ q_aco' = Tail(q_aco)
    /\ data_buffer' = Samples(Head(q_aco))
    /\ data_timestamps' = Samples(Head(q_aco))
    /\ pc' = "top"
    /\ UNCHANGED <<received, lost, keep_alive, new_packets, fs, offset,
                   packet_num, frames>>

(* Top of the loop: take up to PopLimit packets, if there are any.         *)
Take ==
    /\ pc = "top"
    /\ keep_alive
    /\ LET n == IF Len(q_aco) < PopLimit THEN Len(q_aco) ELSE PopLimit
       IN  /\ q_aco' = Rest(q_aco, n)
           /\ new_packets' = SubSeq(q_aco, 1, n)
    /\ fs' = -1
    /\ pc' = "gather"
    /\ UNCHANGED <<received, lost, keep_alive, buffer, offset, packet_num,
                   frames>>

Exit ==
    /\ pc = "top"
    /\ ~keep_alive
    /\ pc' = "exited"
    /\ UNCHANGED <<intake, new_packets, buffer, fs, offset, packet_num,
                   frames>>

Copy ==
    /\ pc = "gather"
    /\ new_packets # <<>>
    /\ data_buffer' = data_buffer \o Samples(Head(new_packets))
    /\ data_timestamps' = data_timestamps \o Samples(Head(new_packets))
    /\ fs' = Head(new_packets).sample_rate
    /\ new_packets' = Tail(new_packets)
    /\ UNCHANGED <<intake, pc, offset, packet_num, frames>>

Look ==
    /\ pc = "gather"
    /\ new_packets = <<>>
    /\ offset' = 0
    /\ pc' = IF Len(data_buffer) >= NFFT THEN "windows" ELSE "top"
    /\ UNCHANGED <<intake, new_packets, buffer, fs, packet_num, frames>>

(* packet_num after the largest int is 0.                                  *)
NumberWithoutWrap(n) == n + 1       \* mutant
NextNumber(n) == IF n = IntMax THEN 0 ELSE n + 1

WindowFits == Len(data_buffer) - offset >= NFFT

(* One pass of the inner loop: a frame from the window at offset.          *)
Window ==
    /\ pc = "windows"
    /\ WindowFits
    /\ frames' = Append(frames,
                    [start_time |-> data_timestamps[offset + 1],
                     samples |-> SubSeq(data_buffer, offset + 1, offset + NFFT),
                     FS |-> fs,
                     packet_num |-> packet_num])
    /\ packet_num' = NextNumber(packet_num)
    /\ offset' = offset + nstep
    /\ UNCHANGED <<intake, pc, new_packets, buffer, fs>>

(* After the inner loop: the samples before offset are dropped.            *)
DropKeepsTimestamps ==      \* mutant: only the samples are dropped
    /\ pc = "windows"
    /\ ~WindowFits
    /\ data_buffer' = Rest(data_buffer, offset)
    /\ pc' = "top"
    /\ UNCHANGED <<intake, new_packets, data_timestamps, fs, offset,
                   packet_num, frames>>

DropAll ==                  \* mutant: the samples of a partial window go too
    /\ pc = "windows"
    /\ ~WindowFits
    /\ data_buffer' = <<>>
    /\ data_timestamps' = <<>>
    /\ pc' = "top"
    /\ UNCHANGED <<intake, new_packets, fs, offset, packet_num, frames>>

Drop ==
    /\ pc = "windows"
    /\ ~WindowFits
    /\ data_buffer' = Rest(data_buffer, offset)
    /\ data_timestamps' = Rest(data_timestamps, offset)
    /\ pc' = "top"
    /\ UNCHANGED <<intake, new_packets, fs, offset, packet_num, frames>>

Fft == FirstPacket \/ Take \/ Exit \/ Copy \/ Look \/ Window \/ Drop

Next ==
    \/ \E n \in PacketCols, r \in SampleRates : PushPacket(n, r)
    \/ stop
    \/ Fft

Spec == Init /\ [][Next]_vars

(* The FFT thread keeps running.                                           *)
FairSpec == Spec /\ WF_vars(Fft)

--------------------------------------------------------------------------
(* Properties.                                                             *)

(* A frame's timestamp is that of its first sample, even after the queue   *)
(* has dropped packets in between.                                         *)
StampedWithFirstSample ==
    \A k \in DOMAIN frames : frames[k].start_time = frames[k].samples[1]

(* However the samples come in packets and the packets in batches, frame k *)
(* is window k of the stream: it starts nstep samples after the one before *)
(* and its samples follow each other without a gap.                        *)
FramesTileTheStream ==
    ~lost =>
        /\ frames # <<>> => frames[1].samples[1] = 1
        /\ \A k \in 1..(Len(frames) - 1) :
              frames[k + 1].samples[1] = frames[k].samples[1] + nstep
        /\ \A k \in DOMAIN frames :
              frames[k].samples = [i \in 1..NFFT |-> frames[k].samples[1] + i - 1]

(* The offset never leaves the buffer, so the unsigned subtraction in the  *)
(* loop condition does not wrap and block() stays inside the matrix.       *)
OffsetInBuffer ==
    /\ Len(data_timestamps) = Len(data_buffer)
    /\ pc = "windows" => offset <= Len(data_buffer)

(* Every window of the stream becomes a frame.                             *)
WindowsReached == 1 + (MaxSamples - NFFT) \div nstep

EveryWindowFramed ==
    \A k \in 1..WindowsReached :
        (received >= (k - 1) * nstep + NFFT)
            ~> (Len(frames) >= k \/ lost \/ ~keep_alive)
==========================================================================
