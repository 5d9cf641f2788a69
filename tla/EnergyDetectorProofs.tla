---------------------- MODULE EnergyDetectorProofs -----------------------
(* Proofs about EnergyDetector for all sizes, rates and bands, and any     *)
(* number of frames and changes.                                           *)
EXTENDS EnergyDetector, TLAPS

(* Bins are being recomputed and the flag is not set yet.                  *)
Recomputing == caller \in {"fill", "flag"}

--------------------------------------------------------------------------
(* Averages of other bins than the active ones.                            *)

Follows ==
    \/ active_frequencies = {}
    \/ averages.bins = active_frequencies
    \/ averages.state = "garbage"

(* While the detector acts on the flag nobody else resets it; where it     *)
(* waits or works the flag is set, or about to be, or nothing changed.     *)
FlagInv ==
    ~lost =>
        /\ pc \in {"started", "restart", "reset"} => rx_runtime_update
        /\ pc \in {"loop", "get", "frame", "detect"} =>
              rx_runtime_update \/ Recomputing \/ Follows
        /\ pc = "restart" => columns = active_frequencies \/ Recomputing
        /\ pc = "reset" => Recomputing \/ Follows

LEMMA FlagInit == Init => FlagInv
BY DEF Init, FlagInv

LEMMA FlagCalls ==
    ASSUME FlagInv,
           \/ PushFrame \/ stop \/ set_sample_rate \/ set_NFFT \/ set_noverlap
           \/ add_frequency_band \/ clear_frequency_bands
           \/ reset_frequency_band \/ set_NFFT_detector
    PROVE  FlagInv'
BY DEF FlagInv, Recomputing, Follows, PushFrame, stop, set_sample_rate,
       set_NFFT, set_noverlap, add_frequency_band, clear_frequency_bands,
       reset_frequency_band, set_NFFT_detector, Call,
       parameters, changing, shared, input, working, histories

LEMMA FlagCaller ==
    ASSUME FlagInv, ClearActive \/ PushActive \/ FlagUpdate
    PROVE  FlagInv'
<1>1. CASE ClearActive
  BY <1>1 DEF FlagInv, Recomputing, Follows, ClearActive,
       parameters, changing, shared, input, working, histories
<1>2. CASE PushActive
  BY <1>2 DEF FlagInv, Recomputing, Follows, PushActive,
       parameters, changing, shared, input, working, histories
<1>3. CASE FlagUpdate
  BY <1>3 DEF FlagInv, Recomputing, Follows, FlagUpdate,
       parameters, changing, shared, input, working, histories
<1>4. QED
  BY <1>1, <1>2, <1>3

LEMMA FlagDetector ==
    ASSUME FlagInv, Detector
    PROVE  FlagInv'
<1>1. CASE WaitRate \/ First \/ Loop
  BY <1>1 DEF FlagInv, Recomputing, Follows, WaitRate, First, Loop,
       parameters, changing, shared, input, working, histories
<1>2. CASE StartUpdate
  BY <1>2 DEF FlagInv, Recomputing, Follows, StartUpdate, SelectColumns, Begin,
       parameters, changing, shared, input, working, histories
<1>3. CASE Restart
  BY <1>3 DEF FlagInv, Recomputing, Follows, Restart, Garbage,
       parameters, changing, shared, input, working, histories
<1>4. CASE ResetUpdate
  BY <1>4 DEF FlagInv, Recomputing, Follows, ResetUpdate,
       parameters, changing, shared, input, working, histories
<1>5. CASE Get
  BY <1>5 DEF FlagInv, Recomputing, Follows, Get,
       parameters, changing, shared, input, working, histories
<1>6. CASE NextFrame
  BY <1>6 DEF FlagInv, Recomputing, Follows, NextFrame, SelectColumns, Begin,
       parameters, changing, shared, input, working, histories
<1>7. CASE Detect
  BY <1>7 DEF FlagInv, Recomputing, Follows, Detect, Garbage,
       parameters, changing, shared, input, working, histories
<1>8. QED
  BY <1>1, <1>2, <1>3, <1>4, <1>5, <1>6, <1>7 DEF Detector

LEMMA FlagStays ==
    ASSUME FlagInv, UNCHANGED vars
    PROVE  FlagInv'
BY DEF FlagInv, Recomputing, Follows, vars,
       parameters, changing, shared, input, working, histories

(* Averages of other bins than the active ones are kept for good only when *)
(* a change set the flag while the detector was about to reset it.         *)
THEOREM StaleOnlyByLostFlag == Spec => []StaleOnlyIfFlagLost
<1>1. FlagInv /\ [Next]_vars => FlagInv'
  BY FlagCalls, FlagCaller, FlagDetector, FlagStays DEF Next, Caller
<1>2. FlagInv => StaleOnlyIfFlagLost
  BY DEF FlagInv, Follows, Recomputing, StaleOnlyIfFlagLost
<1>3. QED
  BY FlagInit, <1>1, <1>2, PTL DEF Spec

--------------------------------------------------------------------------
(* Frames leave the queue in order, to the detector or dropped.            *)

AnyFrame == [packet : Nat, nfreq : Nat]
AnyDetection == [packet : Nat, verdict : Verdicts]

SeqInv ==
    /\ queue \in Seq(AnyFrame) /\ batch \in Seq(AnyFrame)
    /\ detections \in Seq(AnyDetection)
    /\ pushed \in Nat
    /\ Len(queue) <= QueueLength
    /\ fft_NFFT \in Sizes /\ NFFT \in Sizes

Ascending(seq) ==
    \A i, j \in DOMAIN seq : i < j => seq[i].packet < seq[j].packet

(* The first n frames: detected, in the batch, or dropped.                 *)
Left(found, frames, lost_ones, n) ==
    /\ 1..n = Packets(found) \cup Packets(frames) \cup lost_ones
    /\ (Packets(found) \cup Packets(frames)) \cap lost_ones = {}
    /\ Ascending(found) /\ Ascending(frames)
    /\ \A k \in Packets(found) : \A j \in Packets(frames) : k < j

(* The queue holds the frames after the first n.                           *)
After(frames, n) == \A i \in 1..Len(frames) : frames[i].packet = n + i

OrderInv ==
    /\ pc \notin {"frame", "detect"} => batch = <<>>
    /\ pc = "detect" => batch # <<>> /\ in_hand = Head(batch)
    /\ Len(queue) <= pushed
    /\ After(queue, pushed - Len(queue))
    /\ Left(detections, batch, dropped, pushed - Len(queue))

WorkInv == SeqInv /\ OrderInv

LEMMA AppendElements ==
    ASSUME NEW S, NEW q \in Seq(S), NEW e \in S
    PROVE  /\ Append(q, e) \in Seq(S)
           /\ Len(Append(q, e)) = Len(q) + 1
           /\ Append(q, e)[Len(q) + 1] = e
           /\ \A i \in 1..Len(q) : Append(q, e)[i] = q[i]
OBVIOUS

LEMMA TailElements ==
    ASSUME NEW S, NEW q \in Seq(S), q # <<>>
    PROVE  /\ Tail(q) \in Seq(S)
           /\ Len(q) > 0
           /\ Len(Tail(q)) = Len(q) - 1
           /\ Head(q) = q[1] /\ q[1] \in S
           /\ \A i \in 1..(Len(q) - 1) : Tail(q)[i] = q[i + 1]
OBVIOUS

LEMMA EmptySeq ==
    ASSUME NEW S
    PROVE  <<>> \in Seq(S) /\ Len(<<>>) = 0
OBVIOUS

LEMMA NfreqNat == \A n \in Sizes : nfreq(n) \in Nat
BY SizesAssumption DEF nfreq

(* What the queue holds after a push, of frames of any set.                *)
LEMMA Enqueued ==
    ASSUME NEW S, queue \in Seq(S), Len(queue) <= QueueLength,
           NEW e \in S, Enqueue(e)
    PROVE  /\ queue' \in Seq(S) /\ Len(queue') <= QueueLength
           /\ \/ /\ dropped' = dropped
                 /\ Len(queue') = Len(queue) + 1
                 /\ queue'[Len(queue) + 1] = e
                 /\ \A i \in 1..Len(queue) : queue'[i] = queue[i]
              \/ /\ dropped' = dropped \cup {queue[1].packet}
                 /\ Len(queue') = Len(queue) /\ Len(queue) > 0
                 /\ queue'[Len(queue)] = e
                 /\ \A i \in 1..(Len(queue) - 1) :
                       queue'[i] = queue[i + 1]
<1> DEFINE q == Append(queue, e)
           n == Len(queue)
<1>1. /\ q \in Seq(S) /\ Len(q) = n + 1 /\ q[n + 1] = e
      /\ \A i \in 1..n : q[i] = queue[i]
  BY AppendElements
<1>2. n \in Nat /\ n <= QueueLength /\ QueueLength \in Nat \ {0}
  BY QueueAssumption
<1>3. \/ Len(q) > QueueLength /\ queue' = Tail(q)
         /\ dropped' = dropped \cup {Head(q).packet}
      \/ ~(Len(q) > QueueLength) /\ queue' = q /\ dropped' = dropped
  BY DEF Enqueue
<1> HIDE DEF q, n
<1>4. CASE ~(Len(q) > QueueLength) /\ queue' = q /\ dropped' = dropped
  BY <1>1, <1>2, <1>4 DEF n
<1>5. CASE Len(q) > QueueLength /\ queue' = Tail(q)
           /\ dropped' = dropped \cup {Head(q).packet}
  <2>1. n > 0 /\ n <= QueueLength /\ q # <<>>
    BY <1>1, <1>2, <1>5
  <2>2. /\ Tail(q) \in Seq(S) /\ Len(Tail(q)) = n
        /\ Head(q) = q[1] /\ q[1] \in S
        /\ \A i \in 1..n : Tail(q)[i] = q[i + 1]
    BY <1>1, <1>2, <2>1, TailElements
  <2>3. q[1] = queue[1] /\ Tail(q)[n] = e
    BY <1>1, <1>2, <2>1, <2>2
  <2>4. \A i \in 1..(n - 1) : Tail(q)[i] = queue[i + 1]
    BY <1>1, <1>2, <2>2
  <2>5. QED
    BY <1>5, <2>1, <2>2, <2>3, <2>4 DEF n
<1>6. QED
  BY <1>3, <1>4, <1>5

(* The numbers of an extended sequence, and of one without its first.      *)
LEMMA PacketsAppend ==
    ASSUME NEW S, NEW q \in Seq(S), NEW e \in S
    PROVE  Packets(Append(q, e)) = Packets(q) \cup {e.packet}
<1> DEFINE r == Append(q, e)
<1>1. /\ r \in Seq(S) /\ Len(r) = Len(q) + 1 /\ r[Len(q) + 1] = e
      /\ \A i \in 1..Len(q) : r[i] = q[i]
      /\ Len(q) \in Nat
  BY AppendElements
<1>2. DOMAIN r = 1..(Len(q) + 1) /\ DOMAIN q = 1..Len(q)
  BY <1>1
<1> HIDE DEF r
<1>3. ASSUME NEW k \in Packets(r)
      PROVE  k \in Packets(q) \cup {e.packet}
  <2>1. PICK i \in 1..(Len(q) + 1) : k = r[i].packet
    BY <1>2, <1>3 DEF Packets
  <2>2. i = Len(q) + 1 \/ i \in 1..Len(q)
    BY <1>1, <2>1
  <2>3. QED
    BY <1>1, <1>2, <2>1, <2>2 DEF Packets
<1>4. e.packet \in Packets(r)
  <2>1. Len(q) + 1 \in DOMAIN r
    BY <1>1, <1>2
  <2>2. QED
    BY <1>1, <2>1 DEF Packets
<1>5. ASSUME NEW k \in Packets(q)
      PROVE  k \in Packets(r)
  <2>1. PICK i \in 1..Len(q) : k = q[i].packet
    BY <1>2, <1>5 DEF Packets
  <2>2. i \in DOMAIN r /\ r[i] = q[i]
    BY <1>1, <1>2, <2>1
  <2>3. QED
    BY <2>1, <2>2 DEF Packets
<1>6. QED
  BY <1>3, <1>4, <1>5 DEF r

LEMMA PacketsTail ==
    ASSUME NEW S, NEW q \in Seq(S), q # <<>>
    PROVE  Packets(q) = {q[1].packet} \cup Packets(Tail(q))
<1> DEFINE r == Tail(q)
<1>1. /\ r \in Seq(S) /\ Len(r) = Len(q) - 1 /\ Len(q) > 0
      /\ \A i \in 1..(Len(q) - 1) : r[i] = q[i + 1]
      /\ Len(q) \in Nat
  BY TailElements
<1>2. DOMAIN r = 1..(Len(q) - 1) /\ DOMAIN q = 1..Len(q)
  BY <1>1
<1> HIDE DEF r
<1>3. ASSUME NEW k \in Packets(q)
      PROVE  k \in {q[1].packet} \cup Packets(r)
  <2>1. PICK i \in 1..Len(q) : k = q[i].packet
    BY <1>2, <1>3 DEF Packets
  <2>2. CASE i = 1
    BY <2>1, <2>2
  <2>3. CASE i # 1
    <3>1. i - 1 \in 1..(Len(q) - 1) /\ (i - 1) + 1 = i
      BY <1>1, <2>1, <2>3
    <3>2. k = r[i - 1].packet
      BY <1>1, <2>1, <3>1
    <3>3. QED
      BY <1>2, <3>1, <3>2 DEF Packets
  <2>4. QED
    BY <2>2, <2>3
<1>4. q[1].packet \in Packets(q)
  <2>1. 1 \in DOMAIN q
    BY <1>1, <1>2
  <2>2. QED
    BY <2>1 DEF Packets
<1>5. ASSUME NEW k \in Packets(r)
      PROVE  k \in Packets(q)
  <2>1. PICK i \in 1..(Len(q) - 1) : k = r[i].packet
    BY <1>2, <1>5 DEF Packets
  <2>2. i + 1 \in DOMAIN q /\ k = q[i + 1].packet
    BY <1>1, <1>2, <2>1
  <2>3. QED
    BY <2>2 DEF Packets
<1>6. QED
  BY <1>3, <1>4, <1>5 DEF r

(* The numbers in a queue that holds the frames after the first n.         *)
LEMMA PacketsAfter ==
    ASSUME NEW S, NEW q \in Seq(S), NEW n \in Nat, After(q, n)
    PROVE  Packets(q) = (n + 1)..(n + Len(q)) /\ Ascending(q)
<1>1. Len(q) \in Nat /\ DOMAIN q = 1..Len(q)
  OBVIOUS
<1>2. ASSUME NEW k \in Packets(q)
      PROVE  k \in (n + 1)..(n + Len(q))
  <2>1. PICK i \in 1..Len(q) : k = q[i].packet
    BY <1>1, <1>2 DEF Packets
  <2>2. k = n + i
    BY <2>1 DEF After
  <2>3. QED
    BY <1>1, <2>1, <2>2
<1>3. ASSUME NEW k \in (n + 1)..(n + Len(q))
      PROVE  k \in Packets(q)
  <2>1. k - n \in 1..Len(q) /\ n + (k - n) = k
    BY <1>1, <1>3
  <2>2. q[k - n].packet = k
    BY <2>1 DEF After
  <2>3. QED
    BY <1>1, <2>1, <2>2 DEF Packets
<1>4. ASSUME NEW i \in DOMAIN q, NEW j \in DOMAIN q, i < j
      PROVE  q[i].packet < q[j].packet
  <2>1. q[i].packet = n + i /\ q[j].packet = n + j
    BY <1>1 DEF After
  <2>2. QED
    BY <1>1, <1>4, <2>1
<1>5. QED
  BY <1>2, <1>3, <1>4 DEF Ascending

LEMMA NoPackets == Packets(<<>>) = {} /\ Ascending(<<>>)
BY EmptySeq DEF Packets, Ascending

LEMMA WorkInit == Init => WorkInv
<1> SUFFICES ASSUME Init
             PROVE  WorkInv
  OBVIOUS
<1>1. SeqInv
  BY EmptySeq, QueueAssumption DEF Init, SeqInv
<1>2. Left(<<>>, <<>>, {}, 0)
  BY NoPackets DEF Left
<1>3. pushed - Len(queue) = 0 /\ Len(queue) = 0 /\ pushed = 0
  <2>1. Len(queue) = 0 /\ pushed = 0
    BY EmptySeq DEF Init
  <2>2. QED
    BY <2>1
<1>4. Left(detections, batch, dropped, pushed - Len(queue))
  BY <1>2, <1>3 DEF Init
<1>5. After(queue, pushed - Len(queue))
  BY <1>3 DEF After
<1>6. pc = "rate" /\ batch = <<>>
  BY DEF Init
<1>7. QED
  BY <1>1, <1>3, <1>4, <1>5, <1>6 DEF WorkInv, OrderInv

LEMMA WorkPushFrame ==
    ASSUME WorkInv, PushFrame
    PROVE  WorkInv'
<1> DEFINE frame == [packet |-> pushed + 1, nfreq |-> nfreq(fft_NFFT)]
           n == pushed - Len(queue)
<1>1. /\ Enqueue(frame) /\ pushed' = pushed + 1
      /\ UNCHANGED <<fft_NFFT, NFFT, pc, batch, in_hand, detections>>
  BY DEF PushFrame, parameters, working
<1>2. frame \in AnyFrame /\ frame.packet = pushed + 1
  BY NfreqNat DEF WorkInv, SeqInv, AnyFrame
<1> HIDE DEF frame
<1>3. queue \in Seq(AnyFrame) /\ Len(queue) <= QueueLength
  BY DEF WorkInv, SeqInv
<1>4. /\ queue' \in Seq(AnyFrame) /\ Len(queue') <= QueueLength
      /\ \/ /\ dropped' = dropped
            /\ Len(queue') = Len(queue) + 1
            /\ queue'[Len(queue) + 1] = frame
            /\ \A i \in 1..Len(queue) : queue'[i] = queue[i]
         \/ /\ dropped' = dropped \cup {queue[1].packet}
            /\ Len(queue') = Len(queue) /\ Len(queue) > 0
            /\ queue'[Len(queue)] = frame
            /\ \A i \in 1..(Len(queue) - 1) : queue'[i] = queue[i + 1]
  BY <1>1, <1>2, <1>3, Enqueued
<1>5. SeqInv'
  BY <1>1, <1>4 DEF WorkInv, SeqInv
<1>6. Len(queue) \in Nat /\ pushed \in Nat /\ n \in Nat
      /\ Len(queue) <= pushed
  BY DEF WorkInv, SeqInv, OrderInv
<1>7. /\ \A i \in 1..Len(queue) : queue[i].packet = n + i
      /\ Left(detections, batch, dropped, n)
  BY DEF WorkInv, OrderInv, After
<1>8. CASE /\ dropped' = dropped
           /\ Len(queue') = Len(queue) + 1
           /\ queue'[Len(queue) + 1] = frame
           /\ \A i \in 1..Len(queue) : queue'[i] = queue[i]
  <2>1. pushed' - Len(queue') = n /\ Len(queue') <= pushed'
    BY <1>1, <1>6, <1>8
  <2>2. ASSUME NEW i \in 1..Len(queue')
        PROVE  queue'[i].packet = n + i
    <3>1. CASE i \in 1..Len(queue)
      BY <1>7, <1>8, <3>1
    <3>2. CASE i = Len(queue) + 1
      BY <1>2, <1>6, <1>8, <3>2
    <3>3. QED
      BY <1>6, <1>8, <3>1, <3>2
  <2>3. After(queue', n)
    BY <2>2 DEF After
  <2>4. (pushed - Len(queue))' = n
    BY <2>1
  <2>5. After(queue, pushed - Len(queue))'
    BY <2>3, <2>4 DEF After
  <2>6. Left(detections, batch, dropped, pushed - Len(queue))'
    BY <1>1, <1>7, <1>8, <2>4 DEF Left, Packets, Ascending
  <2>7. QED
    BY <1>1, <1>5, <2>1, <2>5, <2>6 DEF WorkInv, OrderInv
<1>9. CASE /\ dropped' = dropped \cup {queue[1].packet}
           /\ Len(queue') = Len(queue) /\ Len(queue) > 0
           /\ queue'[Len(queue)] = frame
           /\ \A i \in 1..(Len(queue) - 1) : queue'[i] = queue[i + 1]
  <2>1. pushed' - Len(queue') = n + 1 /\ Len(queue') <= pushed'
    BY <1>1, <1>6, <1>9
  <2>2. ASSUME NEW i \in 1..Len(queue')
        PROVE  queue'[i].packet = (n + 1) + i
    <3>1. CASE i \in 1..(Len(queue) - 1)
      <4>1. i + 1 \in 1..Len(queue)
        BY <1>6, <3>1
      <4>2. queue'[i].packet = n + (i + 1)
        BY <1>7, <1>9, <3>1, <4>1
      <4>3. QED
        BY <1>6, <3>1, <4>2
    <3>2. CASE i = Len(queue)
      BY <1>2, <1>6, <1>9, <3>2
    <3>3. QED
      BY <1>6, <1>9, <3>1, <3>2
  <2>3. After(queue', n + 1)
    BY <2>2 DEF After
  <2>4. (pushed - Len(queue))' = n + 1
    BY <2>1
  <2>5. After(queue, pushed - Len(queue))'
    BY <2>3, <2>4 DEF After
  <2>6. queue[1].packet = n + 1
    <3>1. 1 \in 1..Len(queue)
      BY <1>6, <1>9
    <3>2. QED
      BY <1>7, <3>1
  <2>7. /\ 1..(n + 1) = (1..n) \cup {n + 1} /\ n + 1 \notin 1..n
    BY <1>6
  <2> HIDE DEF n
  <2>8. Left(detections, batch, dropped', n + 1)
    <3>1. 1..(n + 1) = Packets(detections) \cup Packets(batch)
                           \cup dropped'
      BY <1>7, <1>9, <2>6, <2>7 DEF Left
    <3>2. n + 1 \notin Packets(detections) \cup Packets(batch)
      BY <1>7, <2>7 DEF Left
    <3>3. (Packets(detections) \cup Packets(batch)) \cap dropped' = {}
      BY <1>7, <1>9, <2>6, <3>2 DEF Left
    <3>4. QED
      BY <1>7, <3>1, <3>3 DEF Left
  <2>9. Left(detections, batch, dropped, pushed - Len(queue))'
    BY <1>1, <2>4, <2>8 DEF Left, Packets, Ascending
  <2>10. QED
    BY <1>1, <1>5, <2>1, <2>5, <2>9 DEF WorkInv, OrderInv
<1>10. QED
  BY <1>4, <1>8, <1>9

LEMMA WorkGet ==
    ASSUME WorkInv, Get
    PROVE  WorkInv'
<1> DEFINE n == pushed - Len(queue)
<1>1. /\ batch' = queue /\ queue' = <<>> /\ pc = "get"
      /\ pc' = IF queue = <<>> THEN "loop" ELSE "frame"
      /\ UNCHANGED <<pushed, dropped, fft_NFFT, NFFT, in_hand, detections>>
  BY DEF Get, parameters
<1>2. Len(queue') = 0 /\ queue' \in Seq(AnyFrame)
  BY <1>1, EmptySeq
<1>3. SeqInv'
  BY <1>1, <1>2, QueueAssumption DEF WorkInv, SeqInv
<1>4. /\ Len(queue) \in Nat /\ pushed \in Nat /\ n \in Nat
      /\ queue \in Seq(AnyFrame) /\ Len(queue) <= pushed
  BY DEF WorkInv, SeqInv, OrderInv
<1>5. Packets(batch) = {}
  BY <1>1, NoPackets DEF WorkInv, OrderInv
<1>6. After(queue, n) /\ Left(detections, batch, dropped, n)
  BY DEF WorkInv, OrderInv
<1>7. n + Len(queue) = pushed /\ pushed' - Len(queue') = pushed
  BY <1>1, <1>2, <1>4
<1> HIDE DEF n
<1>8. Packets(queue) = (n + 1)..pushed /\ Ascending(queue)
  BY <1>4, <1>6, <1>7, PacketsAfter
<1>9. /\ 1..pushed = (1..n) \cup ((n + 1)..pushed)
      /\ \A k \in 1..n : \A j \in (n + 1)..pushed : k < j
      /\ (1..n) \cap ((n + 1)..pushed) = {}
  BY <1>4, <1>7
<1>10. Left(detections, queue, dropped, pushed)
  <2>1. 1..n = Packets(detections) \cup dropped
    BY <1>5, <1>6 DEF Left
  <2>2. 1..pushed = Packets(detections) \cup Packets(queue) \cup dropped
    BY <1>8, <1>9, <2>1
  <2>3. (Packets(detections) \cup Packets(queue)) \cap dropped = {}
    BY <1>6, <1>8, <1>9, <2>1 DEF Left
  <2>4. \A k \in Packets(detections) : \A j \in Packets(queue) : k < j
    BY <1>8, <1>9, <2>1
  <2>5. QED
    BY <1>6, <1>8, <2>2, <2>3, <2>4 DEF Left
<1>11. Left(detections, batch, dropped, pushed - Len(queue))'
  BY <1>1, <1>7, <1>10 DEF Left, Packets, Ascending
<1>12. After(queue, pushed - Len(queue))'
  BY <1>2 DEF After
<1>13. (pc' \notin {"frame", "detect"} => batch' = <<>>) /\ pc' # "detect"
  BY <1>1
<1>14. Len(queue') <= pushed'
  BY <1>1, <1>2, <1>4
<1>15. QED
  BY <1>3, <1>11, <1>12, <1>13, <1>14 DEF WorkInv, OrderInv

LEMMA WorkNextFrame ==
    ASSUME WorkInv, NextFrame
    PROVE  WorkInv'
BY DEF WorkInv, SeqInv, OrderInv, NextFrame, SelectColumns, input, parameters

LEMMA WorkDetect ==
    ASSUME WorkInv, Detect
    PROVE  WorkInv'
<1> DEFINE detection == [packet |-> in_hand.packet, verdict |-> Verdict]
           n == pushed - Len(queue)
<1>1. /\ detections' = Append(detections, detection)
      /\ batch' = Tail(batch) /\ pc = "detect" /\ pc' = "frame"
      /\ UNCHANGED <<queue, pushed, dropped, fft_NFFT, NFFT, in_hand>>
  BY DEF Detect, input, parameters
<1>2. /\ batch \in Seq(AnyFrame) /\ batch # <<>> /\ in_hand = Head(batch)
      /\ detections \in Seq(AnyDetection)
      /\ Left(detections, batch, dropped, n)
  BY <1>1 DEF WorkInv, SeqInv, OrderInv
<1>3. /\ batch' \in Seq(AnyFrame) /\ Len(batch') = Len(batch) - 1
      /\ Len(batch) > 0 /\ Len(batch) \in Nat /\ Len(batch') \in Nat
      /\ in_hand = batch[1] /\ in_hand \in AnyFrame
      /\ \A i \in 1..(Len(batch) - 1) : batch'[i] = batch[i + 1]
  BY <1>1, <1>2, TailElements
<1>4. detection \in AnyDetection /\ detection.packet = in_hand.packet
  BY <1>3 DEF AnyDetection, AnyFrame, Verdict, Verdicts
<1> HIDE DEF detection, n
<1>5. /\ detections' \in Seq(AnyDetection)
      /\ Len(detections') = Len(detections) + 1
      /\ detections'[Len(detections) + 1] = detection
      /\ \A i \in 1..Len(detections) : detections'[i] = detections[i]
  BY <1>1, <1>2, <1>4, AppendElements
<1>6. SeqInv'
  BY <1>1, <1>3, <1>5 DEF WorkInv, SeqInv
<1>7. Packets(detections') = Packets(detections) \cup {in_hand.packet}
  BY <1>1, <1>2, <1>4, PacketsAppend
<1>8. Packets(batch) = {in_hand.packet} \cup Packets(batch')
  BY <1>1, <1>2, <1>3, PacketsTail
<1>9. /\ Len(detections) \in Nat /\ DOMAIN detections = 1..Len(detections)
      /\ DOMAIN detections' = 1..(Len(detections) + 1)
      /\ DOMAIN batch = 1..Len(batch) /\ DOMAIN batch' = 1..(Len(batch) - 1)
  BY <1>2, <1>3, <1>5
<1>10. ASSUME NEW i \in DOMAIN detections', NEW j \in DOMAIN detections',
              i < j
       PROVE  detections'[i].packet < detections'[j].packet
  <2>1. i \in 1..Len(detections) /\ detections'[i] = detections[i]
    BY <1>5, <1>9, <1>10
  <2>2. CASE j \in 1..Len(detections)
    BY <1>2, <1>5, <1>9, <1>10, <2>1, <2>2 DEF Left, Ascending
  <2>3. CASE j = Len(detections) + 1
    <3>1. detections[i].packet \in Packets(detections)
      BY <1>9, <2>1 DEF Packets
    <3>2. QED
      BY <1>2, <1>4, <1>5, <1>8, <2>1, <2>3, <3>1 DEF Left
  <2>4. QED
    BY <1>9, <2>2, <2>3
<1>11. ASSUME NEW i \in DOMAIN batch', NEW j \in DOMAIN batch', i < j
       PROVE  batch'[i].packet < batch'[j].packet
  <2>1. /\ i + 1 \in DOMAIN batch /\ j + 1 \in DOMAIN batch
        /\ i + 1 < j + 1
    BY <1>3, <1>9, <1>11
  <2>2. batch[i + 1].packet < batch[j + 1].packet
    BY <1>2, <2>1 DEF Left, Ascending
  <2>3. QED
    BY <1>3, <1>9, <2>2
<1>12. ASSUME NEW k \in Packets(detections'), NEW j \in Packets(batch')
       PROVE  k < j
  <2>1. CASE k \in Packets(detections)
    BY <1>2, <1>8, <2>1 DEF Left
  <2>2. CASE k = in_hand.packet
    <3>1. PICK i \in 1..(Len(batch) - 1) : j = batch'[i].packet
      BY <1>9, <1>12 DEF Packets
    <3>2. 1 \in DOMAIN batch /\ i + 1 \in DOMAIN batch /\ 1 < i + 1
      BY <1>3, <1>9, <3>1
    <3>3. batch[1].packet < batch[i + 1].packet
      BY <1>2, <3>2 DEF Left, Ascending
    <3>4. QED
      BY <1>3, <2>2, <3>1, <3>3
  <2>3. QED
    BY <1>7, <2>1, <2>2
<1>13. Packets(detections') \cup Packets(batch')
          = Packets(detections) \cup Packets(batch)
  BY <1>7, <1>8
<1>14. Left(detections', batch', dropped, n)
  <2>1. Ascending(detections') /\ Ascending(batch')
    BY <1>10, <1>11 DEF Ascending
  <2>2. \A k \in Packets(detections') : \A j \in Packets(batch') : k < j
    BY <1>12
  <2>3. QED
    BY <1>2, <1>13, <2>1, <2>2 DEF Left
<1>15. Left(detections, batch, dropped, pushed - Len(queue))'
  BY <1>1, <1>14 DEF Left, Packets, Ascending, n
<1>16. /\ After(queue, pushed - Len(queue))'
       /\ Len(queue') <= pushed'
  BY <1>1 DEF WorkInv, OrderInv, After
<1>17. QED
  BY <1>1, <1>6, <1>15, <1>16 DEF WorkInv, OrderInv

LEMMA WorkOther ==
    ASSUME WorkInv,
           \/ stop \/ set_sample_rate \/ set_NFFT \/ set_noverlap
           \/ add_frequency_band
           \/ clear_frequency_bands \/ reset_frequency_band \/ Caller
           \/ WaitRate \/ First \/ Loop \/ StartUpdate \/ Restart
           \/ ResetUpdate \/ UNCHANGED vars
    PROVE  WorkInv'
<1>1. CASE \/ stop \/ set_sample_rate \/ set_NFFT \/ set_noverlap
           \/ add_frequency_band
           \/ clear_frequency_bands \/ reset_frequency_band
  BY <1>1 DEF WorkInv, SeqInv, OrderInv, stop, set_sample_rate, set_NFFT,
       set_noverlap, add_frequency_band, clear_frequency_bands,
       reset_frequency_band, Call, parameters, input, working
<1>2. CASE Caller \/ UNCHANGED vars
  BY <1>2 DEF WorkInv, SeqInv, OrderInv, Caller, set_NFFT_detector,
       ClearActive, PushActive, FlagUpdate, vars, parameters, input, working
<1>3. CASE WaitRate \/ First \/ Loop \/ StartUpdate \/ Restart \/ ResetUpdate
  BY <1>3 DEF WorkInv, SeqInv, OrderInv, WaitRate, First, Loop, StartUpdate,
       SelectColumns, Restart, ResetUpdate, parameters, input, working
<1>4. QED
  BY <1>1, <1>2, <1>3

LEMMA WorkNext == WorkInv /\ [Next]_vars => WorkInv'
BY WorkPushFrame, WorkGet, WorkNextFrame, WorkDetect, WorkOther
   DEF Next, Detector

(* However frames come in batches and whatever is changed meanwhile, every *)
(* frame gives one detection, in order, or was dropped by the full queue.  *)
THEOREM FramesAreDetected == Spec => []OneDetectionPerFrame
<1>1. ASSUME WorkInv
      PROVE  OneDetectionPerFrame
  <2> DEFINE n == pushed - Len(queue)
  <2>1. /\ n \in Nat /\ n + Len(queue) = pushed /\ After(queue, n)
        /\ queue \in Seq(AnyFrame) /\ Len(queue) \in Nat
        /\ Left(detections, batch, dropped, n)
    BY <1>1 DEF WorkInv, SeqInv, OrderInv
  <2> HIDE DEF n
  <2>2. Packets(queue) = (n + 1)..pushed
    BY <2>1, PacketsAfter
  <2>3. 1..pushed = (1..n) \cup ((n + 1)..pushed)
    BY <2>1
  <2>4. QED
    BY <2>1, <2>2, <2>3 DEF Left, Ascending, OneDetectionPerFrame
<1>2. QED
  BY WorkInit, WorkNext, <1>1, PTL DEF Spec

--------------------------------------------------------------------------
(* While sizes agree every active bin is in every frame.                   *)

OfSize(q, n) == \A i \in 1..Len(q) : q[i].nfreq = nfreq(n)

SizeInv ==
    /\ caller # "resize" => NFFT = fft_NFFT
    /\ caller # "fill" => pending = {}
    /\ pending \subseteq 0..(nfreq(NFFT) - 1)
    /\ active_frequencies \subseteq Nat
    /\ pushed = 0 => pc \in {"rate", "first", "exited"}
    /\ ~resized =>
          /\ pushed > 0 =>
                active_frequencies \subseteq 0..(nfreq(fft_NFFT) - 1)
          /\ OfSize(queue, fft_NFFT) /\ OfSize(batch, fft_NFFT)
          /\ pc \notin {"rate", "first", "exited"} =>
                in_hand.nfreq = nfreq(fft_NFFT)

LEMMA SizeInit == Init => SizeInv
BY EmptySeq DEF Init, SizeInv, OfSize

LEMMA SizePushFrame ==
    ASSUME WorkInv, SizeInv, PushFrame
    PROVE  SizeInv'
<1> DEFINE frame == [packet |-> pushed + 1, nfreq |-> nfreq(fft_NFFT)]
<1>1. /\ Enqueue(frame) /\ pushed' = pushed + 1
      /\ resized' = (resized \/ \E k \in active_frequencies :
                                   k >= nfreq(fft_NFFT))
      /\ UNCHANGED <<fft_NFFT, NFFT, caller, pending, active_frequencies,
                     pc, batch, in_hand>>
  BY DEF PushFrame, parameters, changing, shared, working
<1>2. /\ frame \in AnyFrame /\ frame.nfreq = nfreq(fft_NFFT)
      /\ nfreq(fft_NFFT) \in Nat /\ queue \in Seq(AnyFrame)
      /\ pushed \in Nat /\ Len(queue) <= QueueLength
      /\ Len(queue) \in Nat
  BY NfreqNat DEF WorkInv, SeqInv, AnyFrame
<1> HIDE DEF frame
<1>3. \/ /\ Len(queue') = Len(queue) + 1
         /\ queue'[Len(queue) + 1] = frame
         /\ \A i \in 1..Len(queue) : queue'[i] = queue[i]
      \/ /\ Len(queue') = Len(queue)
         /\ queue'[Len(queue)] = frame
         /\ \A i \in 1..(Len(queue) - 1) : queue'[i] = queue[i + 1]
  BY <1>1, <1>2, Enqueued
<1>4. ASSUME ~resized'
      PROVE  /\ OfSize(queue', fft_NFFT)
             /\ active_frequencies \subseteq 0..(nfreq(fft_NFFT) - 1)
  <2>1. ~resized /\ \A k \in active_frequencies : ~(k >= nfreq(fft_NFFT))
    BY <1>1, <1>4
  <2>2. \A i \in 1..Len(queue) : queue[i].nfreq = nfreq(fft_NFFT)
    BY <2>1 DEF SizeInv, OfSize
  <2>3. ASSUME NEW i \in 1..Len(queue')
        PROVE  queue'[i].nfreq = nfreq(fft_NFFT)
    <3>1. \/ queue'[i] = frame
          \/ i \in 1..Len(queue) /\ queue'[i] = queue[i]
          \/ i + 1 \in 1..Len(queue) /\ queue'[i] = queue[i + 1]
      BY <1>2, <1>3
    <3>2. QED
      BY <1>2, <2>2, <3>1
  <2>4. active_frequencies \subseteq 0..(nfreq(fft_NFFT) - 1)
    BY <1>2, <2>1 DEF SizeInv
  <2>5. QED
    BY <2>3, <2>4 DEF OfSize
<1>5. pushed' # 0
  BY <1>1, <1>2
<1>6. (~resized') => ~resized
  BY <1>1
<1>7. QED
  BY <1>1, <1>4, <1>5, <1>6 DEF SizeInv

LEMMA SizeSetNFFT ==
    ASSUME WorkInv, SizeInv, set_NFFT
    PROVE  SizeInv'
<1>1. /\ caller' = "resize" /\ caller = "idle"
      /\ resized' = (resized \/ pushed > 0)
      /\ UNCHANGED <<queue, pushed, NFFT, pending, active_frequencies, pc,
                     batch, in_hand>>
  BY DEF set_NFFT, Call, parameters, shared, working
<1>2. Len(queue) \in Nat /\ pushed \in Nat /\ Len(queue) <= pushed
  BY DEF WorkInv, SeqInv, OrderInv
<1>3. ASSUME ~resized'
      PROVE  pushed = 0 /\ Len(queue) = 0 /\ Len(batch) = 0
  <2>1. ~(pushed > 0)
    BY <1>1, <1>3
  <2>2. pushed = 0 /\ Len(queue) = 0
    BY <1>2, <2>1
  <2>3. batch = <<>>
    BY <2>2 DEF SizeInv, WorkInv, OrderInv
  <2>4. Len(batch) = 0
    BY <2>3, EmptySeq
  <2>5. QED
    BY <2>2, <2>4
<1>4. ASSUME ~resized'
      PROVE  OfSize(queue, fft_NFFT') /\ OfSize(batch, fft_NFFT')
  BY <1>3, <1>4 DEF OfSize
<1>5. QED
  BY <1>1, <1>3, <1>4 DEF SizeInv

LEMMA SizeCaller ==
    ASSUME WorkInv, SizeInv, Caller
    PROVE  SizeInv'
<1>1. CASE set_NFFT_detector
  BY <1>1 DEF SizeInv, set_NFFT_detector, input, shared, working, histories
<1>2. CASE ClearActive
  <2>1. pending' \subseteq 0..(nfreq(NFFT) - 1)
    BY <1>2 DEF ClearActive, ActiveBins
  <2>2. QED
    BY <1>2, <2>1 DEF SizeInv, ClearActive, input, parameters, working
<1>3. CASE PushActive
  <2>1. PICK k \in pending : /\ active_frequencies' = active_frequencies \cup {k}
                            /\ pending' = pending \ {k}
    BY <1>3 DEF PushActive
  <2>2. /\ caller = "fill" /\ caller' = IF pending' = {} THEN "flag" ELSE "fill"
        /\ UNCHANGED <<queue, pushed, fft_NFFT, NFFT, pc, batch, in_hand,
                       resized>>
    BY <1>3 DEF PushActive, input, parameters, working
  <2>3. /\ pending \subseteq 0..(nfreq(NFFT) - 1) /\ NFFT = fft_NFFT
        /\ nfreq(NFFT) \in Nat
    BY <2>2, NfreqNat DEF SizeInv, WorkInv, SeqInv
  <2>4. k \in 0..(nfreq(fft_NFFT) - 1) /\ k \in Nat
    BY <2>3
  <2>5. QED
    BY <2>1, <2>2, <2>4 DEF SizeInv
<1>4. CASE FlagUpdate
  BY <1>4 DEF SizeInv, FlagUpdate, input, parameters, working
<1>5. QED
  BY <1>1, <1>2, <1>3, <1>4 DEF Caller

LEMMA SizeOtherCalls ==
    ASSUME SizeInv,
           \/ stop \/ set_sample_rate \/ set_noverlap \/ add_frequency_band
           \/ clear_frequency_bands \/ reset_frequency_band
           \/ UNCHANGED vars
    PROVE  SizeInv'
BY DEF SizeInv, stop, set_sample_rate, set_noverlap, add_frequency_band, vars,
       clear_frequency_bands, reset_frequency_band, Call,
       input, parameters, changing, shared, working, histories

LEMMA SizeDetector ==
    ASSUME WorkInv, SizeInv, Detector
    PROVE  SizeInv'
<1>1. CASE WaitRate \/ Loop \/ Restart \/ ResetUpdate
  BY <1>1 DEF SizeInv, WaitRate, Loop, Restart, ResetUpdate, input,
       parameters, changing, shared, histories
<1>2. CASE First
  <2>1. CASE keep_alive
    <3>1. /\ queue # <<>> /\ in_hand' = Head(queue) /\ pc' = "loop"
          /\ UNCHANGED <<queue, pushed, fft_NFFT, NFFT, caller, pending,
                         active_frequencies, batch, resized>>
      BY <1>2, <2>1 DEF First, input, parameters, changing, histories
    <3>2. Len(queue) > 0 /\ in_hand' = queue[1]
      BY <3>1, TailElements DEF WorkInv, SeqInv
    <3>3. Len(queue) \in Nat /\ pushed \in Nat /\ Len(queue) <= pushed
      BY DEF WorkInv, SeqInv, OrderInv
    <3>4. pushed # 0
      BY <3>2, <3>3
    <3>5. ~resized => in_hand'.nfreq = nfreq(fft_NFFT)
      BY <3>2, <3>3 DEF SizeInv, OfSize
    <3>6. QED
      BY <3>1, <3>4, <3>5 DEF SizeInv
  <2>2. CASE ~keep_alive
    BY <1>2, <2>2 DEF SizeInv, First, input, parameters, changing, histories
  <2>3. QED
    BY <2>1, <2>2
<1>3. CASE StartUpdate
  BY <1>3 DEF SizeInv, StartUpdate, SelectColumns, input, parameters,
       changing, shared
<1>4. CASE Get
  <2>1. Len(queue') = 0
    BY <1>4, EmptySeq DEF Get
  <2>2. OfSize(queue', fft_NFFT)
    BY <2>1 DEF OfSize
  <2>3. QED
    BY <1>4, <2>2 DEF SizeInv, Get, parameters, changing, shared, histories
<1>5. CASE NextFrame
  <2>1. CASE batch = <<>>
    BY <1>5, <2>1 DEF SizeInv, NextFrame, input, parameters, changing, shared
  <2>2. CASE batch # <<>>
    <3>1. in_hand' = batch[1] /\ Len(batch) > 0 /\ Len(batch) \in Nat
      BY <1>5, <2>2, TailElements
         DEF NextFrame, SelectColumns, WorkInv, SeqInv
    <3>2. ~resized => in_hand'.nfreq = nfreq(fft_NFFT)
      BY <3>1 DEF SizeInv, OfSize
    <3>3. QED
      BY <1>5, <2>2, <3>2 DEF SizeInv, NextFrame, SelectColumns, input,
           parameters, changing, shared
  <2>3. QED
    BY <2>1, <2>2
<1>6. CASE Detect
  <2>1. /\ batch' = Tail(batch) /\ pc = "detect" /\ pc' = "frame"
        /\ UNCHANGED <<input, parameters, shared, changing, in_hand,
                       histories>>
    BY <1>6 DEF Detect
  <2>2. /\ Len(batch') = Len(batch) - 1 /\ Len(batch) \in Nat
        /\ \A i \in 1..(Len(batch) - 1) : batch'[i] = batch[i + 1]
    BY <2>1, TailElements DEF WorkInv, SeqInv, OrderInv
  <2>3. OfSize(batch, fft_NFFT) => OfSize(batch', fft_NFFT)
    <3>1. ASSUME OfSize(batch, fft_NFFT), NEW i \in 1..Len(batch')
          PROVE  batch'[i].nfreq = nfreq(fft_NFFT)
      <4>1. i + 1 \in 1..Len(batch) /\ i \in 1..(Len(batch) - 1)
        BY <2>2
      <4>2. QED
        BY <2>2, <3>1, <4>1 DEF OfSize
    <3>2. QED
      BY <3>1 DEF OfSize
  <2>4. QED
    BY <2>1, <2>3 DEF SizeInv, input, parameters, shared, changing, histories
<1>7. QED
  BY <1>1, <1>2, <1>3, <1>4, <1>5, <1>6 DEF Detector

LEMMA SizeNext == WorkInv /\ SizeInv /\ [Next]_vars => SizeInv'
BY SizePushFrame, SizeSetNFFT, SizeCaller, SizeOtherCalls, SizeDetector
   DEF Next

--------------------------------------------------------------------------
(* What a detection compares belongs together.                             *)

(* The averages are those of the active bins.                              *)
Matches ==
    active_frequencies # {} =>
        averages.state = "running" /\ averages.bins = active_frequencies

(* Without an overlap, bins that changed are followed by the flag before   *)
(* the detector looks at a frame, and none changes while it does.          *)
SoundInv ==
    (~overlap /\ ~resized) =>
        /\ pc = "loop" => rx_runtime_update \/ Recomputing \/ Matches
        /\ pc \in {"get", "frame"} => Recomputing \/ Matches
        /\ pc \in {"restart", "reset", "detect"} => ~Recomputing
        /\ pc \in {"restart", "detect"} => columns = active_frequencies
        /\ pc \in {"reset", "detect"} => Matches

IInv == WorkInv /\ SizeInv /\ SoundInv /\ SoundUnlessOverlapped

LEMMA SoundInit == Init => SoundInv /\ SoundUnlessOverlapped
BY EmptySeq DEF Init, SoundInv, SoundUnlessOverlapped

LEMMA SoundCalls ==
    ASSUME SoundInv,
           \/ PushFrame \/ stop \/ set_sample_rate \/ set_NFFT \/ set_noverlap
           \/ add_frequency_band \/ clear_frequency_bands
           \/ reset_frequency_band \/ set_NFFT_detector \/ UNCHANGED vars
    PROVE  SoundInv'
BY DEF SoundInv, Recomputing, Matches, PushFrame, stop, set_sample_rate,
       set_NFFT, set_noverlap, add_frequency_band, clear_frequency_bands, vars,
       reset_frequency_band, set_NFFT_detector, Call,
       parameters, changing, shared, input, working, histories

LEMMA SoundCaller ==
    ASSUME SoundInv, ClearActive \/ PushActive \/ FlagUpdate
    PROVE  SoundInv'
<1>1. overlap' = (overlap \/ Working) /\ UNCHANGED <<pc, resized, columns>>
  BY DEF ClearActive, PushActive, FlagUpdate, working
<1>2. ASSUME ~overlap', ~resized'
      PROVE  /\ ~overlap /\ ~resized
             /\ pc \notin {"started", "restart", "reset", "get", "frame", "detect"}
  BY <1>1, <1>2 DEF Working
<1>3. CASE ClearActive \/ PushActive
  BY <1>1, <1>2, <1>3 DEF SoundInv, Recomputing, ClearActive, PushActive
<1>4. CASE FlagUpdate
  BY <1>1, <1>2, <1>4 DEF SoundInv, Recomputing, FlagUpdate
<1>5. QED
  BY <1>3, <1>4

(* Every bin that is active is in the frame in hand.                       *)
LEMMA ColumnsInRange ==
    ASSUME WorkInv, SizeInv, ~resized, columns = active_frequencies,
           pc \notin {"rate", "first", "exited"}
    PROVE  InRange
<1>1. pushed > 0
  BY DEF WorkInv, SeqInv, SizeInv
<1>2. /\ columns \subseteq 0..(nfreq(fft_NFFT) - 1)
      /\ in_hand.nfreq = nfreq(fft_NFFT) /\ nfreq(fft_NFFT) \in Nat
  BY <1>1, NfreqNat DEF SizeInv, WorkInv, SeqInv
<1>3. QED
  BY <1>2 DEF InRange

LEMMA SoundDetector ==
    ASSUME WorkInv, SizeInv, SoundInv, Detector
    PROVE  SoundInv'
<1>1. CASE WaitRate \/ First \/ Loop
  BY <1>1 DEF SoundInv, Recomputing, Matches, WaitRate, First, Loop,
       parameters, changing, shared, input, histories
<1>2. CASE StartUpdate \/ NextFrame
  BY <1>2 DEF SoundInv, Recomputing, Matches, StartUpdate, NextFrame,
       SelectColumns, Begin, parameters, changing, shared, input
<1>3. CASE Restart
  <2>1. /\ pc = "restart" /\ pc' = "reset"
        /\ UNCHANGED <<caller, active_frequencies, columns, overlap, resized>>
    BY <1>3 DEF Restart, changing, shared, histories
  <2>2. ASSUME ~overlap, ~resized
        PROVE  ~Recomputing /\ Matches'
    <3>1. ~Recomputing /\ columns = active_frequencies
      BY <2>1, <2>2 DEF SoundInv
    <3>2. InRange
      BY <2>1, <2>2, <3>1, ColumnsInRange
    <3>3. active_frequencies # {} =>
             averages' = [state |-> "running", bins |-> active_frequencies]
      BY <1>3, <3>1, <3>2 DEF Restart
    <3>4. QED
      BY <2>1, <3>1, <3>3 DEF Matches
  <2>3. QED
    BY <2>1, <2>2 DEF SoundInv, Recomputing
<1>4. CASE ResetUpdate \/ Get
  BY <1>4 DEF SoundInv, Recomputing, Matches, ResetUpdate, Get,
       parameters, changing, shared, input, histories
<1>5. CASE Detect
  <2>1. /\ pc = "detect" /\ pc' = "frame"
        /\ averages' = IF Verdict = "undefined" THEN Garbage ELSE averages
        /\ UNCHANGED <<caller, active_frequencies, columns, overlap, resized>>
    BY <1>5 DEF Detect, changing, shared, histories
  <2>2. ASSUME ~overlap, ~resized
        PROVE  Matches'
    <3>1. Matches /\ columns = active_frequencies
      BY <2>1, <2>2 DEF SoundInv
    <3>2. InRange
      BY <2>1, <2>2, <3>1, ColumnsInRange
    <3>3. active_frequencies # {} => averages' = averages
      BY <2>1, <3>1, <3>2 DEF Verdict, Matches
    <3>4. QED
      BY <2>1, <3>1, <3>3 DEF Matches
  <2>3. QED
    BY <2>1, <2>2 DEF SoundInv, Recomputing
<1>6. QED
  BY <1>1, <1>2, <1>3, <1>4, <1>5 DEF Detector

LEMMA HistoriesStay ==
    ASSUME [Next]_vars
    PROVE  (overlap => overlap') /\ (resized => resized')
<1>1. CASE PushFrame \/ set_NFFT
  <2>1. UNCHANGED overlap
    BY <1>1 DEF PushFrame, set_NFFT
  <2>2. resized => resized'
    BY <1>1, Zenon DEF PushFrame, set_NFFT
  <2>3. QED
    BY <2>1, <2>2
<1>2. CASE \/ stop \/ set_sample_rate \/ set_noverlap
           \/ add_frequency_band \/ clear_frequency_bands
           \/ reset_frequency_band \/ set_NFFT_detector \/ UNCHANGED vars
  BY <1>2 DEF stop, set_sample_rate, set_noverlap, add_frequency_band,
       histories, vars, clear_frequency_bands, reset_frequency_band,
       set_NFFT_detector
<1>3. CASE ClearActive \/ PushActive \/ FlagUpdate \/ StartUpdate
  <2>1. UNCHANGED resized
    BY <1>3 DEF ClearActive, PushActive, FlagUpdate, StartUpdate
  <2>2. overlap => overlap'
    BY <1>3, Zenon DEF ClearActive, PushActive, FlagUpdate, StartUpdate, Begin
  <2>3. QED
    BY <2>1, <2>2
<1>4. CASE WaitRate \/ First \/ Loop \/ Restart \/ ResetUpdate \/ Get \/ Detect
  BY <1>4 DEF WaitRate, First, Loop, Restart, ResetUpdate, Get, Detect,
       histories
<1>5. CASE NextFrame
  BY <1>5 DEF NextFrame, Begin
<1>6. QED
  BY <1>1, <1>2, <1>3, <1>4, <1>5 DEF Next, Caller, Detector

LEMMA VerdictsSound ==
    ASSUME IInv, [Next]_vars
    PROVE  SoundUnlessOverlapped'
<1>1. (overlap => overlap') /\ (resized => resized')
  BY HistoriesStay
<1>2. CASE Detect
  <2>1. /\ pc = "detect" /\ UNCHANGED histories
        /\ detections' = Append(detections, [packet |-> in_hand.packet,
                                             verdict |-> Verdict])
    BY <1>2 DEF Detect
  <2>2. detections \in Seq(AnyDetection) /\ Len(detections) \in Nat
    BY DEF IInv, WorkInv, SeqInv
  <2>3. ASSUME ~overlap, ~resized
        PROVE  Verdict \notin {"stale", "undefined"}
    <3>1. Matches /\ columns = active_frequencies
      BY <2>1, <2>3 DEF IInv, SoundInv
    <3>2. InRange
      BY <2>1, <2>3, <3>1, ColumnsInRange DEF IInv
    <3>3. QED
      BY <3>1, <3>2 DEF Verdict, Matches
  <2> DEFINE detection == [packet |-> in_hand.packet, verdict |-> Verdict]
  <2>4. detection \in AnyDetection /\ detection.verdict = Verdict
    <3>1. batch \in Seq(AnyFrame) /\ batch # <<>> /\ in_hand = Head(batch)
      BY <2>1 DEF IInv, WorkInv, SeqInv, OrderInv
    <3>2. in_hand \in AnyFrame
      BY <3>1, TailElements
    <3>3. QED
      BY <3>2 DEF AnyFrame, AnyDetection, Verdict, Verdicts
  <2> HIDE DEF detection
  <2>5. /\ DOMAIN detections' = 1..(Len(detections) + 1)
        /\ DOMAIN detections = 1..Len(detections)
        /\ detections'[Len(detections) + 1] = detection
        /\ \A i \in 1..Len(detections) : detections'[i] = detections[i]
    BY <2>1, <2>2, <2>4, AppendElements DEF detection
  <2>6. ASSUME NEW i \in DOMAIN detections',
               detections'[i].verdict \in {"stale", "undefined"}
        PROVE  overlap' \/ resized'
    <3>1. CASE i \in 1..Len(detections)
      BY <1>1, <2>5, <2>6, <3>1 DEF IInv, SoundUnlessOverlapped
    <3>2. CASE i = Len(detections) + 1
      BY <1>1, <2>3, <2>4, <2>5, <2>6, <3>2
    <3>3. QED
      BY <2>2, <2>5, <3>1, <3>2
  <2>7. QED
    BY <2>6 DEF SoundUnlessOverlapped
<1>3. CASE ~Detect
  <2>1. detections' = detections
    BY <1>3 DEF Next, Caller, Detector, PushFrame, stop, set_sample_rate,
       set_NFFT, set_noverlap, add_frequency_band, clear_frequency_bands,
       reset_frequency_band, set_NFFT_detector, ClearActive, PushActive,
       FlagUpdate, WaitRate, First, Loop, StartUpdate, Restart, ResetUpdate,
       Get, NextFrame, working, vars
  <2>2. QED
    BY <1>1, <2>1 DEF IInv, SoundUnlessOverlapped
<1>4. QED
  BY <1>2, <1>3

(* A detection compares averages and frame of the same bins, all of which  *)
(* exist, unless bins changed between a look at the flag and the end of    *)
(* the batch taken after it, or the FFT size with frames on their way.     *)
THEOREM DetectionsAreSound == Spec => []SoundUnlessOverlapped
<1>1. Init => IInv
  BY WorkInit, SizeInit, SoundInit DEF IInv
<1>2. IInv /\ [Next]_vars => IInv'
  <2>1. IInv /\ [Next]_vars => SoundInv'
    BY SoundCalls, SoundCaller, SoundDetector DEF IInv, Next, Caller
  <2>2. QED
    BY <2>1, WorkNext, SizeNext, VerdictsSound DEF IInv
<1>3. IInv => SoundUnlessOverlapped
  BY DEF IInv
<1>4. QED
  BY <1>1, <1>2, <1>3, PTL DEF Spec

--------------------------------------------------------------------------
(* Types.                                                                  *)

(* What the calls that change parameters write.                            *)
BandTypes ==
    /\ fft_NFFT \in Sizes /\ NFFT \in Sizes
    /\ changes \in 0..MaxChanges
    /\ sample_rate \in Rates \cup {0}
    /\ frequency_bands \subseteq Nat \X Nat
    /\ active_frequencies \subseteq Bins /\ pending \subseteq Bins
    /\ caller \in {"idle", "resize", "clear", "fill", "flag"}
    /\ caller \in {"idle", "resize", "clear", "flag"} => pending = {}

FlagTypes ==
    /\ keep_alive \in BOOLEAN /\ rx_runtime_update \in BOOLEAN
    /\ overlap \in BOOLEAN /\ lost \in BOOLEAN /\ resized \in BOOLEAN

(* Frames on their way and in hand.                                        *)
FrameTypes ==
    /\ queue \in Seq(Frames) /\ batch \in Seq(Frames)
    /\ Len(queue) <= QueueLength
    /\ pushed \in 0..MaxFrames
    /\ in_hand \in Frames \cup {NoFrame}
    /\ pc \in {"rate", "first", "loop", "started", "restart", "reset", "get",
               "frame", "detect", "exited"}
    /\ pc \notin {"rate", "first", "exited"} => in_hand # NoFrame
    /\ batch # <<>> => pc \in {"frame", "detect"}
    /\ pc = "detect" => batch # <<>>

WorkTypes ==
    /\ columns \subseteq Bins
    /\ averages.state \in {"unstarted", "running", "garbage"}

TypesInv == BandTypes /\ FlagTypes /\ FrameTypes /\ WorkTypes

LEMMA TypesInit == Init => TypesInv
<1> SUFFICES ASSUME Init
             PROVE  TypesInv
  OBVIOUS
<1>1. BandTypes
  BY BoundsAssumption DEF Init, BandTypes
<1>2. FlagTypes
  BY DEF Init, FlagTypes
<1>3. FrameTypes
  BY BoundsAssumption, QueueAssumption, EmptySeq DEF Init, FrameTypes
<1>4. WorkTypes
  BY DEF Init, WorkTypes, Unstarted
<1>5. QED
  BY <1>1, <1>2, <1>3, <1>4 DEF TypesInv

LEMMA BandsArePairs == \A new \in NewBands : new \subseteq Nat \X Nat
<1>1. \A b \in Bands : MinMaxBand(b.low, b.high) \subseteq Nat \X Nat
  BY BandsAssumption DEF MinMaxBand
<1>2. ASSUME NEW w \in Widths
      PROVE  CenterBand(w.center, w.width) \subseteq Nat \X Nat
  <2>1. w.center \in Nat /\ w.width \in Nat
    BY BandsAssumption
  <2>2. w.width \div 2 \in Nat
    BY <2>1
  <2>3. QED
    BY <2>1, <2>2 DEF CenterBand
<1>3. QED
  BY <1>1, <1>2 DEF NewBands

LEMMA ActiveAreBins ==
    ASSUME NEW bands, NEW n \in Sizes, NEW rate
    PROVE  ActiveBins(bands, n, rate) \subseteq Bins
BY DEF ActiveBins, Bins

LEMMA BandTypesNext == BandTypes /\ [Next]_vars => BandTypes'
<1> SUFFICES ASSUME BandTypes, [Next]_vars
             PROVE  BandTypes'
  OBVIOUS
<1> USE DEF BandTypes
<1>1. CASE set_sample_rate \/ set_noverlap
  BY <1>1, BoundsAssumption
     DEF set_sample_rate, set_noverlap, Call, shared, input, parameters
<1>2. CASE set_NFFT
  BY <1>2, BoundsAssumption DEF set_NFFT, Call, shared, parameters
<1>3. CASE set_NFFT_detector
  BY <1>3 DEF set_NFFT_detector, shared, input
<1>4. CASE add_frequency_band
  <2>1. PICK new \in NewBands :
            /\ frequency_bands' = frequency_bands \cup new
            /\ caller' = IF new = {} THEN "idle" ELSE "clear"
    BY <1>4 DEF add_frequency_band
  <2>2. new \subseteq Nat \X Nat
    BY <2>1, BandsArePairs
  <2>3. frequency_bands' \subseteq Nat \X Nat
    BY <2>1, <2>2
  <2>4. QED
    BY <1>4, <2>1, <2>3, BoundsAssumption
       DEF add_frequency_band, Call, shared, input
<1>5. CASE clear_frequency_bands
  BY <1>5, BoundsAssumption DEF clear_frequency_bands, Call, shared, input
<1>6. CASE reset_frequency_band
  <2>1. frequency_bands' \subseteq Nat \X Nat
    BY <1>6, BandsArePairs DEF reset_frequency_band
  <2>2. QED
    BY <1>6, <2>1, BoundsAssumption
       DEF reset_frequency_band, Call, shared, input
<1>7. CASE ClearActive
  BY <1>7, ActiveAreBins DEF ClearActive, input, parameters
<1>8. CASE PushActive
  BY <1>8 DEF PushActive, input, parameters
<1>9. CASE FlagUpdate
  BY <1>9 DEF FlagUpdate, input, parameters
<1>10. CASE \/ PushFrame \/ stop \/ Detector \/ UNCHANGED vars
  BY <1>10 DEF PushFrame, stop, Detector, WaitRate, First, Loop, StartUpdate,
     Restart, ResetUpdate, Get, NextFrame, Detect, vars, input, parameters,
     shared, changing
<1>11. QED
  BY <1>1, <1>2, <1>3, <1>4, <1>5, <1>6, <1>7, <1>8, <1>9, <1>10
     DEF Next, Caller

LEMMA FlagTypesNext == FlagTypes /\ [Next]_vars => FlagTypes'
<1> SUFFICES ASSUME FlagTypes, [Next]_vars
             PROVE  FlagTypes'
  OBVIOUS
<1> USE DEF FlagTypes
<1>1. CASE \/ PushFrame \/ stop \/ UNCHANGED vars
  BY <1>1 DEF PushFrame, stop, vars, input, parameters, shared, histories
<1>2. CASE \/ set_sample_rate \/ set_NFFT \/ set_noverlap \/ set_NFFT_detector
           \/ add_frequency_band \/ clear_frequency_bands
           \/ reset_frequency_band
  BY <1>2 DEF set_sample_rate, set_NFFT, set_noverlap, set_NFFT_detector,
     add_frequency_band, clear_frequency_bands, reset_frequency_band,
     input, shared, histories
<1>3. CASE ClearActive \/ PushActive \/ FlagUpdate
  BY <1>3 DEF ClearActive, PushActive, FlagUpdate, input
<1>4. CASE Detector
  BY <1>4 DEF Detector, WaitRate, First, Loop, StartUpdate, Restart,
     ResetUpdate, Get, NextFrame, Detect, Begin, input, shared, histories
<1>5. QED
  BY <1>1, <1>2, <1>3, <1>4 DEF Next, Caller

LEMMA FrameTypesNext ==
    FrameTypes /\ BandTypes /\ [Next]_vars => FrameTypes'
<1> SUFFICES ASSUME FrameTypes, BandTypes, [Next]_vars
             PROVE  FrameTypes'
  OBVIOUS
<1>1. CASE PushFrame
  <2> DEFINE frame == [packet |-> pushed + 1, nfreq |-> nfreq(fft_NFFT)]
  <2>1. /\ Enqueue(frame) /\ pushed' = pushed + 1
        /\ pushed < MaxFrames
        /\ UNCHANGED <<pc, batch, in_hand>>
    BY <1>1 DEF PushFrame, working
  <2>2. pushed + 1 \in 1..MaxFrames /\ fft_NFFT \in Sizes
    BY <2>1, BoundsAssumption DEF FrameTypes, BandTypes
  <2>3. frame \in Frames
    BY <2>2 DEF Frames
  <2> HIDE DEF frame
  <2>4. queue' \in Seq(Frames) /\ Len(queue') <= QueueLength
    BY <2>1, <2>3, Enqueued DEF FrameTypes
  <2>5. QED
    BY <2>1, <2>2, <2>4 DEF FrameTypes
<1>2. CASE First
  <2>1. queue # <<>> => Head(queue) \in Frames
    BY TailElements DEF FrameTypes
  <2>2. NoFrame \notin Frames
    BY DEF NoFrame, Frames
  <2>3. UNCHANGED <<queue, pushed, batch>>
    BY <1>2 DEF First, input
  <2>4. pc = "first" /\ (\/ /\ queue # <<>> /\ in_hand' = Head(queue)
                            /\ pc' = "loop"
                         \/ pc' = "exited" /\ in_hand' = in_hand)
    BY <1>2 DEF First
  <2>5. QED
    BY <2>1, <2>2, <2>3, <2>4 DEF FrameTypes
<1>3. CASE Get
  BY <1>3, EmptySeq, QueueAssumption DEF FrameTypes, Get
<1>4. CASE NextFrame
  <2>1. batch # <<>> => Head(batch) \in Frames
    BY TailElements DEF FrameTypes
  <2>2. NoFrame \notin Frames
    BY DEF NoFrame, Frames
  <2>3. QED
    BY <1>4, <2>1, <2>2 DEF FrameTypes, NextFrame, SelectColumns, input
<1>5. CASE Detect
  <2>1. batch # <<>> => Tail(batch) \in Seq(Frames)
    BY TailElements DEF FrameTypes
  <2>2. QED
    BY <1>5, <2>1 DEF FrameTypes, Detect, input
<1>6. CASE \/ WaitRate \/ Loop \/ StartUpdate \/ Restart \/ ResetUpdate
  BY <1>6 DEF FrameTypes, WaitRate, Loop, StartUpdate, SelectColumns,
     Restart, ResetUpdate, input
<1>7. CASE \/ stop \/ set_sample_rate \/ set_NFFT \/ set_noverlap
           \/ add_frequency_band
           \/ clear_frequency_bands \/ reset_frequency_band \/ Caller
           \/ UNCHANGED vars
  BY <1>7 DEF FrameTypes, stop, set_sample_rate, set_NFFT, set_noverlap,
     add_frequency_band, clear_frequency_bands, reset_frequency_band,
     Caller, set_NFFT_detector, ClearActive, PushActive, FlagUpdate,
     vars, input, working
<1>8. QED
  BY <1>1, <1>2, <1>3, <1>4, <1>5, <1>6, <1>7 DEF Next, Detector

LEMMA WorkTypesNext ==
    WorkTypes /\ BandTypes /\ [Next]_vars => WorkTypes'
<1> SUFFICES ASSUME WorkTypes, BandTypes, [Next]_vars
             PROVE  WorkTypes'
  OBVIOUS
<1>1. CASE StartUpdate \/ NextFrame
  BY <1>1 DEF WorkTypes, BandTypes, StartUpdate, NextFrame, SelectColumns
<1>2. CASE Restart \/ Detect
  BY <1>2 DEF WorkTypes, Restart, Detect, Garbage
<1>3. CASE ~(StartUpdate \/ NextFrame \/ Restart \/ Detect)
  <2>1. UNCHANGED <<columns, averages>>
    BY <1>3 DEF Next, Caller, Detector, PushFrame, stop, set_sample_rate,
       set_NFFT, set_noverlap, add_frequency_band, clear_frequency_bands,
       reset_frequency_band, set_NFFT_detector, ClearActive, PushActive,
       FlagUpdate, WaitRate, First, Loop, ResetUpdate, Get, working, vars
  <2>2. QED
    BY <2>1 DEF WorkTypes
<1>4. QED
  BY <1>1, <1>2, <1>3

(* Every variable keeps its type: frames on their way have a number and a  *)
(* size the FFT has had, active bins exist for some size, and a frame is   *)
(* in hand wherever the detector uses one.                                 *)
THEOREM DetectorTypes == Spec => []TypeOK
<1>1. Init => WorkInv /\ TypesInv
  BY WorkInit, TypesInit
<1>2. WorkInv /\ TypesInv /\ [Next]_vars => WorkInv' /\ TypesInv'
  BY WorkNext, BandTypesNext, FlagTypesNext, FrameTypesNext, WorkTypesNext
     DEF TypesInv
<1>3. ASSUME WorkInv, TypesInv
      PROVE  TypeOK
  <2>1. /\ \A i \in DOMAIN queue : queue[i] \in Frames
        /\ \A i \in DOMAIN batch : batch[i] \in Frames
    BY <1>3 DEF TypesInv, FrameTypes
  <2>2. \A i \in DOMAIN detections : detections[i].verdict \in Verdicts
    <3>1. \A i \in DOMAIN detections : detections[i] \in AnyDetection
      BY <1>3 DEF WorkInv, SeqInv
    <3>2. QED
      BY <3>1 DEF AnyDetection
  <2>3. {keep_alive, rx_runtime_update, overlap, lost, resized}
            \subseteq BOOLEAN
    BY <1>3, Zenon DEF TypesInv, FlagTypes
  <2>4. BandTypes /\ FrameTypes /\ WorkTypes
    BY <1>3 DEF TypesInv
  <2>5. dropped \subseteq 1..pushed
    <3>1. /\ dropped \subseteq 1..(pushed - Len(queue))
          /\ Len(queue) \in Nat /\ pushed \in Nat
      BY <1>3 DEF WorkInv, SeqInv, OrderInv, Left
    <3>2. 1..(pushed - Len(queue)) \subseteq 1..pushed
      BY <3>1
    <3>3. QED
      BY <3>1, <3>2
  <2>6. QED
    BY <2>1, <2>2, <2>3, <2>4, <2>5
       DEF TypeOK, BandTypes, FrameTypes, WorkTypes
<1>4. QED
  BY <1>1, <1>2, <1>3, PTL DEF Spec
==========================================================================
