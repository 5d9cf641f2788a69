------------------------ MODULE FftFramingProofs -------------------------
(* Proofs about FftFraming for every window length, overlap, packet size,  *)
(* batch size and queue length.                                            *)
EXTENDS FftFraming, SequenceTheorems, TLAPS

(* The part of the state the framing depends on, typed and in step.        *)
BufferInv ==
    /\ q_aco \in Seq(Packet)
    /\ new_packets \in Seq(Packet)
    /\ data_buffer \in Seq(Nat)
    /\ data_timestamps = data_buffer
    /\ offset \in Nat
    /\ received \in Nat
    /\ pc \in {"start", "top", "gather", "windows", "exited"}
    /\ pc = "windows" => offset <= Len(data_buffer)
    /\ frames \in Seq(Frame)
    /\ fs \in SampleRates \cup {-1}
    /\ packet_num \in 0..IntMax
    /\ StampedWithFirstSample

LEMMA NstepType == NFFT \in Nat \ {0} /\ nstep \in 1..NFFT
BY WindowAssumption DEF nstep

LEMMA SamplesType ==
    ASSUME NEW p \in Packet
    PROVE  /\ Samples(p) \in Seq(Nat)
           /\ Len(Samples(p)) = p.cols
           /\ p.cols \in Nat \ {0}
           /\ \A i \in 1..p.cols : Samples(p)[i] = p.first + i - 1
<1>1. p.cols \in Nat \ {0} /\ p.first \in Nat
  BY QueueAssumption DEF Packet
<1>2. \A i \in 1..p.cols : p.first + i - 1 \in Nat
  BY <1>1
<1>3. Samples(p) \in Seq(Nat) /\ Len(Samples(p)) = p.cols
  BY <1>1, <1>2 DEF Samples
<1>4. QED
  BY <1>1, <1>3 DEF Samples

LEMMA RestType ==
    ASSUME NEW S, NEW q \in Seq(S), NEW n \in 0..Len(q)
    PROVE  /\ Rest(q, n) \in Seq(S)
           /\ Len(Rest(q, n)) = Len(q) - n
           /\ \A i \in 1..(Len(q) - n) : Rest(q, n)[i] = q[n + i]
BY DEF Rest

LEMMA AppendElements ==
    ASSUME NEW S, NEW q \in Seq(S), NEW e \in S
    PROVE  /\ Append(q, e) \in Seq(S)
           /\ Len(Append(q, e)) = Len(q) + 1
           /\ Append(q, e)[Len(q) + 1] = e
           /\ \A i \in 1..Len(q) : Append(q, e)[i] = q[i]
OBVIOUS

LEMMA ConcatElements ==
    ASSUME NEW S, NEW a \in Seq(S), NEW b \in Seq(S)
    PROVE  /\ a \o b \in Seq(S)
           /\ Len(a \o b) = Len(a) + Len(b)
           /\ \A i \in 1..Len(a) : (a \o b)[i] = a[i]
           /\ \A i \in (Len(a) + 1)..(Len(a) + Len(b)) :
                 (a \o b)[i] = b[i - Len(a)]
OBVIOUS

LEMMA EmptyIffNoLength ==
    ASSUME NEW S, NEW q \in Seq(S)
    PROVE  q = <<>> <=> Len(q) = 0
OBVIOUS

LEMMA SplitAndJoin ==
    ASSUME NEW S, NEW q \in Seq(S), NEW n \in 0..Len(q)
    PROVE  SubSeq(q, 1, n) \o Rest(q, n) = q
<1>1. /\ Len(q) \in Nat /\ 1 \in 1..(Len(q) + 1)
      /\ n \in (1 - 1)..Len(q) /\ Len(q) \in n..Len(q)
  OBVIOUS
<1>2. SubSeq(q, 1, n) \o SubSeq(q, n + 1, Len(q)) = SubSeq(q, 1, Len(q))
  BY <1>1, ConcatAdjacentSubSeq
<1>3. QED
  BY <1>2, SubSeqFull DEF Rest

LEMMA BufferInvInit == Init => BufferInv
BY BoundsAssumption DEF Init, BufferInv, StampedWithFirstSample

LEMMA BufferInvStep == BufferInv /\ [Next]_vars => BufferInv'
<1> SUFFICES ASSUME BufferInv, [Next]_vars
             PROVE  BufferInv'
  OBVIOUS
<1> USE DEF BufferInv
<1>1. ASSUME NEW n \in PacketCols, NEW r \in SampleRates, PushPacket(n, r)
      PROVE  BufferInv'
  <2> DEFINE p == [first |-> received + 1, cols |-> n, sample_rate |-> r]
             q == Append(q_aco, p)
  <2>1. p \in Packet /\ received' \in Nat
    BY <1>1, QueueAssumption DEF PushPacket, Packet
  <2>2. q \in Seq(Packet) /\ Tail(q) \in Seq(Packet)
    <3>1. q_aco \in Seq(Packet)
      OBVIOUS
    <3> HIDE DEF p, BufferInv
    <3>2. q \in Seq(Packet) /\ Len(q) = Len(q_aco) + 1
      BY <2>1, <3>1, AppendElements
    <3>3. q # <<>>
      BY <3>1, <3>2, EmptyIffNoLength
    <3>4. QED
      BY <3>2, <3>3
  <2>3. q_aco' \in Seq(Packet)
    BY <1>1, <2>2 DEF PushPacket
  <2>4. QED
    BY <1>1, <2>1, <2>3 DEF PushPacket, buffer, StampedWithFirstSample
<1>2. CASE stop
  BY <1>2 DEF stop, buffer, StampedWithFirstSample
<1>3. CASE FirstPacket
  <2>1. Head(q_aco) \in Packet /\ Tail(q_aco) \in Seq(Packet)
    BY <1>3 DEF FirstPacket
  <2>2. Samples(Head(q_aco)) \in Seq(Nat)
    BY <2>1, SamplesType
  <2>3. QED
    BY <1>3, <2>1, <2>2 DEF FirstPacket, StampedWithFirstSample
<1>4. CASE Take
  <2> DEFINE n == IF Len(q_aco) < PopLimit THEN Len(q_aco) ELSE PopLimit
  <2>1. n \in 0..Len(q_aco)
    BY QueueAssumption
  <2>2. Rest(q_aco, n) \in Seq(Packet)
    BY <2>1, RestType
  <2>3. SubSeq(q_aco, 1, n) \in Seq(Packet)
    BY <2>1
  <2>4. QED
    BY <1>4, <2>2, <2>3 DEF Take, buffer, StampedWithFirstSample
<1>5. CASE Exit
  BY <1>5 DEF Exit, intake, buffer, StampedWithFirstSample
<1>6. CASE Copy
  <2>1. Head(new_packets) \in Packet /\ Tail(new_packets) \in Seq(Packet)
    BY <1>6 DEF Copy
  <2>2. Samples(Head(new_packets)) \in Seq(Nat)
    BY <2>1, SamplesType
  <2>3. Head(new_packets).sample_rate \in SampleRates
    BY <2>1 DEF Packet
  <2>4. data_buffer \o Samples(Head(new_packets)) \in Seq(Nat)
    BY <2>2
  <2>5. QED
    BY <1>6, <2>1, <2>3, <2>4 DEF Copy, intake, StampedWithFirstSample
<1>7. CASE Look
  BY <1>7 DEF Look, intake, buffer, StampedWithFirstSample
<1>8. CASE Window
  <2> DEFINE s == SubSeq(data_buffer, offset + 1, offset + NFFT)
             f == [start_time |-> data_timestamps[offset + 1], samples |-> s,
                   FS |-> fs, packet_num |-> packet_num]
  <2>1. offset + NFFT <= Len(data_buffer) /\ offset + nstep \in Nat
    BY <1>8, NstepType DEF Window, WindowFits
  <2>2. s \in Seq(Nat) /\ s[1] = data_buffer[offset + 1]
    BY <2>1, NstepType
  <2>3. data_buffer[offset + 1] \in Nat
    BY <2>1, NstepType
  <2>4. f \in Frame
    BY <2>2, <2>3 DEF Frame
  <2>5. frames' = Append(frames, f) /\ f.start_time = f.samples[1]
    BY <1>8, <2>2 DEF Window
  <2>6. StampedWithFirstSample'
    <3> SUFFICES ASSUME NEW k \in DOMAIN frames'
                 PROVE  frames'[k].start_time = frames'[k].samples[1]
      BY DEF StampedWithFirstSample
    <3> HIDE DEF f
    <3>1. /\ k \in 1..(Len(frames) + 1)
          /\ frames'[Len(frames) + 1] = f
          /\ \A i \in 1..Len(frames) : frames'[i] = frames[i]
      BY <2>4, <2>5, AppendElements
    <3>2. CASE k = Len(frames) + 1
      BY <3>1, <3>2, <2>5
    <3>3. CASE k \in 1..Len(frames)
      <4>1. frames[k].start_time = frames[k].samples[1]
        BY <3>3 DEF StampedWithFirstSample
      <4>2. QED
        BY <3>1, <3>3, <4>1
    <3>4. QED
      BY <3>1, <3>2, <3>3
  <2>7. packet_num' \in 0..IntMax
    BY <1>8, BoundsAssumption DEF Window, NextNumber
  <2>8. offset' = offset + nstep /\ offset' <= Len(data_buffer)
    BY <1>8, <2>1, NstepType DEF Window
  <2>9. QED
    BY <1>8, <2>1, <2>4, <2>5, <2>6, <2>7, <2>8 DEF Window, intake, buffer
<1>9. CASE Drop
  <2>1. Rest(data_buffer, offset) \in Seq(Nat)
    BY <1>9, RestType DEF Drop
  <2>2. QED
    BY <1>9, <2>1 DEF Drop, intake, StampedWithFirstSample
<1>10. CASE UNCHANGED vars
  BY <1>10 DEF vars, intake, buffer, StampedWithFirstSample
<1>11. QED
  BY <1>1, <1>2, <1>3, <1>4, <1>5, <1>6, <1>7, <1>8, <1>9, <1>10 DEF Next, Fft

LEMMA BufferInvariant == Spec => []BufferInv
BY BufferInvInit, BufferInvStep, PTL DEF Spec

(* Every variable keeps its type; frame numbers stay in an int.            *)
THEOREM FramingTypes == Spec => []TypeOK
<1> DEFINE Flags == lost \in BOOLEAN /\ keep_alive \in BOOLEAN
<1>1. Init => Flags
  BY DEF Init
<1>2. Flags /\ [Next]_vars => Flags'
  BY DEF Next, PushPacket, stop, Fft, FirstPacket, Take, Exit, Copy, Look,
         Window, Drop, vars, intake
<1>3. BufferInv /\ Flags => TypeOK
  BY DEF BufferInv, TypeOK
<1> HIDE DEF Flags
<1>4. QED
  BY <1>1, <1>2, <1>3, BufferInvariant, PTL DEF Spec

(* Every frame carries the timestamp of its first sample, even when the    *)
(* queue has lost packets.                                                 *)
THEOREM FramesAreStamped == Spec => []StampedWithFirstSample
<1>1. BufferInv => StampedWithFirstSample
  BY DEF BufferInv
<1>2. QED
  BY <1>1, BufferInvariant, PTL

(* The window offset stays inside the buffer for every window length and   *)
(* overlap: the unsigned difference in the loop condition never wraps.     *)
THEOREM OffsetStaysInBuffer == Spec => []OffsetInBuffer
<1>1. BufferInv => OffsetInBuffer
  BY DEF BufferInv, OffsetInBuffer
<1>2. QED
  BY <1>1, BufferInvariant, PTL

--------------------------------------------------------------------------
(* The packets on their way to the buffer, the number of the first sample  *)
(* among them, that of the sample before the buffer, and of the sample the *)
(* next window starts with.                                                *)
Pend == new_packets \o q_aco
Front == IF Pend = <<>> THEN received + 1 ELSE Pend[1].first
Base == Front - Len(data_buffer) - 1
Off == IF pc = "windows" THEN offset ELSE 0
NextStart ==
    IF frames = <<>> THEN 1 ELSE frames[Len(frames)].samples[1] + nstep

Chain ==
    \A i \in 1..Len(Pend) :
        Pend[i].first + Pend[i].cols =
            IF i = Len(Pend) THEN received + 1 ELSE Pend[i + 1].first

Contents == \A i \in 1..Len(data_buffer) : data_buffer[i] = Base + i

Window1(k) == [i \in 1..NFFT |-> frames[k].samples[1] + i - 1]

FramesSoFar ==
    /\ frames # <<>> => frames[1].samples[1] = 1
    /\ \A k \in 1..(Len(frames) - 1) :
          frames[k + 1].samples[1] = frames[k].samples[1] + nstep
    /\ \A k \in DOMAIN frames : frames[k].samples = Window1(k)

TileInv ==
    /\ lost \in BOOLEAN
    /\ pc # "gather" => new_packets = <<>>
    /\ pc = "start" => data_buffer = <<>> /\ frames = <<>>
    /\ ~lost => /\ Chain
                /\ Contents
                /\ NextStart = Base + Off + 1
                /\ FramesSoFar

LEMMA PendType ==
    ASSUME BufferInv
    PROVE  /\ Pend \in Seq(Packet)
           /\ Len(Pend) = Len(new_packets) + Len(q_aco)
           /\ \A p \in Packet : p.first \in Nat /\ p.cols \in Nat \ {0}
           /\ Front \in Nat
           /\ Base \in Int
<1>1. Pend \in Seq(Packet) /\ Len(Pend) = Len(new_packets) + Len(q_aco)
  BY DEF BufferInv, Pend
<1>2. \A p \in Packet : p.first \in Nat /\ p.cols \in Nat \ {0}
  BY QueueAssumption DEF Packet
<1>3. Pend # <<>> => Pend[1] \in Packet
  BY <1>1
<1>4. Front \in Nat
  BY <1>2, <1>3 DEF Front, BufferInv
<1>5. QED
  BY <1>1, <1>2, <1>4 DEF Base, BufferInv

(* Moving the packet in front from the packets on their way to the buffer  *)
(* keeps the numbering.                                                    *)
LEMMA MoveFront ==
    ASSUME BufferInv, BufferInv', TileInv, ~lost, Pend # <<>>,
           Pend' = Tail(Pend),
           data_buffer' = data_buffer \o Samples(Pend[1]),
           received' = received
    PROVE  Chain' /\ Contents' /\ Base' = Base
<1> DEFINE p == Pend[1]
           n == Len(data_buffer)
<1>1. p \in Packet /\ p.first = Front /\ p.cols \in Nat \ {0} /\ p.first \in Nat
  BY PendType DEF Front
<1>2. /\ Samples(p) \in Seq(Nat)
      /\ Len(Samples(p)) = p.cols
      /\ \A i \in 1..p.cols : Samples(p)[i] = p.first + i - 1
  BY <1>1, SamplesType
<1>3. n \in Nat /\ data_buffer \in Seq(Nat)
  BY DEF BufferInv
<1>4. /\ Len(data_buffer') = n + p.cols
      /\ \A i \in 1..n : data_buffer'[i] = data_buffer[i]
      /\ \A i \in (n + 1)..(n + p.cols) : data_buffer'[i] = Samples(p)[i - n]
  <2> HIDE DEF p
  <2>1. data_buffer' = data_buffer \o Samples(p)
    BY DEF p
  <2>2. QED
    BY <1>2, <1>3, <2>1, ConcatElements
<1>5. /\ Pend \in Seq(Packet) /\ Len(Pend) \in Nat \ {0}
      /\ Pend' \in Seq(Packet)
      /\ Len(Pend') = Len(Pend) - 1
      /\ \A i \in 1..Len(Pend') : Pend'[i] = Pend[i + 1]
  BY PendType
<1>6. Chain
  BY DEF TileInv
<1>7. Pend' = <<>> <=> Len(Pend) = 1
  <2>1. Pend' = <<>> <=> Len(Pend') = 0
    BY <1>5, EmptyIffNoLength
  <2>2. QED
    BY <1>5, <2>1
<1>8. Front' = p.first + p.cols
  <2>1. CASE Len(Pend) = 1
    <3>1. p.first + p.cols = received + 1
      BY <1>5, <1>6, <2>1 DEF Chain
    <3>2. QED
      BY <1>7, <2>1, <3>1 DEF Front
  <2>2. CASE Len(Pend) > 1
    <3>0. 1 \in 1..Len(Pend) /\ 1 # Len(Pend) /\ 1 + 1 = 2
      BY <1>5, <2>2
    <3>1. p.first + p.cols = Pend[2].first
      BY <1>6, <3>0 DEF Chain
    <3>2. Pend'[1] = Pend[2]
      BY <1>5, <2>2
    <3>3. Pend' # <<>>
      BY <1>5, <1>7, <2>2
    <3>4. QED
      BY <3>1, <3>2, <3>3 DEF Front
  <2>3. QED
    BY <1>5, <2>1, <2>2
<1>9. Base' = Base
  BY <1>1, <1>3, <1>4, <1>8 DEF Base
<1>10. Contents'
  <2> SUFFICES ASSUME NEW i \in 1..Len(data_buffer')
               PROVE  data_buffer'[i] = Base + i
    BY <1>9 DEF Contents
  <2>1. CASE i <= n
    <3>1. data_buffer[i] = Base + i
      BY <1>3, <2>1 DEF TileInv, Contents
    <3>2. QED
      BY <1>3, <1>4, <2>1, <3>1
  <2>2. CASE i > n
    <3>1. data_buffer'[i] = p.first + (i - n) - 1
      BY <1>1, <1>2, <1>3, <1>4, <2>2
    <3>2. QED
      BY <1>1, <1>3, <3>1 DEF Base
  <2>3. QED
    BY <1>1, <1>3, <1>4, <2>1, <2>2
<1>11. Chain'
  <2> SUFFICES ASSUME NEW i \in 1..Len(Pend')
               PROVE  Pend'[i].first + Pend'[i].cols =
                        IF i = Len(Pend') THEN received + 1
                        ELSE Pend'[i + 1].first
    BY DEF Chain
  <2>0. i + 1 \in 1..Len(Pend) /\ (i + 1 = Len(Pend) <=> i = Len(Pend'))
    BY <1>5
  <2>1. Pend[i + 1].first + Pend[i + 1].cols =
          IF i + 1 = Len(Pend) THEN received + 1 ELSE Pend[(i + 1) + 1].first
    BY <1>6, <2>0 DEF Chain
  <2>2. Pend'[i] = Pend[i + 1]
    BY <1>5
  <2>3. ASSUME i # Len(Pend') PROVE Pend'[i + 1] = Pend[(i + 1) + 1]
    <3>1. i + 1 \in 1..Len(Pend')
      <4>1. Len(Pend') \in Nat /\ i \in Int /\ 1 <= i /\ i <= Len(Pend')
        BY <1>5
      <4>2. QED
        BY <2>3, <4>1
    <3>2. QED
      BY <1>5, <3>1
  <2>4. QED
    BY <2>0, <2>1, <2>2, <2>3
<1>12. QED
  BY <1>9, <1>10, <1>11

LEMMA TileInvInit == Init => TileInv
<1> SUFFICES ASSUME Init PROVE TileInv
  OBVIOUS
<1>1. Pend = <<>> /\ Len(Pend) = 0 /\ Len(data_buffer) = 0
  BY DEF Init, Pend
<1>2. Front = 1 /\ Base = 0 /\ Off = 0 /\ NextStart = 1
  <2>1. received = 0 /\ frames = <<>> /\ pc = "start"
    BY DEF Init
  <2>2. Front = 1
    BY <1>1, <2>1 DEF Front
  <2>3. Base = 0
    BY <1>1, <2>2 DEF Base
  <2>4. QED
    BY <2>1, <2>2, <2>3 DEF Off, NextStart
<1>3. Chain /\ Contents
  BY <1>1 DEF Chain, Contents
<1>4. FramesSoFar
  <2>1. Len(frames) = 0 /\ DOMAIN frames = {}
    BY DEF Init
  <2>2. QED
    BY <2>1 DEF FramesSoFar, Init
<1>5. NextStart = Base + Off + 1
  BY <1>2
<1>6. /\ lost = FALSE /\ pc = "start" /\ new_packets = <<>>
      /\ data_buffer = <<>> /\ frames = <<>>
  BY DEF Init
<1>7. QED
  BY <1>3, <1>4, <1>5, <1>6 DEF TileInv

(* A packet pushed without overflow extends the chain at its end.          *)
LEMMA ExtendChain ==
    ASSUME BufferInv, TileInv, ~lost, NEW p \in Packet,
           p.first = received + 1,
           Pend' = Append(Pend, p),
           received' = received + p.cols
    PROVE  Chain' /\ Front' = Front
<1>1. /\ Pend \in Seq(Packet)
      /\ Len(Pend) \in Nat
      /\ Len(Pend') = Len(Pend) + 1
      /\ Pend'[Len(Pend) + 1] = p
      /\ \A i \in 1..Len(Pend) : Pend'[i] = Pend[i]
  BY PendType, AppendElements
<1>2. received \in Nat /\ p.cols \in Nat
  BY PendType DEF BufferInv
<1>3. Pend' # <<>>
  BY <1>1
<1>4. Front' = Front
  <2>1. CASE Pend = <<>>
    <3>1. Len(Pend) = 0
      BY <2>1
    <3>2. Pend'[1] = p
      BY <1>1, <3>1
    <3>3. QED
      BY <1>3, <2>1, <3>2 DEF Front
  <2>2. CASE Pend # <<>>
    <3>1. 1 \in 1..Len(Pend)
      BY <1>1, <2>2, EmptyIffNoLength
    <3>2. QED
      BY <1>1, <1>3, <2>2, <3>1 DEF Front
  <2>3. QED
    BY <2>1, <2>2
<1>5. Chain'
  <2> SUFFICES ASSUME NEW i \in 1..Len(Pend')
               PROVE  Pend'[i].first + Pend'[i].cols =
                        IF i = Len(Pend') THEN received' + 1
                        ELSE Pend'[i + 1].first
    BY DEF Chain
  <2>1. CASE i = Len(Pend) + 1
    BY <1>1, <1>2, <2>1
  <2>2. CASE i \in 1..Len(Pend)
    <3>1. Pend[i].first + Pend[i].cols =
            IF i = Len(Pend) THEN received + 1 ELSE Pend[i + 1].first
      BY <2>2 DEF TileInv, Chain
    <3>2. Pend'[i] = Pend[i] /\ i # Len(Pend')
      BY <1>1, <2>2
    <3>3. Pend'[i + 1] = IF i = Len(Pend) THEN p ELSE Pend[i + 1]
      <4>1. i # Len(Pend) => i + 1 \in 1..Len(Pend)
        BY <1>1, <2>2
      <4>2. QED
        BY <1>1, <4>1
    <3>4. QED
      BY <3>1, <3>2, <3>3
  <2>3. QED
    BY <1>1, <2>1, <2>2
<1>6. QED
  BY <1>4, <1>5

LEMMA TileInvPush ==
    ASSUME BufferInv, BufferInv', TileInv,
           NEW n \in PacketCols, NEW r \in SampleRates, PushPacket(n, r)
    PROVE  TileInv'
<1> DEFINE p == [first |-> received + 1, cols |-> n, sample_rate |-> r]
<1>1. UNCHANGED <<pc, new_packets, data_buffer, offset, frames>> /\ lost' \in BOOLEAN
  BY DEF PushPacket, buffer, TileInv
<1>2. CASE lost'
  BY <1>1, <1>2 DEF TileInv
<1>3. CASE ~lost'
  <2>1. p \in Packet
    BY QueueAssumption DEF BufferInv, Packet
  <2>2. ~lost /\ q_aco' = Append(q_aco, p) /\ received' = received + n
    BY <1>3 DEF PushPacket
  <2>3. Pend' = Append(Pend, p)
    BY <1>1, <2>1, <2>2 DEF Pend, BufferInv
  <2>4. Chain' /\ Front' = Front
    <3>1. p.first = received + 1 /\ p.cols = n
      OBVIOUS
    <3> HIDE DEF p
    <3>2. QED
      BY <2>1, <2>2, <2>3, <3>1, ExtendChain
  <2>5. Base' = Base /\ Off' = Off /\ NextStart' = NextStart
    BY <1>1, <2>4 DEF Base, Off, NextStart
  <2>6. QED
    BY <1>1, <2>2, <2>4, <2>5 DEF TileInv, Contents, FramesSoFar, Window1
<1>4. QED
  BY <1>1, <1>2, <1>3

LEMMA TileInvFirstPacket ==
    ASSUME BufferInv, BufferInv', TileInv, FirstPacket
    PROVE  TileInv'
<1>1. /\ pc' = "top" /\ pc = "start"
      /\ UNCHANGED <<received, lost, new_packets, frames>>
      /\ q_aco # <<>> /\ q_aco' = Tail(q_aco)
      /\ new_packets = <<>> /\ data_buffer = <<>> /\ frames = <<>>
  BY DEF FirstPacket, TileInv
<1>2. Pend = q_aco /\ Pend' = Tail(Pend) /\ Pend # <<>>
  BY <1>1 DEF Pend, BufferInv
<1>3. data_buffer' = data_buffer \o Samples(Pend[1])
  <2>1. Pend[1] = Head(q_aco) /\ Head(q_aco) \in Packet
    BY <1>1, <1>2 DEF BufferInv
  <2>2. Samples(Head(q_aco)) \in Seq(Nat)
    BY <2>1, SamplesType
  <2>3. data_buffer' = Samples(Head(q_aco))
    BY DEF FirstPacket
  <2>4. QED
    BY <1>1, <2>1, <2>2, <2>3
<1>4. ASSUME ~lost PROVE Chain' /\ Contents' /\ Base' = Base
  BY <1>1, <1>2, <1>3, <1>4, MoveFront
<1>5. Off' = Off /\ NextStart' = NextStart /\ (FramesSoFar => FramesSoFar')
  BY <1>1 DEF Off, NextStart, FramesSoFar, Window1
<1>6. QED
  BY <1>1, <1>4, <1>5 DEF TileInv

LEMMA TileInvTake ==
    ASSUME BufferInv, BufferInv', TileInv, Take
    PROVE  TileInv'
<1> DEFINE n == IF Len(q_aco) < PopLimit THEN Len(q_aco) ELSE PopLimit
<1>1. /\ pc' = "gather" /\ pc = "top" /\ new_packets = <<>>
      /\ UNCHANGED <<received, lost, data_buffer, frames>>
      /\ q_aco' = Rest(q_aco, n) /\ new_packets' = SubSeq(q_aco, 1, n)
  BY DEF Take, TileInv, buffer
<1>2. n \in 0..Len(q_aco)
  BY QueueAssumption DEF BufferInv
<1>3. Pend' = Pend
  <2>1. SubSeq(q_aco, 1, n) \o Rest(q_aco, n) = q_aco
    <3> HIDE DEF n
    <3>1. QED
      BY <1>2, SplitAndJoin DEF BufferInv
  <2>2. QED
    BY <1>1, <2>1 DEF Pend, BufferInv
<1>4. Front' = Front /\ (Chain => Chain')
  BY <1>1, <1>3 DEF Front, Chain
<1>5. Base' = Base /\ Off' = Off /\ NextStart' = NextStart
  BY <1>1, <1>4 DEF Base, Off, NextStart
<1>6. (Contents => Contents') /\ (FramesSoFar => FramesSoFar')
  BY <1>1, <1>5 DEF Contents, FramesSoFar, Window1
<1>7. QED
  BY <1>1, <1>4, <1>5, <1>6 DEF TileInv

LEMMA TileInvCopy ==
    ASSUME BufferInv, BufferInv', TileInv, Copy
    PROVE  TileInv'
<1>1. /\ pc' = "gather" /\ pc = "gather"
      /\ UNCHANGED <<received, lost, q_aco, frames>>
      /\ new_packets # <<>> /\ new_packets' = Tail(new_packets)
      /\ data_buffer' = data_buffer \o Samples(Head(new_packets))
  BY DEF Copy, intake
<1>2. Pend' = Tail(Pend) /\ Pend # <<>> /\ Pend[1] = Head(new_packets)
  <2>1. new_packets \in Seq(Packet) /\ q_aco \in Seq(Packet)
    BY DEF BufferInv
  <2>2. QED
    BY <1>1, <2>1 DEF Pend
<1>3. ASSUME ~lost PROVE Chain' /\ Contents' /\ Base' = Base
  BY <1>1, <1>2, <1>3, MoveFront
<1>4. Off' = Off /\ NextStart' = NextStart /\ (FramesSoFar => FramesSoFar')
  BY <1>1 DEF Off, NextStart, FramesSoFar, Window1
<1>5. QED
  BY <1>1, <1>3, <1>4 DEF TileInv

(* Steps that leave samples and frames alone.                              *)
LEMMA TileInvSame ==
    ASSUME BufferInv, TileInv,
           UNCHANGED <<q_aco, received, lost, new_packets, data_buffer, frames>>,
           Off' = Off, pc' = "start" => pc = "start",
           pc' # "gather" => new_packets = <<>>
    PROVE  TileInv'
<1>1. Pend' = Pend
  BY DEF Pend
<1>2. Front' = Front /\ (Chain => Chain')
  BY <1>1 DEF Front, Chain
<1>3. Base' = Base /\ NextStart' = NextStart
  BY <1>2 DEF Base, NextStart
<1>4. (Contents => Contents') /\ (FramesSoFar => FramesSoFar')
  BY <1>3 DEF Contents, FramesSoFar, Window1
<1>5. QED
  BY <1>2, <1>3, <1>4 DEF TileInv

LEMMA TileInvDrop ==
    ASSUME BufferInv, BufferInv', TileInv, Drop
    PROVE  TileInv'
<1>1. /\ pc' = "top" /\ pc = "windows"
      /\ UNCHANGED <<q_aco, received, lost, new_packets, frames>>
      /\ new_packets = <<>> /\ offset \in 0..Len(data_buffer)
      /\ data_buffer' = Rest(data_buffer, offset)
  BY DEF Drop, TileInv, intake, BufferInv
<1>2. /\ Len(data_buffer') = Len(data_buffer) - offset
      /\ \A i \in 1..(Len(data_buffer) - offset) :
            data_buffer'[i] = data_buffer[offset + i]
  BY <1>1, RestType DEF BufferInv
<1>3. Front' = Front /\ (Chain => Chain') /\ NextStart' = NextStart
  BY <1>1 DEF Pend, Front, Chain, NextStart
<1>4. Base' = Base + offset /\ Off' = 0 /\ Off = offset /\ Base \in Int
  BY <1>1, <1>2, <1>3, PendType DEF Base, Off
<1>5. ASSUME Contents PROVE Contents'
  <2> SUFFICES ASSUME NEW i \in 1..Len(data_buffer')
               PROVE  data_buffer'[i] = Base' + i
    BY DEF Contents
  <2>1. offset + i \in 1..Len(data_buffer) /\ i \in 1..(Len(data_buffer) - offset)
    BY <1>1, <1>2
  <2>2. data_buffer[offset + i] = Base + (offset + i)
    BY <1>5, <2>1 DEF Contents
  <2>3. QED
    BY <1>1, <1>2, <1>4, <2>1, <2>2
<1>6. FramesSoFar => FramesSoFar'
  BY <1>1 DEF FramesSoFar, Window1
<1>7. NextStart = Base + Off + 1 => NextStart' = Base' + Off' + 1
  BY <1>1, <1>3, <1>4
<1>8. QED
  BY <1>1, <1>3, <1>5, <1>6, <1>7 DEF TileInv

LEMMA TileInvWindow ==
    ASSUME BufferInv, BufferInv', TileInv, Window
    PROVE  TileInv'
<1> DEFINE b == data_buffer[offset + 1]
           n == Len(frames)
           w == SubSeq(data_buffer, offset + 1, offset + NFFT)
           f == [start_time |-> data_timestamps[offset + 1], samples |-> w,
                 FS |-> fs, packet_num |-> packet_num]
<1>1. /\ pc = "windows" /\ pc' = "windows" /\ new_packets = <<>>
      /\ UNCHANGED <<q_aco, received, lost, new_packets, data_buffer>>
      /\ offset' = offset + nstep
      /\ frames' = Append(frames, f)
  BY DEF Window, intake, buffer, TileInv
<1>2. /\ offset \in Nat /\ offset + NFFT <= Len(data_buffer)
      /\ data_buffer \in Seq(Nat) /\ frames \in Seq(Frame) /\ Base \in Int
  BY NstepType, PendType DEF Window, WindowFits, BufferInv
<1>3. w \in Seq(Nat) /\ Len(w) = NFFT /\ \A i \in 1..NFFT : w[i] = data_buffer[offset + i]
  BY <1>2, NstepType
<1>4. f \in Frame /\ f.samples = w
  <2>1. data_timestamps[offset + 1] \in Nat
    BY <1>2, NstepType DEF BufferInv
  <2>2. QED
    BY <1>3, <2>1 DEF BufferInv, Frame
<1> HIDE DEF w, f
<1>5. /\ Len(frames') = n + 1 /\ n \in Nat
      /\ frames'[n + 1] = f
      /\ \A k \in 1..n : frames'[k] = frames[k]
      /\ frames' # <<>>
  BY <1>1, <1>2, <1>4, AppendElements
<1>6. /\ UNCHANGED <<Pend, Front, Base>> /\ (Chain => Chain') /\ (Contents => Contents')
  BY <1>1 DEF Pend, Front, Base, Chain, Contents
<1>7. Off = offset /\ Off' = offset + nstep
  BY <1>1 DEF Off
<1>8. ASSUME ~lost PROVE NextStart' = Base' + Off' + 1 /\ FramesSoFar'
  <2>1. Contents /\ NextStart = Base + Off + 1 /\ FramesSoFar
    BY <1>8 DEF TileInv
  <2>2. \A i \in 1..NFFT : w[i] = Base + (offset + i)
    <3> SUFFICES ASSUME NEW i \in 1..NFFT PROVE w[i] = Base + (offset + i)
      OBVIOUS
    <3>1. offset + i \in 1..Len(data_buffer)
      BY <1>2, NstepType
    <3>2. QED
      BY <1>3, <2>1, <3>1 DEF Contents
  <2>3. 1 \in 1..NFFT /\ w[1] = Base + offset + 1
    BY <1>2, <2>2, NstepType
  <2>4. NextStart' = w[1] + nstep
    BY <1>4, <1>5 DEF NextStart
  <2>5. NextStart' = Base' + Off' + 1
    BY <1>2, <1>6, <1>7, <2>3, <2>4, NstepType
  <2>6. w[1] = NextStart
    BY <1>2, <1>7, <2>1, <2>3
  <2>7. frames'[1].samples[1] = 1
    <3>1. CASE n = 0
      <4>1. frames = <<>>
        BY <1>2, <3>1
      <4>2. QED
        BY <1>4, <1>5, <2>6, <3>1, <4>1 DEF NextStart
    <3>2. CASE n > 0
      <4>1. frames # <<>> /\ 1 \in 1..n
        BY <1>5, <3>2
      <4>2. QED
        BY <1>5, <2>1, <4>1 DEF FramesSoFar
    <3>3. QED
      BY <1>5, <3>1, <3>2
  <2>8. ASSUME NEW k \in 1..(Len(frames') - 1)
        PROVE  frames'[k + 1].samples[1] = frames'[k].samples[1] + nstep
    <3>1. CASE k = n
      <4>1. frames # <<>> /\ n \in 1..n
        BY <1>5, <2>8, <3>1
      <4>2. frames[n].samples[1] + nstep = w[1]
        BY <2>6, <4>1 DEF NextStart
      <4>3. QED
        BY <1>4, <1>5, <3>1, <4>1, <4>2
    <3>2. CASE k # n
      <4>1. k \in 1..(n - 1) /\ k \in 1..n /\ k + 1 \in 1..n
        BY <1>5, <2>8, <3>2
      <4>2. frames[k + 1].samples[1] = frames[k].samples[1] + nstep
        BY <2>1, <4>1 DEF FramesSoFar
      <4>3. QED
        BY <1>5, <4>1, <4>2
    <3>3. QED
      BY <3>1, <3>2
  <2>9. ASSUME NEW k \in DOMAIN frames'
        PROVE  frames'[k].samples = [i \in 1..NFFT |-> frames'[k].samples[1] + i - 1]
    <3>1. k \in 1..(n + 1)
      BY <1>1, <1>2, <1>4, <1>5, AppendElements
    <3>2. CASE k = n + 1
      <4>1. w = [i \in 1..NFFT |-> w[1] + i - 1]
        <5>1. DOMAIN w = 1..NFFT
          BY <1>3
        <5>2. \A i \in 1..NFFT : w[i] = w[1] + i - 1
          BY <1>2, <2>2, <2>3, NstepType
        <5>3. w = [i \in 1..NFFT |-> w[i]]
          BY <1>3, <5>1
        <5>4. QED
          BY <5>2, <5>3
      <4>2. QED
        BY <1>4, <1>5, <3>2, <4>1
    <3>3. CASE k \in 1..n
      <4>1. frames[k].samples = Window1(k)
        BY <1>2, <2>1, <3>3 DEF FramesSoFar
      <4>2. QED
        BY <1>5, <3>3, <4>1 DEF Window1
    <3>4. QED
      BY <1>5, <3>1, <3>2, <3>3
  <2>10. FramesSoFar'
    BY <2>7, <2>8, <2>9 DEF FramesSoFar, Window1
  <2>11. QED
    BY <2>5, <2>10
<1>9. QED
  BY <1>1, <1>6, <1>8 DEF TileInv

LEMMA TileInvStep == BufferInv /\ BufferInv' /\ TileInv /\ [Next]_vars => TileInv'
<1> SUFFICES ASSUME BufferInv, BufferInv', TileInv, [Next]_vars
             PROVE  TileInv'
  OBVIOUS
<1>1. ASSUME NEW n \in PacketCols, NEW r \in SampleRates, PushPacket(n, r)
      PROVE  TileInv'
  BY <1>1, TileInvPush
<1>2. CASE stop \/ Exit \/ UNCHANGED vars
  BY <1>2, TileInvSame DEF stop, Exit, vars, intake, buffer, Off, TileInv
<1>3. CASE Look
  <2>1. Off' = Off
    BY <1>3 DEF Look, Off
  <2>2. QED
    BY <1>3, <2>1, TileInvSame DEF Look, intake, buffer
<1>4. QED
  BY <1>1, <1>2, <1>3, TileInvFirstPacket, TileInvTake, TileInvCopy,
     TileInvWindow, TileInvDrop DEF Next, Fft

(* However the samples come in packets and the packets in batches, and     *)
(* whatever the window length and overlap, as long as q_aco did not        *)
(* overflow the frames are the consecutive windows of the stream.          *)
THEOREM FramesAreTheWindows == Spec => []FramesTileTheStream
<1>1. TileInv => FramesTileTheStream
  BY DEF TileInv, FramesSoFar, Window1, FramesTileTheStream
<1>2. QED
  BY <1>1, BufferInvariant, TileInvInit, TileInvStep, PTL DEF Spec
==========================================================================
