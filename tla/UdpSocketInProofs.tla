------------------------ MODULE UdpSocketInProofs ------------------------
(* Theorems about what the socket thread makes of datagrams and who gets   *)
(* it: the reassembly of raw beamformer frames, for every number of frames *)
(* and parts and every pattern of loss, repetition and reordering; the     *)
(* loop over the queues of the clients, for any datagrams and clients; and *)
(* the queue of one sensor with its takers, for any number of records.     *)
EXTENDS BeamReassembly, SensorQueue, Datagrams, TLAPS, FiniteSetTheorems,
        WellFoundedInduction

--------------------------------------------------------------------------
(* BeamReassembly.                                                         *)

(* Frame f while the parts in the set held are in.                         *)
Parts(f, held) == [i \in Indices(f) |-> IF i \in held THEN <<f, i>> ELSE Blank]
Partial(f, held) == Beam(f, Parts(f, held), held, <<>>)

(* Frame f after it has been parsed.                                       *)
Parsed(f) == Beam(f, <<>>, {}, WholeFrame(f))

LEMMA FrameFacts ==
    ASSUME NEW f \in Frames
    PROVE  /\ NumSubpackets[f] \in Nat /\ NumSubpackets[f] > 0
           /\ 0 \in Indices(f)
           /\ IsFiniteSet(Indices(f))
           /\ Cardinality(Indices(f)) = NumSubpackets[f]
<1>1. NumSubpackets[f] \in Nat /\ NumSubpackets[f] > 0
  BY FramesAssumption DEF Frames
<1>2. 0 \in Indices(f)
  BY <1>1 DEF Indices
<1>3. IsFiniteSet(Indices(f)) /\ Cardinality(Indices(f)) = NumSubpackets[f]
  <2>1. NumSubpackets[f] - 1 \in Int /\ ~(0 > NumSubpackets[f] - 1)
    BY <1>1
  <2>2. /\ IsFiniteSet(0..(NumSubpackets[f] - 1))
        /\ Cardinality(0..(NumSubpackets[f] - 1))
              = (NumSubpackets[f] - 1) - 0 + 1
    BY <2>1, FS_Interval
  <2>3. QED
    BY <1>1, <2>2 DEF Indices
<1>4. QED
  BY <1>1, <1>2, <1>3

LEMMA WholeFrameNotEmpty ==
    ASSUME NEW f \in Frames
    PROVE  WholeFrame(f) # <<>>
<1>1. 1 \in DOMAIN WholeFrame(f)
  BY FrameFacts DEF WholeFrame
<1>2. DOMAIN <<>> = {}
  OBVIOUS
<1>3. QED
  BY <1>1, <1>2

(* The count of held parts equals num_subpackets only when all are held.   *)
LEMMA CountingIsEnough ==
    ASSUME NEW f \in Frames, NEW held \in SUBSET Indices(f)
    PROVE  Cardinality(held) = NumSubpackets[f] <=> held = Indices(f)
  BY FrameFacts, FS_Subset

(* unpack_data yields the whole frame as soon as every part is held.       *)
LEMMA UnpackResult ==
    ASSUME NEW f \in Frames, NEW held \in SUBSET Indices(f)
    PROVE  unpack_data(f, Parts(f, held), held) =
              IF held = Indices(f) THEN Parsed(f) ELSE Partial(f, held)
<1>1. CASE held = Indices(f)
  <2>1. [i \in 1..NumSubpackets[f] |-> Parts(f, held)[i - 1]] = WholeFrame(f)
    BY <1>1, FrameFacts DEF Parts, WholeFrame, Indices
  <2>2. QED
    BY <1>1, <2>1, CountingIsEnough DEF unpack_data, Parsed
<1>2. CASE held # Indices(f)
  BY <1>2, CountingIsEnough DEF unpack_data, Partial
<1>3. QED
  BY <1>1, <1>2

LEMMA PrimaryResult ==
    ASSUME NEW m \in Datagrams, m.index = 0
    PROVE  /\ m.packet_num \in Frames
           /\ m = Datagram(m.packet_num, 0)
           /\ Primary(m) =
                 IF {0} = Indices(m.packet_num)
                 THEN Parsed(m.packet_num) ELSE Partial(m.packet_num, {0})
<1>1. m.packet_num \in Frames /\ m = Datagram(m.packet_num, 0)
  BY DEF Datagrams, Datagram
<1>2. [i \in Indices(m.packet_num) |-> IF i = 0 THEN Content(m) ELSE Blank]
        = Parts(m.packet_num, {0})
  BY DEF Parts, Content
<1>3. QED
  BY <1>1, <1>2, FrameFacts, UnpackResult DEF Primary

LEMMA AddResult ==
    ASSUME NEW f \in Frames, NEW held \in SUBSET Indices(f),
           NEW i \in Indices(f)
    PROVE  add_cont_packet(Partial(f, held), Datagram(f, i)) =
              IF held \cup {i} = Indices(f)
              THEN Parsed(f) ELSE Partial(f, held \cup {i})
<1>1. [Parts(f, held) EXCEPT ![i] = <<f, i>>] = Parts(f, held \cup {i})
  BY DEF Parts
<1>2. /\ Partial(f, held).packet_num = f
      /\ Partial(f, held).binary_payload = Parts(f, held)
      /\ Partial(f, held).binary_payload_indices = held
      /\ Datagram(f, i).index = i
      /\ Content(Datagram(f, i)) = <<f, i>>
  BY DEF Partial, Beam, Datagram, Content
<1>3. add_cont_packet(Partial(f, held), Datagram(f, i))
        = unpack_data(f, Parts(f, held \cup {i}), held \cup {i})
  BY <1>1, <1>2 DEF add_cont_packet
<1>4. QED
  BY <1>3, UnpackResult

--------------------------------------------------------------------------
(* The inductive invariant.                                                *)

Pushed(f) == [packet_num |-> f, data |-> WholeFrame(f)]
PushedPartial(f) == [packet_num |-> f, data |-> <<>>]

(* The frame in hand holds exactly the parts seen since its primary, or    *)
(* has been parsed, and then it is what was pushed last.                   *)
Assembling ==
    \E f \in Frames : \E held \in SUBSET Indices(f) :
        /\ 0 \in held /\ held # Indices(f)
        /\ beam_raw_0 = Partial(f, held)
        /\ seen = {Datagram(f, i) : i \in held}

Done ==
    \E f \in Frames :
        /\ beam_raw_0 = Parsed(f)
        /\ beams # <<>> /\ beams[Len(beams)] = Pushed(f)

BeamInv ==
    /\ beams \in Seq({Pushed(f) : f \in Frames} \cup {PushedPartial(f) : f \in Frames})
    /\ beam_raw_0 = NoFrame \/ Assembling \/ Done
    /\ status = "running" \/ beam_raw_0 = NoFrame \/ Done

LEMMA FramesDiffer ==
    ASSUME NEW f \in Frames, NEW held
    PROVE  /\ Partial(f, held) # NoFrame /\ Parsed(f) # NoFrame
           /\ Partial(f, held).packet_num = f /\ Parsed(f).packet_num = f
           /\ Partial(f, held).data = <<>> /\ Parsed(f).data = WholeFrame(f)
           /\ Partial(f, held).binary_payload_indices = held
           /\ Parsed(f).binary_payload_indices = {}
           /\ DOMAIN Partial(f, held).binary_payload = Indices(f)
           /\ DOMAIN Parsed(f).binary_payload = {}
<1>1. NoFrame.packet_num = 0 /\ f # 0
  BY DEF NoFrame, Beam, Frames
<1>2. Partial(f, held).packet_num = f /\ Parsed(f).packet_num = f
  BY DEF Partial, Parsed, Beam
<1>3. QED
  BY <1>1, <1>2 DEF Partial, Parsed, Parts, Beam

LEMMA DatagramFields ==
    ASSUME NEW m \in Datagrams
    PROVE  /\ m.packet_num \in Frames /\ m.index \in Indices(m.packet_num)
           /\ m = Datagram(m.packet_num, m.index)
  BY DEF Datagrams, Datagram

(* Pushing a frame appends it.                                             *)
LEMMA PushParsed ==
    ASSUME BeamInv, NEW f \in Frames, Push(Parsed(f)), beam_raw_0' = Parsed(f)
    PROVE  /\ beams' \in Seq({Pushed(g) : g \in Frames}
                               \cup {PushedPartial(g) : g \in Frames})
           /\ Done'
<1>1. beams' = Append(beams, Pushed(f))
  BY FramesDiffer DEF Push, Pushed
<1>2. Pushed(f) \in {Pushed(g) : g \in Frames}
  OBVIOUS
<1> DEFINE S == {Pushed(g) : g \in Frames} \cup {PushedPartial(g) : g \in Frames}
<1>3. beams \in Seq(S) /\ Pushed(f) \in S
  BY <1>2 DEF BeamInv
<1> HIDE DEF S
<1>4. beams' \in Seq(S) /\ beams' # <<>> /\ beams'[Len(beams')] = Pushed(f)
  BY <1>1, <1>3
<1>5. QED
  BY <1>4 DEF S, Done

LEMMA BeamInvInductive ==
    BeamInv /\ [BeamNext]_beamVars => BeamInv'
<1> SUFFICES ASSUME BeamInv, [BeamNext]_beamVars
             PROVE  BeamInv'
  OBVIOUS
<1> DEFINE S == {Pushed(g) : g \in Frames} \cup {PushedPartial(g) : g \in Frames}
<1>1. CASE UNCHANGED <<beam_raw_0, beams, seen, status>>
  BY <1>1 DEF BeamInv, Assembling, Done
<1>2. ASSUME NEW m \in Datagrams, status = "running", RecvPrimary(m)
      PROVE  BeamInv'
  <2> DEFINE f == m.packet_num
  <2>1. f \in Frames /\ m = Datagram(f, 0) /\ status' = "running"
    BY <1>2, PrimaryResult DEF RecvPrimary
  <2>2. CASE {0} = Indices(f)
    <3>1. beam_raw_0' = Parsed(f) /\ Push(Parsed(f))
      BY <1>2, <2>2, PrimaryResult DEF RecvPrimary
    <3>2. QED
      BY <2>1, <3>1, PushParsed DEF BeamInv
  <2>3. CASE {0} # Indices(f)
    <3>1. beam_raw_0' = Partial(f, {0}) /\ Push(Partial(f, {0})) /\ seen' = {m}
      BY <1>2, <2>3, PrimaryResult DEF RecvPrimary
    <3>2. beams' = Append(beams, PushedPartial(f))
      BY <2>1, <3>1, FramesDiffer DEF Push, PushedPartial
    <3>3. beams \in Seq(S) /\ PushedPartial(f) \in S
      BY <2>1 DEF BeamInv
    <3>4. beams' \in Seq(S)
      <4> HIDE DEF S
      <4>1. QED
        BY <3>2, <3>3
    <3>5. Assembling'
      <4>1. {0} \in SUBSET Indices(f)
        BY <2>1, FrameFacts
      <4>2. seen' = {Datagram(f, i) : i \in {0}}
        BY <2>1, <3>1
      <4>3. QED
        BY <2>1, <2>3, <3>1, <4>1, <4>2 DEF Assembling
    <3>6. QED
      BY <2>1, <3>4, <3>5 DEF BeamInv
  <2>4. QED
    BY <2>2, <2>3
<1>3. ASSUME NEW m \in Datagrams, status = "running", Store(m)
      PROVE  BeamInv'
  <2>1. Assembling
    BY <1>3, FramesDiffer DEF Store, Belongs, BeamInv, Done
  <2>0. PICK f \in Frames : \E held \in SUBSET Indices(f) :
            /\ 0 \in held /\ held # Indices(f)
            /\ beam_raw_0 = Partial(f, held)
            /\ seen = {Datagram(f, i) : i \in held}
    BY <2>1 DEF Assembling
  <2>2. PICK held \in SUBSET Indices(f) :
            /\ 0 \in held /\ held # Indices(f)
            /\ beam_raw_0 = Partial(f, held)
            /\ seen = {Datagram(f, i) : i \in held}
    BY <2>0
  <2> DEFINE i == m.index
  <2>3. m = Datagram(f, i) /\ i \in Indices(f) /\ i \notin held
    BY <1>3, <2>2, FramesDiffer, DatagramFields DEF Store, Belongs, Held
  <2>4. status' = "running" /\ seen' = {Datagram(f, j) : j \in held \cup {i}}
    BY <1>3, <2>2, <2>3 DEF Store
  <2>5. CASE held \cup {i} = Indices(f)
    <3>1. beam_raw_0' = Parsed(f)
      BY <1>3, <2>2, <2>3, <2>5, AddResult DEF Store
    <3>2. Complete(beam_raw_0')
      BY <3>1, FramesDiffer, WholeFrameNotEmpty DEF Complete
    <3>3. Push(Parsed(f))
      BY <1>3, <3>1, <3>2 DEF Store
    <3>4. QED
      BY <2>4, <3>1, <3>3, PushParsed DEF BeamInv
  <2>6. CASE held \cup {i} # Indices(f)
    <3>1. beam_raw_0' = Partial(f, held \cup {i})
      BY <1>3, <2>2, <2>3, <2>6, AddResult DEF Store
    <3>2. ~Complete(beam_raw_0')
      BY <3>1, FramesDiffer DEF Complete
    <3>3. beams' = beams
      BY <1>3, <3>2 DEF Store
    <3>4. held \cup {i} \in SUBSET Indices(f) /\ 0 \in held \cup {i}
      BY <2>2, <2>3
    <3>5. Assembling'
      BY <2>4, <2>6, <3>1, <3>4 DEF Assembling
    <3>6. QED
      BY <2>4, <3>3, <3>5 DEF BeamInv
  <2>7. QED
    BY <2>5, <2>6
<1>4. ASSUME NEW m \in Datagrams, Undefined(m)
      PROVE  BeamInv'
  <2>1. beam_raw_0 = NoFrame \/ Done
    <3> SUFFICES ASSUME Assembling, beam_raw_0 # NoFrame PROVE FALSE
      BY DEF BeamInv
    <3>1. PICK f, held : f \in Frames /\ beam_raw_0 = Partial(f, held)
      BY DEF Assembling
    <3>2. m.index \in Indices(f)
      BY <1>4, <3>1, FramesDiffer, DatagramFields DEF Undefined, Belongs
    <3>3. QED
      BY <1>4, <3>1, <3>2, FramesDiffer DEF Undefined
  <2>2. UNCHANGED <<beam_raw_0, beams, seen>>
    BY <1>4 DEF Undefined
  <2>3. QED
    BY <2>1, <2>2 DEF BeamInv, Assembling, Done
<1>5. QED
  BY <1>1, <1>2, <1>3, <1>4
  DEF BeamNext, Send, Recv, RecvContinuation, Ignore, beamVars

LEMMA BeamInvariant == BeamSpec => []BeamInv
<1>1. BeamInit => BeamInv
  BY DEF BeamInit, BeamInv
<1>2. QED
  BY <1>1, BeamInvInductive, PTL DEF BeamSpec

--------------------------------------------------------------------------
(* What the clients may rely on.                                           *)

(* However datagrams of different frames are lost, repeated and reordered, *)
(* every data array handed to a client is one whole frame in index order.  *)
THEOREM DataIsOneWholeFrame == BeamSpec => []PayloadIntact
<1>1. BeamInv => PayloadIntact
  <2> SUFFICES ASSUME BeamInv, NEW j \in DOMAIN beams, beams[j].data # <<>>
               PROVE  beams[j].data = WholeFrame(beams[j].packet_num)
    BY DEF PayloadIntact
  <2>1. beams[j] \in {Pushed(f) : f \in Frames}
                        \cup {PushedPartial(f) : f \in Frames}
    BY DEF BeamInv
  <2>2. beams[j] \in {Pushed(f) : f \in Frames}
    BY <2>1 DEF PushedPartial
  <2>3. QED
    BY <2>2 DEF Pushed
<1>2. QED
  BY <1>1, BeamInvariant, PTL

(* As soon as every part of a frame has arrived after its primary, in any  *)
(* order, the frame is complete and is what was pushed last.               *)
THEOREM AllPartsSuffice == BeamSpec => []CompleteOnceAllArrived
<1>1. BeamInv => CompleteOnceAllArrived
  <2> SUFFICES ASSUME BeamInv, beam_raw_0 # NoFrame,
                      \A i \in Indices(beam_raw_0.packet_num) :
                         \E m \in seen : m.packet_num = beam_raw_0.packet_num
                                           /\ m.index = i
               PROVE  /\ Complete(beam_raw_0)
                      /\ beams[Len(beams)]
                            = [packet_num |-> beam_raw_0.packet_num,
                               data |-> WholeFrame(beam_raw_0.packet_num)]
    BY DEF CompleteOnceAllArrived
  <2>1. ~Assembling
    <3> SUFFICES ASSUME NEW f \in Frames, NEW held \in SUBSET Indices(f),
                        held # Indices(f), beam_raw_0 = Partial(f, held),
                        seen = {Datagram(f, i) : i \in held}
                 PROVE  FALSE
      BY DEF Assembling
    <3>1. PICK i \in Indices(f) : i \notin held
      OBVIOUS
    <3>2. PICK m \in seen : m.index = i
      BY <3>1, FramesDiffer
    <3>3. m.index \in held
      BY DEF Datagram
    <3>4. QED
      BY <3>1, <3>2, <3>3
  <2>2. PICK f \in Frames :
            /\ beam_raw_0 = Parsed(f)
            /\ beams[Len(beams)] = Pushed(f)
    BY <2>1 DEF BeamInv, Done
  <2>3. QED
    BY <2>2, FramesDiffer, WholeFrameNotEmpty DEF Complete, Pushed
<1>2. QED
  BY <1>1, BeamInvariant, PTL

(* Undefined behaviour is confined to a continuation before any primary    *)
(* and to a continuation of a frame that is already complete.              *)
THEOREM UndefinedIsConfined == BeamSpec => []UndefinedOnlyFirstOrRepeated
<1>1. BeamInv => UndefinedOnlyFirstOrRepeated
  BY FramesDiffer, WholeFrameNotEmpty
  DEF BeamInv, Done, UndefinedOnlyFirstOrRepeated, Complete
<1>2. QED
  BY <1>1, BeamInvariant, PTL

--------------------------------------------------------------------------
(* Types.                                                                  *)

(* The part of the state BeamInv says nothing of.                          *)
NetInv ==
    /\ unsent \in Datagrams \cup {Datagram(Len(NumSubpackets) + 1, 0)}
    /\ net \in [Datagrams -> Nat]
    /\ seen \subseteq Datagrams
    /\ status \in {"running", "undefined"}

LEMMA FirstDatagram ==
    ASSUME NEW f \in 1..(Len(NumSubpackets) + 1)
    PROVE  Datagram(f, 0)
              \in Datagrams \cup {Datagram(Len(NumSubpackets) + 1, 0)}
<1>1. Len(NumSubpackets) \in Nat
  BY FramesAssumption
<1>2. CASE f \in Frames
  BY <1>2, FrameFacts DEF Datagrams
<1>3. CASE f = Len(NumSubpackets) + 1
  BY <1>3
<1>4. QED
  BY <1>1, <1>2, <1>3 DEF Frames

LEMMA NetInvInit == BeamInit => NetInv
<1> SUFFICES ASSUME BeamInit
             PROVE  NetInv
  OBVIOUS
<1>1. 1 \in 1..(Len(NumSubpackets) + 1)
  <2>1. Len(NumSubpackets) \in Nat
    BY FramesAssumption
  <2>2. QED
    BY <2>1
<1>2. unsent \in Datagrams \cup {Datagram(Len(NumSubpackets) + 1, 0)}
  BY <1>1, FirstDatagram DEF BeamInit
<1>3. QED
  BY <1>2 DEF BeamInit, NetInv

LEMMA NetInvStep == NetInv /\ [BeamNext]_beamVars => NetInv'
<1> SUFFICES ASSUME NetInv, [BeamNext]_beamVars
             PROVE  NetInv'
  OBVIOUS
<1>1. CASE Send
  <2>1. unsent.packet_num \in Frames /\ unsent \in Datagrams
    BY <1>1, DatagramFields DEF Send
  <2>2. net' \in [Datagrams -> Nat]
    <3>1. PICK copies \in MinCopies..MaxCopies :
             net' = [net EXCEPT ![unsent] = copies]
      BY <1>1 DEF Send
    <3>2. copies \in Nat
      BY NetworkAssumption
    <3>3. QED
      BY <3>1, <3>2 DEF NetInv
  <2>3. unsent' \in Datagrams \cup {Datagram(Len(NumSubpackets) + 1, 0)}
    <3>1. CASE unsent.index + 1 \in Indices(unsent.packet_num)
      BY <1>1, <2>1, <3>1 DEF Send, Datagrams
    <3>2. CASE unsent.index + 1 \notin Indices(unsent.packet_num)
      <4>1. unsent.packet_num + 1 \in 1..(Len(NumSubpackets) + 1)
        <5>1. Len(NumSubpackets) \in Nat
          BY FramesAssumption
        <5>2. QED
          BY <2>1, <5>1 DEF Frames
      <4>2. QED
        BY <1>1, <3>2, <4>1, FirstDatagram DEF Send
    <3>3. QED
      BY <3>1, <3>2
  <2>4. QED
    BY <1>1, <2>2, <2>3 DEF Send, NetInv
<1>2. ASSUME NEW m \in Datagrams, Recv(m)
      PROVE  NetInv'
  <2>1. net' \in [Datagrams -> Nat]
    <3>1. net[m] \in Nat /\ net[m] > 0
      BY <1>2 DEF Recv, Arrives, NetInv
    <3>2. net[m] - 1 \in Nat
      BY <3>1
    <3>3. QED
      BY <1>2, <3>2 DEF Recv, Arrives, NetInv
  <2>2. seen' \subseteq Datagrams /\ status' \in {"running", "undefined"}
    BY <1>2 DEF Recv, RecvPrimary, RecvContinuation, Store, Ignore, Undefined,
                NetInv
  <2>3. QED
    BY <1>2, <2>1, <2>2 DEF Recv, NetInv
<1>3. CASE UNCHANGED beamVars
  BY <1>3 DEF beamVars, NetInv
<1>4. QED
  BY <1>1, <1>2, <1>3 DEF BeamNext

(* Every variable keeps its type.                                          *)
THEOREM BeamTypes == BeamSpec => []BeamTypeOK
<1>1. BeamInv => beam_raw_0.packet_num \in Frames \cup {0}
  <2> SUFFICES ASSUME BeamInv
               PROVE  beam_raw_0.packet_num \in Frames \cup {0}
    OBVIOUS
  <2>1. CASE beam_raw_0 = NoFrame
    BY <2>1 DEF NoFrame, Beam
  <2>2. CASE Assembling
    <3>1. PICK f \in Frames : \E held \in SUBSET Indices(f) :
             beam_raw_0 = Partial(f, held)
      BY <2>2 DEF Assembling
    <3>2. QED
      BY <3>1, FramesDiffer
  <2>3. CASE Done
    BY <2>3, FramesDiffer DEF Done
  <2>4. QED
    BY <2>1, <2>2, <2>3 DEF BeamInv
<1>2. BeamInv => beams \in Seq([packet_num : Frames, data : Seq(Frames \X Nat)])
  <2> DEFINE S == {Pushed(f) : f \in Frames} \cup {PushedPartial(f) : f \in Frames}
             T == [packet_num : Frames, data : Seq(Frames \X Nat)]
  <2>1. ASSUME NEW f \in Frames
        PROVE  WholeFrame(f) \in Seq(Frames \X Nat)
    <3>1. NumSubpackets[f] \in Nat
      BY FrameFacts
    <3>2. \A i \in 1..NumSubpackets[f] : <<f, i - 1>> \in Frames \X Nat
      BY <3>1
    <3>3. QED
      BY <3>1, <3>2 DEF WholeFrame
  <2>2. <<>> \in Seq(Frames \X Nat)
    OBVIOUS
  <2>3. S \subseteq T
    <3>1. \A f \in Frames : Pushed(f) \in T
      BY <2>1 DEF Pushed
    <3>2. \A f \in Frames : PushedPartial(f) \in T
      BY <2>2 DEF PushedPartial
    <3> HIDE DEF T
    <3>3. QED
      BY <3>1, <3>2
  <2> HIDE DEF S, T
  <2>4. beams \in Seq(S) => beams \in Seq(T)
    BY <2>3
  <2>5. QED
    BY <2>4 DEF BeamInv, S, T
<1>3. BeamInv /\ NetInv => BeamTypeOK
  BY <1>1, <1>2 DEF NetInv, BeamTypeOK
<1>4. QED
  BY <1>3, NetInvInit, NetInvStep, BeamInvariant, PTL DEF BeamSpec

--------------------------------------------------------------------------
(* SensorQueue.                                                            *)

(* Once the logger has had a record it runs until the threads are stopped, *)
(* so a call that begins later returns latest_data; a call that takes from *)
(* the queue after that was in progress, and there is only one call.       *)
StealInv ==
    /\ late_steals \in {0, 1}
    /\ pushed \in Nat
    /\ queue \in Seq(Nat \ {None})
    /\ keep_alive => (logger = "start" \/ logger_running)
    /\ logger = "start" => latest_data = None
    /\ late_steals = 1 => latest_data # None
    /\ (keep_alive /\ late_steals = 1 /\ app = "look") => ptr # None
    /\ (keep_alive /\ app = "pop") => late_steals = 0

(* The queue after a push.                                                 *)
PushedTo(q, n) ==
    LET r == Append(q, n)
    IN  IF Len(r) > QueueLength THEN Tail(r) ELSE r

LEMMA PushedFacts ==
    ASSUME NEW S, NEW q \in Seq(S), NEW n \in S
    PROVE  /\ PushedTo(q, n) \in Seq(S)
           /\ Len(q) <= QueueLength =>
                 LET r == PushedTo(q, n)
                 IN  Len(r) <= QueueLength /\ r[Len(r)] = n
<1> DEFINE r == Append(q, n)
<1>1. /\ r \in Seq(S) /\ Len(r) = Len(q) + 1 /\ r[Len(q) + 1] = n
      /\ Len(q) \in Nat /\ QueueLength \in Nat \ {0}
  BY QueueAssumption
<1> HIDE DEF r
<1>2. CASE Len(r) > QueueLength
  <2>1. PushedTo(q, n) = Tail(r) /\ r # <<>>
    BY <1>1, <1>2 DEF PushedTo, r
  <2>2. Tail(r) \in Seq(S) /\ Len(Tail(r)) = Len(q)
    BY <1>1, <2>1
  <2>3. Len(q) > 0 => Tail(r)[Len(q)] = n
    BY <1>1, <2>1, <2>2
  <2>4. Len(q) <= QueueLength => Len(q) > 0
    BY <1>1, <1>2
  <2>5. QED
    BY <2>1, <2>2, <2>3, <2>4
<1>3. CASE ~(Len(r) > QueueLength)
  <2>1. PushedTo(q, n) = r
    BY <1>3 DEF PushedTo, r
  <2>2. QED
    BY <1>1, <1>3, <2>1
<1>4. QED
  BY <1>2, <1>3

LEMMA BackIsRecord ==
    ASSUME queue \in Seq(Nat \ {None}), queue # <<>>
    PROVE  Back # None
<1>1. Len(queue) \in 1..Len(queue)
  OBVIOUS
<1>2. queue[Len(queue)] \in Nat \ {None}
  BY <1>1
<1>3. QED
  BY <1>2 DEF Back

LEMMA InitSteal == Init => StealInv
BY DEF Init, StealInv, None

LEMMA NextSteal == StealInv /\ [Next]_vars => StealInv'
<1> SUFFICES ASSUME StealInv, [Next]_vars
             PROVE  StealInv'
  OBVIOUS
<1> USE DEF StealInv, flags, logging, keeping, calling
<1>1. CASE PushRecord
  <2>1. pushed + 1 \in Nat \ {None}
    BY DEF None
  <2>2. queue' \in Seq(Nat \ {None}) /\ pushed' \in Nat
    <3>1. PushedTo(queue, pushed + 1) \in Seq(Nat \ {None})
      BY <2>1, PushedFacts
    <3>2. QED
      BY <1>1, <3>1 DEF PushRecord, PushedTo
  <2>3. QED
    BY <1>1, <2>2 DEF PushRecord
<1>2. CASE start_logging \/ stop_logging \/ stop_threads
  BY <1>2 DEF start_logging, stop_logging, stop_threads
<1>3. CASE LoggerStart
  BY <1>3 DEF LoggerStart
<1>4. CASE LoggerTop
  BY <1>4 DEF LoggerTop
<1>5. CASE LoggerLoop \/ LoggerOff
  BY <1>5 DEF LoggerLoop, LoggerOff
<1>6. CASE LoggerWrite \/ LoggerDrop
  <2>1. <<>> \in Seq(Nat \ {None})
    OBVIOUS
  <2>2. CASE queue # <<>>
    <3>1. latest_data' # None /\ queue' \in Seq(Nat \ {None})
      BY <1>6, <2>1, <2>2, BackIsRecord DEF LoggerWrite, LoggerDrop
    <3>2. QED
      BY <1>6, <3>1 DEF LoggerWrite, LoggerDrop
  <2>3. CASE queue = <<>>
    BY <1>6, <2>3 DEF LoggerWrite, LoggerDrop
  <2>4. QED
    BY <2>2, <2>3
<1>7. CASE State
  <2>1. <<>> \in Seq(Nat \ {None})
    OBVIOUS
  <2>2. queue' \in Seq(Nat \ {None})
    BY <1>7, <2>1 DEF State, StateTop, StatePop, KeepState
  <2>3. UNCHANGED <<flags, logging, calling>>
    BY <1>7 DEF State, StateTop, StatePop
  <2>4. QED
    BY <2>2, <2>3
<1>8. CASE ReadLatest
  BY <1>8 DEF ReadLatest
<1>9. CASE Look
  BY <1>9 DEF Look
<1>10. CASE PopLatest
  <2>1. <<>> \in Seq(Nat \ {None})
    OBVIOUS
  <2>2. QED
    BY <1>10, <2>1 DEF PopLatest
<1>11. CASE UNCHANGED vars
  BY <1>11 DEF vars
<1>12. QED
  BY <1>1, <1>2, <1>3, <1>4, <1>5, <1>6, <1>7, <1>8, <1>9, <1>10, <1>11
     DEF Next, Logger, Application

(* get_latest_data takes from the queue at most once after the logger has  *)
(* had its first record, for every sensor.                                 *)
THEOREM StealsAreBounded == Spec => []AtMostOneLateSteal
<1>1. StealInv => AtMostOneLateSteal
  BY DEF StealInv, AtMostOneLateSteal
<1>2. QED
  BY <1>1, InitSteal, NextSteal, PTL DEF Spec

--------------------------------------------------------------------------
(* Types.                                                                  *)

LEMMA BackIsNewest ==
    ASSUME TypeOK, queue # <<>>
    PROVE  Back \in Record /\ Back = pushed
<1>1. Len(queue) \in 1..Len(queue) /\ Len(queue) > 0
  BY DEF TypeOK
<1>2. queue[Len(queue)] \in Record
  BY <1>1 DEF TypeOK
<1>3. QED
  BY <1>1, <1>2 DEF Back, TypeOK

LEMMA InitTypes == Init => TypeOK
<1>1. <<>> \in Seq(Record) /\ ~(Len(<<>>) > 0) /\ Len(<<>>) <= QueueLength
  BY QueueAssumption
<1>2. 0 \in 0..MaxRecords /\ 0 \in Nat
  BY BoundsAssumption
<1>3. QED
  BY <1>1, <1>2 DEF Init, TypeOK, None

LEMMA NextTypes == TypeOK /\ [Next]_vars => TypeOK'
<1> SUFFICES ASSUME TypeOK, [Next]_vars
             PROVE  TypeOK'
  OBVIOUS
<1> USE DEF flags, logging, keeping, calling
<1>1. <<>> \in Seq(Record) /\ ~(Len(<<>>) > 0) /\ Len(<<>>) <= QueueLength
  BY QueueAssumption
<1>2. CASE PushRecord
  <2>1. pushed + 1 \in Record /\ pushed + 1 \in 0..MaxRecords
    BY <1>2, BoundsAssumption DEF TypeOK, PushRecord, Record
  <2>2. /\ queue' \in Seq(Record) /\ queue'[Len(queue')] = pushed'
        /\ Len(queue') <= QueueLength
    <3>1. /\ PushedTo(queue, pushed + 1) \in Seq(Record)
          /\ LET q == PushedTo(queue, pushed + 1)
             IN  Len(q) <= QueueLength /\ q[Len(q)] = pushed + 1
      BY <2>1, PushedFacts DEF TypeOK
    <3>2. QED
      BY <1>2, <3>1 DEF PushRecord, PushedTo
  <2>3. QED
    BY <1>2, <2>1, <2>2 DEF TypeOK, PushRecord
<1>3. CASE start_logging \/ stop_logging \/ stop_threads
  BY <1>3 DEF TypeOK, start_logging, stop_logging, stop_threads
<1>4. CASE LoggerStart \/ LoggerTop \/ LoggerLoop \/ LoggerOff
  BY <1>4 DEF TypeOK, LoggerStart, LoggerTop, LoggerLoop, LoggerOff
<1>5. CASE LoggerWrite \/ LoggerDrop
  <2>1. latest_data' \in Record \cup {None}
    BY <1>5, BackIsNewest DEF TypeOK, LoggerWrite, LoggerDrop
  <2>2. queue' = queue \/ queue' = <<>>
    BY <1>5 DEF LoggerWrite, LoggerDrop
  <2>3. QED
    BY <1>1, <1>5, <2>1, <2>2 DEF TypeOK, LoggerWrite, LoggerDrop
<1>6. CASE State
  <2>1. bno_state' \in Record \cup {None}
    BY <1>6, BackIsNewest
    DEF TypeOK, State, StateTop, StatePop, KeepState, Newer
  <2>2. queue' = queue \/ queue' = <<>>
    BY <1>6 DEF State, StateTop, StatePop, KeepState
  <2>3. state' \in {"top", "pop", "exited"} /\ UNCHANGED <<flags, logging, calling>>
    BY <1>6 DEF TypeOK, State, StateTop, StatePop
  <2>4. QED
    BY <1>1, <2>1, <2>2, <2>3 DEF TypeOK
<1>7. CASE ReadLatest \/ Look
  BY <1>7 DEF TypeOK, ReadLatest, Look
<1>8. CASE PopLatest
  <2>1. queue' = queue \/ queue' = <<>>
    BY <1>8 DEF PopLatest
  <2>2. QED
    BY <1>1, <1>8, <2>1 DEF TypeOK, PopLatest
<1>9. CASE UNCHANGED vars
  BY <1>9 DEF TypeOK, vars
<1>10. QED
  BY <1>2, <1>3, <1>4, <1>5, <1>6, <1>7, <1>8, <1>9
     DEF Next, Logger, Application

(* Every variable keeps its type, and the back of the queue is always the  *)
(* newest record pushed.                                                   *)
THEOREM RecordTypes == Spec => []TypeOK
BY InitTypes, NextTypes, PTL DEF Spec
--------------------------------------------------------------------------
(* Datagrams.                                                              *)

LEMMA AppendFacts ==
    ASSUME NEW S, NEW s \in Seq(S), NEW e \in S
    PROVE  /\ Append(s, e) \in Seq(S)
           /\ Len(Append(s, e)) = Len(s) + 1
           /\ Append(s, e)[Len(s) + 1] = e
           /\ \A i \in 1..Len(s) : Append(s, e)[i] = s[i]
OBVIOUS

LEMMA SeqFacts ==
    ASSUME NEW S, NEW s \in Seq(S)
    PROVE  /\ Len(s) \in Nat /\ DOMAIN s = 1..Len(s)
           /\ \A i \in 1..Len(s) : s[i] \in S
           /\ s # <<>> => Len(s) > 0 /\ Head(s) \in S /\ Tail(s) \in Seq(S)
           /\ s = <<>> => Len(s) = 0
OBVIOUS

(* A suffix, and a sequence one longer.                                    *)
LEMMA SuffixOfAppend ==
    ASSUME NEW S, NEW s \in Seq(S), NEW e \in S, NEW m \in 1..(Len(s) + 1)
    PROVE  SubSeq(Append(s, e), m, Len(s)) = SubSeq(s, m, Len(s))
OBVIOUS

LEMMA SuffixGrows ==
    ASSUME NEW S, NEW s \in Seq(S), NEW m \in 1..Len(s)
    PROVE  Append(SubSeq(s, m, Len(s) - 1), s[Len(s)]) = SubSeq(s, m, Len(s))
OBVIOUS

LEMMA NoSuffix ==
    ASSUME NEW S, NEW s \in Seq(S)
    PROVE  SubSeq(s, Len(s) + 1, Len(s)) = <<>>
OBVIOUS

LEMMA OrderFacts ==
    /\ Len(Order) = 9 /\ DOMAIN Order = 1..9
    /\ \A k \in 1..9 : Order[k] \in Range(Order)
    /\ \A j, k \in 1..9 : Order[j] = Order[k] => j = k
    /\ Range(Order) = {"aco", "beam2d", "beamraw", "pts", "imu", "bno",
                       "bnr", "ept", "rtc"}
BY DEF Order, Range

LEMMA ListsFacts ==
    Lists = {"aco", "beam2d", "beamraw", "pts", "imu", "bno", "bnr", "ept",
             "rtc", "out"}
BY OrderFacts DEF Lists

LEMMA MessageIds ==
    ASSUME NEW d
    PROVE  MessageId(d) \in (Lists \ {"out"}) \cup {"unknown"}
<1>1. CASE on_main
  BY <1>1, ListsFacts DEF MessageId
<1>2. CASE ~on_main
  <2>1. check_msg_id(d) \in {"aco", "beam2d", "beamraw", "pts", "imu", "bno",
                             "bnr", "ept", "rtc", "unknown"}
    BY DEF check_msg_id
  <2>2. QED
    BY <1>2, <2>1, ListsFacts DEF MessageId
<1>3. QED
  BY <1>1, <1>2

LEMMA DestinationsAreLists ==
    ASSUME NEW d
    PROVE  Destinations(d) \in Seq(Lists)
<1> DEFINE id == MessageId(d)
<1>1. id \in {"aco", "beam2d", "beamraw", "pts", "imu", "bno", "bnr", "ept",
              "rtc", "unknown"}
  BY MessageIds, ListsFacts
<1>2. /\ <<>> \in Seq(Lists) /\ <<"aco", "out">> \in Seq(Lists)
      /\ <<"beamraw">> \in Seq(Lists)
      /\ id # "unknown" => <<id>> \in Seq(Lists)
  BY <1>1, ListsFacts
<1>3. \/ Destinations(d) \in {<<>>, <<"aco", "out">>, <<"beamraw">>}
      \/ Destinations(d) = <<id>> /\ id # "unknown"
  BY <1>1 DEF Destinations
<1>4. QED
  BY <1>2, <1>3

(* All that can be made of datagrams.                                      *)
Made(d) ==
    {UdpBeamform2D(d), UdpBeamformRaw(d), UdpAcousticData(d), UdpPtsData(d),
     UdpImuData(d), UdpEptData(d), UdpRtcData(d), UdpBnoData(d),
     UdpBnrData(d)}
AllObjects == {<<>>} \cup UNION {Made(d) : d \in Received}

LEMMA ParsedIsMade ==
    ASSUME NEW d \in Received, object \in AllObjects
    PROVE  ParsedObject(d) \in AllObjects
<1>1. ParsedObject(d) \in Made(d) \/ ParsedObject(d) = object
  BY DEF ParsedObject, Made
<1>2. Made(d) \subseteq AllObjects
  BY DEF AllObjects
<1>3. QED
  BY <1>1, <1>2

--------------------------------------------------------------------------
(* Who is pushed what.                                                     *)

(* A queue is in its list once if it has been registered and not at all    *)
(* before; then it has been pushed nothing.                                *)
MembersInv ==
    /\ lists \in [Lists -> Seq(Queues)]
    /\ joining \in [Clients -> 1..(Len(Order) + 1)]
    /\ since \in [Queues -> Int]
    /\ queues \in [Queues -> Seq(AllObjects)]
    /\ handed \in [Lists -> Seq(AllObjects)]
    /\ \A l \in Lists : \A i \in 1..Len(lists[l]) :
          /\ lists[l][i][2] = l
          /\ since[lists[l][i]] \in 0..Len(handed[l])
    /\ \A l \in Lists : \A i, j \in 1..Len(lists[l]) :
          lists[l][i] = lists[l][j] => i = j
    /\ \A q \in Queues : since[q] = -1 => queues[q] = <<>>
    /\ \A c \in Clients : \A k \in joining[c]..Len(Order) :
          since[<<c, Order[k]>>] = -1

(* The loop stays within the list as it was when the loop began, and the   *)
(* queues it has to go to were in the list before the object was handed.   *)
InLoop(l) ==
    /\ end <= Len(lists[l]) /\ position <= end + 1
    /\ Len(handed[l]) > 0 /\ handed[l][Len(handed[l])] = object
    /\ \A i \in position..end : since[lists[l][i]] < Len(handed[l])

LoopInv ==
    /\ object \in AllObjects
    /\ walk \in Seq(Lists)
    /\ position \in Nat \ {0} /\ end \in Nat
    /\ walk # <<>> => InLoop(Head(walk))

Awaited(l, i) == IF Walking(l) /\ i \in position..end THEN 1 ELSE 0

UpToDate(l, i) ==
    queues[lists[l][i]]
        = SubSeq(handed[l], since[lists[l][i]] + 1, Len(handed[l]) - Awaited(l, i))

PushedInv == \A l \in Lists : \A i \in 1..Len(lists[l]) : UpToDate(l, i)

SocketInv == MembersInv /\ LoopInv /\ PushedInv

LEMMA SocketInitInv == SocketInit => SocketInv
<1> SUFFICES ASSUME SocketInit PROVE SocketInv
  OBVIOUS
<1>1. /\ <<>> \in Seq(Queues) /\ <<>> \in Seq(Lists)
      /\ <<>> \in Seq(AllObjects) /\ <<>> \in AllObjects
      /\ Len(<<>>) = 0
  BY DEF AllObjects
<1>2. \A l \in Lists : lists[l] = <<>> /\ Len(lists[l]) = 0
  BY <1>1 DEF SocketInit
<1>3. 1 \in 1..(Len(Order) + 1)
  BY OrderFacts
<1>4. \A c \in Clients : \A k \in joining[c]..Len(Order) :
          <<c, Order[k]>> \in Queues
  <2> TAKE c \in Clients
  <2> TAKE k \in joining[c]..Len(Order)
  <2>1. joining[c] = 1
    BY DEF SocketInit
  <2>2. k \in 1..9
    BY <2>1, OrderFacts
  <2>3. QED
    BY <2>2, OrderFacts DEF Queues
<1>5. MembersInv
  BY <1>1, <1>2, <1>3, <1>4 DEF SocketInit, MembersInv
<1>6. LoopInv
  BY <1>1 DEF SocketInit, LoopInv
<1>7. PushedInv
  BY <1>2 DEF PushedInv
<1>8. QED
  BY <1>5, <1>6, <1>7 DEF SocketInv

LEMMA MemberTypes ==
    ASSUME SocketInv, NEW l \in Lists
    PROVE  /\ lists[l] \in Seq(Queues) /\ Len(lists[l]) \in Nat
           /\ handed[l] \in Seq(AllObjects) /\ Len(handed[l]) \in Nat
           /\ \A i \in 1..Len(lists[l]) :
                 /\ lists[l][i] \in Queues /\ lists[l][i][2] = l
                 /\ since[lists[l][i]] \in 0..Len(handed[l])
                 /\ queues[lists[l][i]] \in Seq(AllObjects)
<1>1. lists[l] \in Seq(Queues) /\ handed[l] \in Seq(AllObjects)
  BY DEF SocketInv, MembersInv
<1>2. /\ Len(lists[l]) \in Nat /\ Len(handed[l]) \in Nat
      /\ \A i \in 1..Len(lists[l]) : lists[l][i] \in Queues
  BY <1>1, SeqFacts
<1>3. QED
  BY <1>1, <1>2 DEF SocketInv, MembersInv

(* Nothing is awaited when no loop has queues left to go to.               *)
LEMMA NothingAwaited ==
    ASSUME walk = <<>> \/ position > end, position \in Nat, end \in Nat,
           NEW l, NEW i
    PROVE  Awaited(l, i) = 0
BY DEF Awaited, Walking

LEMMA LoopBegins ==
    ASSUME SocketInv, walk = <<>> \/ position > end,
           NEW todo \in Seq(Lists), NEW o \in AllObjects,
           BeginFirst(todo, o), object' = o, UNCHANGED <<members, queues>>
    PROVE  SocketInv'
<1>1. UNCHANGED <<lists, joining, since, queues>>
  BY DEF members
<1>2. position \in Nat /\ end \in Nat
  BY DEF SocketInv, LoopInv
<1>3. \A l \in Lists : \A i \in 1..Len(lists[l]) :
          queues[lists[l][i]]
            = SubSeq(handed[l], since[lists[l][i]] + 1, Len(handed[l]))
  <2> TAKE l \in Lists
  <2> TAKE i \in 1..Len(lists[l])
  <2>1. Awaited(l, i) = 0 /\ UpToDate(l, i)
    BY <1>2, NothingAwaited DEF SocketInv, PushedInv
  <2>2. Len(handed[l]) - 0 = Len(handed[l])
    BY MemberTypes
  <2>3. QED
    BY <2>1, <2>2 DEF UpToDate
<1>4. CASE todo = <<>>
  <2>1. UNCHANGED <<position, end, handed>> /\ walk' = <<>>
    BY <1>4 DEF BeginFirst
  <2>2. MembersInv'
    BY <1>1, <2>1 DEF SocketInv, MembersInv
  <2>3. LoopInv'
    BY <2>1 DEF SocketInv, LoopInv
  <2>4. ASSUME NEW l \in Lists, NEW i \in 1..Len(lists'[l])
        PROVE  UpToDate(l, i)'
    <3>1. Awaited(l, i)' = 0
      BY <2>1 DEF Awaited, Walking
    <3>2. Len(handed[l]) - 0 = Len(handed[l])
      BY MemberTypes
    <3>3. QED
      BY <1>1, <1>3, <2>1, <3>1, <3>2 DEF UpToDate
  <2>5. QED
    BY <2>2, <2>3, <2>4 DEF SocketInv, PushedInv
<1>5. CASE todo # <<>>
  <2> DEFINE m == Head(todo)
             h == handed[m]
  <2>1. /\ m \in Lists
        /\ walk' = todo /\ position' = 1 /\ end' = Len(lists[m])
        /\ handed' = [handed EXCEPT ![m] = Append(@, o)]
    BY <1>5, SeqFacts DEF BeginFirst, BeginLoop
  <2>2. h \in Seq(AllObjects) /\ Len(h) \in Nat
    BY <2>1, MemberTypes
  <2>3. /\ Append(h, o) \in Seq(AllObjects) /\ Len(Append(h, o)) = Len(h) + 1
        /\ Append(h, o)[Len(h) + 1] = o
    BY <2>2, AppendFacts
  <2>4. /\ handed'[m] = Append(h, o)
        /\ \A l \in Lists \ {m} : handed'[l] = handed[l]
        /\ handed' \in [Lists -> Seq(AllObjects)]
    BY <2>1, <2>3 DEF SocketInv, MembersInv
  <2> HIDE DEF h, m
  <2>5. \A l \in Lists : Len(handed[l]) \in Nat /\ Len(handed'[l]) \in Nat
                         /\ Len(handed[l]) <= Len(handed'[l])
    BY <2>2, <2>3, <2>4, MemberTypes DEF h
  <2>6. \A l \in Lists : \A i \in 1..Len(lists[l]) :
            since[lists[l][i]] \in 0..Len(handed'[l])
    <3> TAKE l \in Lists
    <3> TAKE i \in 1..Len(lists[l])
    <3>1. since[lists[l][i]] \in 0..Len(handed[l])
      BY MemberTypes
    <3>2. QED
      BY <2>5, <3>1
  <2>7. MembersInv'
    BY <1>1, <2>4, <2>6 DEF SocketInv, MembersInv
  <2>8. LoopInv'
    <3>1. Head(walk') = m
      BY <2>1 DEF m
    <3>2. Len(lists[m]) \in Nat
      BY <2>1, MemberTypes
    <3>3. \A i \in 1..Len(lists[m]) : since[lists[m][i]] < Len(handed'[m])
      <4> TAKE i \in 1..Len(lists[m])
      <4>1. since[lists[m][i]] \in 0..Len(h)
        BY <2>1, MemberTypes DEF h
      <4>2. QED
        BY <2>2, <2>3, <2>4, <4>1
    <3>4. InLoop(m)'
      BY <1>1, <2>1, <2>2, <2>3, <2>4, <3>2, <3>3 DEF InLoop
    <3>5. walk' # <<>> => InLoop(Head(walk))'
      BY <3>1, <3>4 DEF InLoop
    <3>6. QED
      BY <2>1, <3>2, <3>5 DEF LoopInv
  <2>9. ASSUME NEW l \in Lists, NEW i \in 1..Len(lists'[l])
        PROVE  UpToDate(l, i)'
    <3>1. i \in 1..Len(lists[l]) /\ since[lists[l][i]] \in 0..Len(handed[l])
      BY <1>1, <2>9, MemberTypes
    <3>2. queues[lists[l][i]]
            = SubSeq(handed[l], since[lists[l][i]] + 1, Len(handed[l]))
      BY <1>3, <3>1
    <3>3. CASE l = m
      <4>1. Awaited(l, i)' = 1
        <5>1. Len(lists[m]) \in Nat
          BY <2>1, MemberTypes
        <5>2. i \in 1..end' /\ 1 <= end'
          BY <2>1, <3>1, <3>3, <5>1
        <5>3. QED
          BY <1>5, <2>1, <3>3, <5>2 DEF Awaited, Walking, m
      <4>2. Len(handed'[l]) - 1 = Len(h)
        BY <2>2, <2>3, <2>4, <3>3
      <4>3. since[lists[l][i]] + 1 \in 1..(Len(h) + 1)
        BY <2>2, <3>1, <3>3 DEF h
      <4> DEFINE b == since[lists[l][i]] + 1
      <4> HIDE DEF b
      <4>4. SubSeq(handed'[l], b, Len(h)) = SubSeq(h, b, Len(h))
        <5>1. SubSeq(Append(h, o), b, Len(h)) = SubSeq(h, b, Len(h))
          BY <2>2, <4>3, SuffixOfAppend DEF b
        <5>2. QED
          BY <2>4, <3>3, <5>1
      <4>5. QED
        BY <1>1, <3>2, <3>3, <4>1, <4>2, <4>4 DEF UpToDate, b, h
    <3>4. CASE l # m
      <4>1. Awaited(l, i)' = 0
        BY <2>1, <3>4 DEF Awaited, Walking, m
      <4>2. Len(handed'[l]) - 0 = Len(handed[l]) /\ handed'[l] = handed[l]
        BY <2>4, <2>5, <3>4
      <4>3. QED
        BY <1>1, <3>2, <4>1, <4>2 DEF UpToDate
    <3>5. QED
      BY <3>3, <3>4
  <2>10. QED
    BY <2>7, <2>8, <2>9 DEF SocketInv, PushedInv
<1>6. QED
  BY <1>4, <1>5

LEMMA ReceiveKeeps ==
    ASSUME SocketInv, NEW d \in Received, Receive(d)
    PROVE  SocketInv'
<1>1. object \in AllObjects
  BY DEF SocketInv, LoopInv
<1>2. /\ ParsedObject(d) \in AllObjects /\ Destinations(d) \in Seq(Lists)
  BY <1>1, ParsedIsMade, DestinationsAreLists
<1>3. /\ walk = <<>> /\ object' = ParsedObject(d)
      /\ BeginFirst(Destinations(d), ParsedObject(d))
      /\ UNCHANGED <<members, queues>>
  BY DEF Receive
<1>4. QED
  BY <1>2, <1>3, LoopBegins

LEMMA EndLoopKeeps ==
    ASSUME SocketInv, EndLoop
    PROVE  SocketInv'
<1>1. /\ walk # <<>> /\ position > end
      /\ BeginFirst(Tail(walk), object) /\ object' = object
      /\ UNCHANGED <<members, queues>>
  BY DEF EndLoop
<1>2. Tail(walk) \in Seq(Lists) /\ object \in AllObjects
  BY <1>1, SeqFacts DEF SocketInv, LoopInv
<1>3. QED
  BY <1>1, <1>2, LoopBegins

LEMMA PushKeeps ==
    ASSUME SocketInv, PushObject
    PROVE  SocketInv'
<1> DEFINE m == Head(walk)
           p == lists[m][position]
           h == handed[m]
<1>1. /\ walk # <<>> /\ position <= end
      /\ queues' = [queues EXCEPT ![p] = Append(@, object)]
      /\ position' = position + 1
      /\ UNCHANGED <<lists, joining, since, object, walk, end, handed>>
  BY DEF PushObject, members
<1>2. /\ m \in Lists /\ position \in Nat /\ position > 0 /\ end \in Nat
      /\ object \in AllObjects /\ walk \in Seq(Lists)
      /\ InLoop(m)
  BY <1>1, SeqFacts DEF SocketInv, LoopInv
<1>3. /\ position \in 1..Len(lists[m]) /\ position \in position..end
      /\ Walking(m)
  BY <1>1, <1>2, MemberTypes DEF InLoop, Walking
<1>4. /\ p \in Queues /\ p[2] = m /\ queues[p] \in Seq(AllObjects)
      /\ since[p] \in 0..Len(h) /\ since[p] < Len(h)
      /\ h \in Seq(AllObjects) /\ Len(h) \in Nat /\ Len(h) > 0
      /\ h[Len(h)] = object
  BY <1>2, <1>3, MemberTypes DEF InLoop
<1>5. queues[p] = SubSeq(h, since[p] + 1, Len(h) - 1)
  <2>1. Awaited(m, position) = 1
    BY <1>3 DEF Awaited
  <2>2. UpToDate(m, position)
    BY <1>2, <1>3 DEF SocketInv, PushedInv
  <2>3. QED
    BY <2>1, <2>2 DEF UpToDate
<1>6. m = Head(walk') /\ walk' # <<>>
  BY <1>1
<1> HIDE DEF m, h, p
<1>7. Append(queues[p], object) = SubSeq(h, since[p] + 1, Len(h))
  <2>1. since[p] + 1 \in 1..Len(h)
    BY <1>4
  <2>2. QED
    BY <1>4, <1>5, <2>1, SuffixGrows
<1>8. /\ queues'[p] = Append(queues[p], object)
      /\ \A q \in Queues \ {p} : queues'[q] = queues[q]
      /\ queues' \in [Queues -> Seq(AllObjects)]
  <2>1. Append(queues[p], object) \in Seq(AllObjects)
    BY <1>2, <1>4, AppendFacts
  <2>2. QED
    BY <1>1, <1>4, <2>1 DEF SocketInv, MembersInv
<1>9. MembersInv'
  <2>1. \A q \in Queues : since[q] = -1 => queues'[q] = <<>>
    <3>1. since[p] # -1
      BY <1>4
    <3>2. QED
      BY <1>8, <3>1 DEF SocketInv, MembersInv
  <2>2. QED
    BY <1>1, <1>8, <2>1 DEF SocketInv, MembersInv
<1>10. LoopInv'
  <2>1. position + 1 <= end + 1
    BY <1>1, <1>2
  <2>2. \A i \in (position + 1)..end : i \in position..end
    BY <1>2
  <2>3. InLoop(Head(walk))'
    BY <1>1, <1>2, <2>1, <2>2 DEF InLoop, m
  <2>4. QED
    BY <1>1, <1>2, <2>3 DEF LoopInv
<1>11. ASSUME NEW l \in Lists, NEW i \in 1..Len(lists'[l])
       PROVE  UpToDate(l, i)'
  <2>1. /\ i \in 1..Len(lists[l]) /\ UpToDate(l, i)
        /\ lists[l][i] \in Queues /\ lists[l][i][2] = l
        /\ Len(handed[l]) \in Nat
    BY <1>1, <1>11, MemberTypes DEF SocketInv, PushedInv
  <2>2. CASE l = m /\ i = position
    <3>1. Awaited(l, i)' = 0
      BY <1>1, <1>2, <2>2 DEF Awaited
    <3>2. lists[l][i] = p
      BY <2>2 DEF p
    <3>3. Len(h) - 0 = Len(h)
      BY <1>4
    <3>4. queues'[p] = SubSeq(h, since[p] + 1, Len(h) - 0)
      BY <1>7, <1>8, <3>3
    <3>5. QED
      BY <1>1, <2>2, <3>1, <3>2, <3>4 DEF UpToDate, h
  <2>3. CASE ~(l = m /\ i = position)
    <3>1. lists[l][i] # p
      <4>1. CASE l # m
        BY <1>4, <2>1, <4>1
      <4>2. CASE l = m /\ i # position
        BY <1>3, <2>1, <4>2 DEF SocketInv, MembersInv, p
      <4>3. QED
        BY <2>3, <4>1, <4>2
    <3>2. queues'[lists[l][i]] = queues[lists[l][i]]
      BY <1>8, <2>1, <3>1
    <3>3. Awaited(l, i)' = Awaited(l, i)
      <4>1. CASE l # m
        BY <1>6, <4>1 DEF Awaited, Walking, m
      <4>2. CASE l = m /\ i # position
        <5>1. i \in position'..end <=> i \in position..end
          BY <1>1, <1>2, <2>1, <4>2
        <5>2. Walking(l) /\ (i \in position'..end => Walking(l)')
          <6>1. Walking(l)
            BY <1>3, <4>2
          <6>2. i \in position'..end => position' <= end
            BY <1>1, <1>2
          <6>3. QED
            BY <1>1, <6>1, <6>2 DEF Walking
        <5>3. QED
          BY <1>1, <5>1, <5>2 DEF Awaited
      <4>3. QED
        BY <2>3, <4>1, <4>2
    <3>4. QED
      BY <1>1, <2>1, <3>2, <3>3 DEF UpToDate
  <2>4. QED
    BY <2>2, <2>3
<1>12. QED
  BY <1>9, <1>10, <1>11 DEF SocketInv, PushedInv

(* A queue that is registered for the first time.                          *)
LEMMA AddKeeps ==
    ASSUME SocketInv, NEW p \in Queues, p[2] \in Lists, since[p] = -1,
           Add(p), UNCHANGED <<loop, queues, handed>>,
           joining' \in [Clients -> 1..(Len(Order) + 1)],
           \A c \in Clients : \A k \in joining'[c]..Len(Order) :
               k \in joining[c]..Len(Order) /\ <<c, Order[k]>> # p
    PROVE  SocketInv'
<1> DEFINE m == p[2]
           n == Len(lists[m])
           h == handed[m]
<1>1. /\ m \in Lists
      /\ lists' = [lists EXCEPT ![m] = Append(@, p)]
      /\ since' = [since EXCEPT ![p] = Len(h)]
      /\ UNCHANGED <<object, walk, position, end, queues, handed>>
  BY DEF Add, loop
<1>2. lists[m] \in Seq(Queues) /\ n \in Nat /\ Len(h) \in Nat
      /\ h \in Seq(AllObjects)
  BY <1>1, MemberTypes
<1>3. /\ Append(lists[m], p) \in Seq(Queues)
      /\ Len(Append(lists[m], p)) = n + 1
      /\ Append(lists[m], p)[n + 1] = p
      /\ \A i \in 1..n : Append(lists[m], p)[i] = lists[m][i]
  BY <1>2, AppendFacts
<1>4. /\ lists'[m] = Append(lists[m], p)
      /\ \A l \in Lists \ {m} : lists'[l] = lists[l]
      /\ lists' \in [Lists -> Seq(Queues)]
  BY <1>1, <1>3 DEF SocketInv, MembersInv
<1>5. /\ since'[p] = Len(h) /\ \A q \in Queues \ {p} : since'[q] = since[q]
      /\ since' \in [Queues -> Int]
  BY <1>1, <1>2 DEF SocketInv, MembersInv
<1> HIDE DEF m, n, h
<1>6. /\ Len(lists'[m]) = n + 1 /\ lists'[m][n + 1] = p
      /\ \A l \in Lists : \A i \in 1..Len(lists[l]) :
            /\ i \in 1..Len(lists'[l]) /\ lists'[l][i] = lists[l][i]
            /\ lists[l][i] # p /\ since'[lists[l][i]] = since[lists[l][i]]
  <2>1. \A l \in Lists : \A i \in 1..Len(lists[l]) :
            i \in 1..Len(lists'[l]) /\ lists'[l][i] = lists[l][i]
    <3> TAKE l \in Lists
    <3> TAKE i \in 1..Len(lists[l])
    <3>1. CASE l = m
      <4>1. i \in 1..n
        BY <3>1 DEF n
      <4>2. QED
        BY <1>2, <1>3, <1>4, <3>1, <4>1
    <3>2. CASE l # m
      BY <1>4, <3>2
    <3>3. QED
      BY <3>1, <3>2
  <2>2. \A l \in Lists : \A i \in 1..Len(lists[l]) :
            lists[l][i] # p /\ since'[lists[l][i]] = since[lists[l][i]]
    <3> TAKE l \in Lists
    <3> TAKE i \in 1..Len(lists[l])
    <3>1. since[lists[l][i]] \in 0..Len(handed[l]) /\ lists[l][i] \in Queues
          /\ Len(handed[l]) \in Nat
      BY MemberTypes
    <3>2. since[lists[l][i]] # -1
      BY <3>1
    <3>3. lists[l][i] # p
      BY <3>2
    <3>4. QED
      BY <1>5, <3>1, <3>3
  <2>3. QED
    BY <1>3, <1>4, <2>1, <2>2
<1>7. \A l \in Lists : \A i \in 1..Len(lists'[l]) :
          i \in 1..Len(lists[l]) \/ (l = m /\ i = n + 1)
  BY <1>2, <1>3, <1>4 DEF n
<1>8. MembersInv'
  <2>1. \A l \in Lists : \A i \in 1..Len(lists'[l]) :
            /\ lists'[l][i][2] = l
            /\ since'[lists'[l][i]] \in 0..Len(handed'[l])
    <3> TAKE l \in Lists
    <3> TAKE i \in 1..Len(lists'[l])
    <3>1. CASE i \in 1..Len(lists[l])
      BY <1>1, <1>6, <3>1, MemberTypes
    <3>2. CASE l = m /\ i = n + 1
      <4>1. lists'[l][i] = p /\ p[2] = l
        BY <1>6, <3>2 DEF m
      <4>2. since'[p] \in 0..Len(handed'[l])
        BY <1>1, <1>2, <1>5, <3>2 DEF h
      <4>3. QED
        BY <4>1, <4>2
    <3>3. QED
      BY <1>7, <3>1, <3>2
  <2>2. \A l \in Lists : \A i, j \in 1..Len(lists'[l]) :
            lists'[l][i] = lists'[l][j] => i = j
    <3> TAKE l \in Lists
    <3> TAKE i, j \in 1..Len(lists'[l])
    <3>1. CASE i \in 1..Len(lists[l]) /\ j \in 1..Len(lists[l])
      <4>1. lists'[l][i] = lists[l][i] /\ lists'[l][j] = lists[l][j]
        BY <1>6, <3>1
      <4>2. lists[l][i] = lists[l][j] => i = j
        BY <3>1 DEF SocketInv, MembersInv
      <4>3. QED
        BY <4>1, <4>2
    <3>2. CASE i \in 1..Len(lists[l]) /\ l = m /\ j = n + 1
      BY <1>6, <3>2
    <3>3. CASE j \in 1..Len(lists[l]) /\ l = m /\ i = n + 1
      BY <1>6, <3>3
    <3>4. CASE i = n + 1 /\ j = n + 1
      BY <3>4
    <3>5. QED
      BY <1>7, <3>1, <3>2, <3>3, <3>4
  <2>3. \A q \in Queues : since'[q] = -1 => queues'[q] = <<>>
    <3>1. since'[p] # -1
      BY <1>2, <1>5
    <3>2. QED
      BY <1>1, <1>5, <3>1 DEF SocketInv, MembersInv
  <2>4. \A c \in Clients : \A k \in joining'[c]..Len(Order) :
            since'[<<c, Order[k]>>] = -1
    <3> TAKE c \in Clients
    <3> TAKE k \in joining'[c]..Len(Order)
    <3>1. k \in joining[c]..Len(Order) /\ <<c, Order[k]>> # p
      OBVIOUS
    <3>2. since[<<c, Order[k]>>] = -1
      BY <3>1 DEF SocketInv, MembersInv
    <3>3. <<c, Order[k]>> \in Queues
      <4>1. joining[c] \in 1..(Len(Order) + 1)
        BY DEF SocketInv, MembersInv
      <4>2. k \in 1..9
        BY <3>1, <4>1, OrderFacts
      <4>3. QED
        BY <4>2, OrderFacts DEF Queues
    <3>4. QED
      BY <1>5, <3>1, <3>2, <3>3
  <2>5. /\ queues' \in [Queues -> Seq(AllObjects)]
        /\ handed' \in [Lists -> Seq(AllObjects)]
    BY <1>1 DEF SocketInv, MembersInv
  <2>6. QED
    BY <1>4, <1>5, <2>1, <2>2, <2>3, <2>4, <2>5 DEF MembersInv
<1>9. LoopInv'
  <2>1. ASSUME walk # <<>>
        PROVE  InLoop(Head(walk))'
    <3>0. PICK w : w = Head(walk)
      OBVIOUS
    <3>1. /\ w \in Lists /\ InLoop(w) /\ position \in Nat /\ position > 0
          /\ end \in Nat
      BY <2>1, <3>0, SeqFacts DEF SocketInv, LoopInv
    <3>2. w = Head(walk')
      BY <1>1, <3>0
    <3>3. Len(lists[w]) \in Nat /\ Len(lists[w]) <= Len(lists'[w])
          /\ Len(lists'[w]) \in Nat
      <4>1. Len(lists[w]) \in Nat
        BY <3>1, MemberTypes
      <4>2. CASE w = m
        BY <1>2, <1>3, <1>4, <4>2 DEF n
      <4>3. CASE w # m
        BY <1>4, <3>1, <4>1, <4>3
      <4>4. QED
        BY <4>2, <4>3
    <3>4. \A i \in position..end : since'[lists'[w][i]] < Len(handed'[w])
      <4> TAKE i \in position..end
      <4>1. i \in 1..Len(lists[w])
        BY <3>1, <3>3 DEF InLoop
      <4>2. since[lists[w][i]] < Len(handed[w])
        BY <3>1 DEF InLoop
      <4>3. QED
        BY <1>1, <1>6, <3>1, <4>1, <4>2
    <3>5. end <= Len(lists'[w])
      BY <3>1, <3>3 DEF InLoop
    <3>6. InLoop(w)'
      BY <1>1, <3>1, <3>4, <3>5 DEF InLoop
    <3>7. QED
      BY <3>2, <3>6 DEF InLoop
  <2>2. QED
    BY <1>1, <2>1 DEF SocketInv, LoopInv
<1>10. ASSUME NEW l \in Lists, NEW i \in 1..Len(lists'[l])
       PROVE  UpToDate(l, i)'
  <2>1. Awaited(l, i)' = Awaited(l, i)
    BY <1>1 DEF Awaited, Walking
  <2>2. CASE i \in 1..Len(lists[l])
    <3>1. UpToDate(l, i)
      BY <2>2 DEF SocketInv, PushedInv
    <3>2. lists'[l][i] = lists[l][i] /\ since'[lists[l][i]] = since[lists[l][i]]
      BY <1>6, <2>2
    <3>3. QED
      BY <1>1, <2>1, <3>1, <3>2 DEF UpToDate
  <2>3. CASE l = m /\ i = n + 1
    <3>1. Awaited(l, i) = 0
      <4>1. Walking(l) => i \notin position..end
        <5>1. SUFFICES ASSUME Walking(l) PROVE i \notin position..end
          OBVIOUS
        <5>2. end <= n /\ end \in Nat /\ position \in Nat
          BY <2>3, <5>1 DEF Walking, SocketInv, LoopInv, InLoop, n
        <5>3. QED
          BY <1>2, <2>3, <5>2
      <4>2. QED
        BY <4>1 DEF Awaited
    <3>2. lists'[l][i] = p /\ queues'[p] = <<>>
      BY <1>1, <1>6, <2>3 DEF SocketInv, MembersInv
    <3>3. /\ handed'[l] = h /\ since'[p] + 1 = Len(h) + 1
          /\ Len(h) - 0 = Len(h)
      BY <1>1, <1>2, <1>5, <2>3 DEF h
    <3>4. SubSeq(h, Len(h) + 1, Len(h)) = <<>>
      BY <1>2, NoSuffix
    <3>5. QED
      BY <2>1, <3>1, <3>2, <3>3, <3>4 DEF UpToDate
  <2>4. QED
    BY <1>7, <2>2, <2>3
<1>11. QED
  BY <1>8, <1>9, <1>10 DEF SocketInv, PushedInv

LEMMA RegisterKeeps ==
    ASSUME SocketInv, NEW c \in Clients, register_client(c)
    PROVE  SocketInv'
<1> DEFINE p == <<c, Order[joining[c]]>>
<1>1. /\ joining[c] <= Len(Order) /\ Add(p)
      /\ joining' = [joining EXCEPT ![c] = @ + 1]
      /\ UNCHANGED <<loop, queues, handed>>
  BY DEF register_client
<1>2. joining \in [Clients -> 1..10] /\ joining[c] \in 1..9 /\ Len(Order) = 9
  BY <1>1, OrderFacts DEF SocketInv, MembersInv
<1>3. /\ p \in Queues /\ p[2] \in Lists /\ p[2] = Order[joining[c]]
  BY <1>2, OrderFacts DEF Queues, Lists
<1>4. since[p] = -1
  <2>1. joining[c] \in joining[c]..Len(Order)
    BY <1>2
  <2>2. QED
    BY <2>1 DEF SocketInv, MembersInv
<1>5. joining' \in [Clients -> 1..(Len(Order) + 1)]
  BY <1>1, <1>2
<1>6. ASSUME NEW b \in Clients, NEW k \in joining'[b]..Len(Order)
      PROVE  k \in joining[b]..Len(Order) /\ <<b, Order[k]>> # p
  <2>1. CASE b = c
    <3>1. k \in (joining[c] + 1)..9
      BY <1>1, <1>2, <2>1
    <3>2. k \in joining[c]..9 /\ k \in 1..9 /\ k # joining[c]
      BY <1>2, <3>1
    <3>3. Order[k] # Order[joining[c]]
      BY <1>2, <3>2, OrderFacts
    <3>4. QED
      BY <1>2, <2>1, <3>2, <3>3
  <2>2. CASE b # c
    BY <1>1, <1>2, <2>2
  <2>3. QED
    BY <2>1, <2>2
<1> HIDE DEF p
<1>7. QED
  BY <1>1, <1>3, <1>4, <1>5, <1>6, AddKeeps

LEMMA RegisterOneKeeps ==
    ASSUME SocketInv, NEW l \in Solitary, register_client_one(l)
    PROVE  SocketInv'
<1> DEFINE p == <<"solitary", l>>
<1>1. /\ since[p] = -1 /\ Add(p) /\ joining' = joining
      /\ UNCHANGED <<loop, queues, handed>>
  BY DEF register_client_one
<1>2. p \in Queues /\ p[2] \in Lists
  BY ClientsAssumption DEF Queues
<1>3. joining' \in [Clients -> 1..(Len(Order) + 1)]
  BY <1>1 DEF SocketInv, MembersInv
<1>4. ASSUME NEW c \in Clients, NEW k \in joining'[c]..Len(Order)
      PROVE  k \in joining[c]..Len(Order) /\ <<c, Order[k]>> # p
  BY <1>1, ClientsAssumption
<1> HIDE DEF p
<1>5. QED
  BY <1>1, <1>2, <1>3, <1>4, AddKeeps

LEMMA SocketNextInv == SocketInv /\ [SocketNext]_socketVars => SocketInv'
<1> SUFFICES ASSUME SocketInv, [SocketNext]_socketVars PROVE SocketInv'
  OBVIOUS
<1>1. CASE UNCHANGED socketVars
  <2>1. UNCHANGED <<on_main, lists, joining, since, object, walk, position,
                    end, received, queues, handed, loop_status>>
    BY <1>1 DEF socketVars, members, loop
  <2>2. MembersInv'
    BY <2>1 DEF SocketInv, MembersInv
  <2>3. LoopInv'
    BY <2>1 DEF SocketInv, LoopInv, InLoop
  <2>4. PushedInv'
    BY <2>1 DEF SocketInv, PushedInv, UpToDate, Awaited, Walking
  <2>5. QED
    BY <2>2, <2>3, <2>4 DEF SocketInv
<1>2. QED
  BY <1>1, ReceiveKeeps, PushKeeps, EndLoopKeeps, RegisterKeeps,
     RegisterOneKeeps DEF SocketNext

(* Whatever comes and whoever registers at any moment: a client is pushed  *)
(* every object its list is given from then on, once and in order, and     *)
(* nothing from before.                                                    *)
THEOREM PushedOnceInOrder == SocketSpec => []OnceInOrderSinceJoined
<1>1. SocketInv => OnceInOrderSinceJoined
  <2> SUFFICES ASSUME SocketInv, NEW l \in Lists, NEW i \in DOMAIN lists[l]
               PROVE  UpToDate(l, i)
    BY DEF OnceInOrderSinceJoined, UpToDate, Awaited
  <2>1. i \in 1..Len(lists[l])
    BY SeqFacts, MemberTypes
  <2>2. QED
    BY <2>1 DEF SocketInv, PushedInv
<1>2. QED
  BY <1>1, SocketInitInv, SocketNextInv, PTL DEF SocketSpec

--------------------------------------------------------------------------
(* Induction, and what FlattenSeq computes.                                *)

LEMMA SetInduction ==
    ASSUME NEW T \in SUBSET Nat, 0 \in T, \A n \in T : n + 1 \in T
    PROVE  Nat \subseteq T
<1> DEFINE R == OpToRel(<, Nat)
           B == Nat \ T
<1>1. IsWellFoundedOn(R, Nat)
  BY NatLessThanWellFounded
<1>2. ASSUME NEW x \in Nat, NEW y \in Nat, y < x
      PROVE  <<y, x>> \in R
  BY <1>2 DEF OpToRel
<1> HIDE DEF R
<1>3. SUFFICES ASSUME B # {} PROVE FALSE
  OBVIOUS
<1>4. PICK x \in B : \A y \in B : ~(<<y, x>> \in R)
  <2>1. B \subseteq Nat
    OBVIOUS
  <2> HIDE DEF B
  <2>2. QED
    BY <1>1, <1>3, <2>1, WFMin
<1>5. x \in Nat /\ x # 0 /\ x - 1 \in Nat /\ x - 1 < x
  BY <1>4
<1>6. x - 1 \notin B
  BY <1>2, <1>4, <1>5
<1>7. QED
  BY <1>4, <1>5, <1>6

(* FlattenSeq(s) is the last of the concatenations g of the first          *)
(* sequences in s.                                                         *)
LEMMA FlattenIsLast ==
    ASSUME NEW s, NEW n \in Nat \ {0}, Len(s) = n,
           NEW g,
           \A i \in 1..n :
               g[i] = IF i = 1 THEN s[i] ELSE g[i - 1] \o s[i]
    PROVE  FlattenSeq(s) = g[n]
<1> DEFINE f == CHOOSE f :
                   f = [i \in 1..n |-> IF i = 1 THEN s[i] ELSE f[i - 1] \o s[i]]
           T == {m \in Nat : m + 1 \in 1..n => f[m + 1] = g[m + 1]}
<1>1. f = [i \in 1..n |-> IF i = 1 THEN s[i] ELSE f[i - 1] \o s[i]]
  <2> DEFINE h == [i \in 1..n |-> g[i]]
  <2>1. \A i \in 1..n : h[i] = IF i = 1 THEN s[i] ELSE h[i - 1] \o s[i]
    <3> TAKE i \in 1..n
    <3>1. h[i] = g[i] /\ (i # 1 => h[i - 1] = g[i - 1])
      OBVIOUS
    <3> HIDE DEF h
    <3>2. QED
      BY <3>1
  <2>2. h = [i \in 1..n |-> IF i = 1 THEN s[i] ELSE h[i - 1] \o s[i]]
    BY <2>1
  <2> HIDE DEF h
  <2>3. QED
    BY <2>2
<1>2. FlattenSeq(s) = f[n]
  BY DEF FlattenSeq
<1> HIDE DEF f
<1>3. 0 \in T
  <2>1. f[1] = s[1]
    BY <1>1
  <2>2. g[1] = s[1]
    OBVIOUS
  <2>3. QED
    BY <2>1, <2>2
<1>4. ASSUME NEW m \in T
      PROVE  m + 1 \in T
  <2>1. SUFFICES ASSUME (m + 1) + 1 \in 1..n
                 PROVE  f[(m + 1) + 1] = g[(m + 1) + 1]
    OBVIOUS
  <2>2. f[m + 1] = g[m + 1]
    BY <2>1
  <2> DEFINE k == (m + 1) + 1
  <2>3. k \in 1..n /\ k # 1 /\ k - 1 = m + 1
    BY <2>1
  <2> HIDE DEF k
  <2>4. f[k] = f[k - 1] \o s[k] /\ g[k] = g[k - 1] \o s[k]
    BY <1>1, <2>3
  <2>5. QED
    BY <2>2, <2>3, <2>4 DEF k
<1>5. n - 1 \in T
  <2>1. Nat \subseteq T
    <3>1. T \in SUBSET Nat
      OBVIOUS
    <3> HIDE DEF T
    <3>2. QED
      BY <1>3, <1>4, <3>1, SetInduction
  <2>2. n - 1 \in Nat
    OBVIOUS
  <2>3. QED
    BY <2>1, <2>2
<1>6. QED
  BY <1>2, <1>5

LEMMA NextMultiple ==
    ASSUME NEW n \in Nat, NEW c \in Nat
    PROVE  n * c \in Nat /\ (n + 1) * c = (n * c) + c /\ 0 * c = 0
OBVIOUS

LEMMA MultipleBound ==
    ASSUME NEW m \in Nat, NEW n \in Nat, NEW c \in Nat, m <= n
    PROVE  m * c <= n * c
OBVIOUS

LEMMA PartsJoin ==
    ASSUME NEW S, NEW cells \in Seq(S), NEW a \in Nat, NEW b \in Nat,
           a <= b, b <= Len(cells)
    PROVE  SubSeq(cells, 1, a) \o SubSeq(cells, a + 1, b) = SubSeq(cells, 1, b)
OBVIOUS

(* The parts of a sequence that was cut at some places.                    *)
Parted(cells, n, s, at) ==
    /\ Len(s) = n /\ (n = 0 => s = <<>>)
    /\ at[0] = 0
    /\ \A i \in 0..n : at[i] \in Nat /\ at[i] <= Len(cells)
    /\ \A i \in 1..n : /\ at[i - 1] <= at[i]
                       /\ s[i] = SubSeq(cells, at[i - 1] + 1, at[i])

LEMMA FlattenParts ==
    ASSUME NEW S, NEW cells \in Seq(S), NEW n \in Nat, NEW s, NEW at,
           Parted(cells, n, s, at)
    PROVE  FlattenSeq(s) = SubSeq(cells, 1, at[n])
<1> USE DEF Parted
<1>1. CASE n = 0
  <2>1. FlattenSeq(s) = <<>>
    BY <1>1 DEF FlattenSeq
  <2>2. SubSeq(cells, 1, 0) = <<>>
    OBVIOUS
  <2>3. QED
    BY <1>1, <2>1, <2>2
<1>2. CASE n # 0
  <2> DEFINE g == [i \in 1..n |-> SubSeq(cells, 1, at[i])]
  <2>1. ASSUME NEW i \in 1..n
        PROVE  g[i] = IF i = 1 THEN s[i] ELSE g[i - 1] \o s[i]
    <3>0. g[i] = SubSeq(cells, 1, at[i])
      OBVIOUS
    <3>1. CASE i = 1
      <4>1. at[i - 1] = 0 /\ s[i] = SubSeq(cells, at[i - 1] + 1, at[i])
        BY <3>1
      <4>2. QED
        BY <3>0, <3>1, <4>1
    <3>2. CASE i # 1
      <4>1. i - 1 \in 1..n /\ g[i - 1] = SubSeq(cells, 1, at[i - 1])
        BY <3>2
      <4>2. /\ at[i - 1] \in Nat /\ at[i] \in Nat
            /\ at[i - 1] <= at[i] /\ at[i] <= Len(cells)
        BY <4>1
      <4>3. SubSeq(cells, 1, at[i - 1]) \o s[i] = SubSeq(cells, 1, at[i])
        BY <4>2, PartsJoin
      <4>4. g[i] = g[i - 1] \o s[i]
        BY <3>0, <4>1, <4>3
      <4> HIDE DEF g
      <4>5. QED
        BY <3>2, <4>4
    <3>3. QED
      BY <3>1, <3>2
  <2>2. g[n] = SubSeq(cells, 1, at[n])
    BY <1>2
  <2> HIDE DEF g
  <2>3. FlattenSeq(s) = g[n]
    BY <1>2, <2>1, FlattenIsLast
  <2>4. QED
    BY <2>2, <2>3
<1>3. QED
  BY <1>1, <1>2

LEMMA PartElements ==
    ASSUME NEW S, NEW cells \in Seq(S), NEW a \in Nat, NEW b \in Nat,
           a <= b, b <= Len(cells),
           NEW part \in Seq(S), Len(part) = b - a,
           \A j \in 1..(b - a) : part[j] = cells[a + j]
    PROVE  part = SubSeq(cells, a + 1, b)
OBVIOUS

(* The columns of a table, one after the other.                            *)
Columns(cells, n, c, s) ==
    /\ Len(cells) = n * c /\ Len(s) = n
    /\ \A i \in 1..n : /\ Len(s[i]) = c
                       /\ \A j \in 1..c : s[i][j] = cells[(i - 1) * c + j]

LEMMA FlattenColumns ==
    ASSUME NEW S, NEW n \in Nat, NEW c \in Nat, NEW cells \in Seq(S),
           NEW s \in Seq(Seq(S)), Columns(cells, n, c, s)
    PROVE  FlattenSeq(s) = cells
<1> USE DEF Columns
<1> DEFINE at == [i \in 0..n |-> i * c]
<1>1. \A i \in 0..n : at[i] \in Nat /\ at[i] <= Len(cells)
  BY NextMultiple, MultipleBound
<1>2. at[0] = 0 /\ at[n] = Len(cells)
  BY NextMultiple
<1>3. ASSUME NEW i \in 1..n
      PROVE  /\ at[i - 1] <= at[i]
             /\ s[i] = SubSeq(cells, at[i - 1] + 1, at[i])
  <2> DEFINE a == at[i - 1]
             b == at[i]
  <2>1. a = (i - 1) * c /\ a \in Nat /\ b = a + c /\ b \in Nat
        /\ b <= Len(cells)
    <3>1. i - 1 \in Nat /\ (i - 1) + 1 = i /\ i - 1 \in 0..n /\ i \in 0..n
      OBVIOUS
    <3>2. QED
      BY <1>1, <3>1, NextMultiple
  <2>2. s[i] \in Seq(S) /\ Len(s[i]) = c
    OBVIOUS
  <2>3. \A j \in 1..c : s[i][j] = cells[a + j]
    BY <2>1
  <2> HIDE DEF a, b
  <2>4. s[i] = SubSeq(cells, a + 1, b)
    BY <2>1, <2>2, <2>3, PartElements
  <2>5. QED
    BY <2>1, <2>4 DEF a, b
<1> HIDE DEF at
<1>4. n = 0 => s = <<>>
  OBVIOUS
<1>5. FlattenSeq(s) = SubSeq(cells, 1, at[n])
  <2>1. Parted(cells, n, s, at)
    BY <1>1, <1>2, <1>3, <1>4 DEF Parted
  <2>2. QED
    BY <2>1, FlattenParts
<1>6. SubSeq(cells, 1, Len(cells)) = cells
  OBVIOUS
<1>7. QED
  BY <1>2, <1>5, <1>6

--------------------------------------------------------------------------
(* What the objects handed out are made of.                                *)

FromDatagram(l, o) ==
    /\ l \in {"aco", "out"} =>
          \E d \in Received : o = UdpAcousticData(d) /\ check_aco_data(o)
    /\ l = "beam2d" =>
          \E d \in Received : d.id = "ACB2" /\ o = UdpBeamform2D(d)
    /\ l = "beamraw" =>
          \E d \in Received : d.id = "ACBR" /\ o = UdpBeamformRaw(d)

(* So is what was handed out, and what will be in the lists to come.       *)
MadeInv ==
    /\ \A l \in Lists : \A i \in 1..Len(handed[l]) :
          FromDatagram(l, handed[l][i])
    /\ \A k \in 1..Len(walk) : FromDatagram(walk[k], object)

LEMMA MadeForDestinations ==
    ASSUME NEW d \in Received, NEW k \in 1..Len(Destinations(d))
    PROVE  FromDatagram(Destinations(d)[k], ParsedObject(d))
<1> DEFINE id == MessageId(d)
<1>1. id \in {"aco", "beam2d", "beamraw", "pts", "imu", "bno", "bnr", "ept",
              "rtc", "unknown"}
  BY MessageIds, ListsFacts
<1>2. CASE id = "aco"
  <2>1. ParsedObject(d) = UdpAcousticData(d)
    BY <1>2 DEF ParsedObject
  <2>2. Destinations(d) = IF check_aco_data(ParsedObject(d))
                          THEN <<"aco", "out">> ELSE <<>>
    BY <1>2 DEF Destinations
  <2>3. check_aco_data(ParsedObject(d)) /\ Destinations(d)[k] \in {"aco", "out"}
    BY <2>2
  <2>4. QED
    BY <2>1, <2>3 DEF FromDatagram
<1>3. CASE id = "beamraw"
  <2>1. ParsedObject(d) = UdpBeamformRaw(d)
    BY <1>3 DEF ParsedObject
  <2>2. Destinations(d) \in {<<"beamraw">>, <<>>}
    BY <1>3 DEF Destinations
  <2>3. Destinations(d)[k] = "beamraw"
    BY <2>2
  <2>4. d.id = "ACBR"
    BY <1>3 DEF MessageId, check_msg_id
  <2>5. QED
    BY <2>1, <2>3, <2>4 DEF FromDatagram
<1>4. CASE id = "beam2d"
  <2>1. ParsedObject(d) = UdpBeamform2D(d)
    BY <1>4 DEF ParsedObject
  <2>2. Destinations(d) = <<"beam2d">>
    BY <1>4 DEF Destinations
  <2>3. Destinations(d)[k] = "beam2d"
    BY <2>2
  <2>4. d.id = "ACB2"
    BY <1>4 DEF MessageId, check_msg_id
  <2>5. QED
    BY <2>1, <2>3, <2>4 DEF FromDatagram
<1>5. CASE id \notin {"aco", "beamraw", "beam2d"}
  <2>1. id # "unknown" => Destinations(d) = <<id>>
    BY <1>1, <1>5 DEF Destinations
  <2>2. id = "unknown" => Destinations(d) = <<>>
    BY DEF Destinations
  <2>3. Destinations(d)[k] = id
    BY <2>1, <2>2
  <2>4. id \notin {"aco", "out", "beamraw", "beam2d"}
    BY <1>1, <1>5
  <2>5. QED
    BY <2>3, <2>4 DEF FromDatagram
<1>6. QED
  BY <1>2, <1>3, <1>4, <1>5

LEMMA MadeInit == SocketInit => MadeInv
<1>1. Len(<<>>) = 0
  OBVIOUS
<1>2. QED
  BY <1>1 DEF SocketInit, MadeInv

LEMMA MadeBegins ==
    ASSUME SocketInv, MadeInv,
           NEW todo \in Seq(Lists), NEW o \in AllObjects,
           \A k \in 1..Len(todo) : FromDatagram(todo[k], o),
           BeginFirst(todo, o), object' = o
    PROVE  MadeInv'
<1>1. walk' = todo
  BY DEF BeginFirst
<1>2. \A k \in 1..Len(walk') : FromDatagram(walk'[k], object')
  BY <1>1
<1>3. ASSUME NEW l \in Lists, NEW i \in 1..Len(handed'[l])
      PROVE  FromDatagram(l, handed'[l][i])
  <2>1. CASE handed'[l] = handed[l]
    BY <2>1 DEF MadeInv
  <2>2. CASE handed'[l] # handed[l]
    <3>1. todo # <<>> /\ handed' = [handed EXCEPT ![Head(todo)] = Append(@, o)]
      BY <2>2 DEF BeginFirst, BeginLoop
    <3>2. /\ Len(todo) \in Nat /\ Len(todo) > 0 /\ Head(todo) = todo[1]
          /\ handed \in [Lists -> Seq(AllObjects)]
          /\ handed[l] \in Seq(AllObjects)
      BY <3>1, SeqFacts DEF SocketInv, MembersInv
    <3>3. l = todo[1] /\ handed'[l] = Append(handed[l], o)
      BY <2>2, <3>1, <3>2
    <3>4. FromDatagram(l, o)
      BY <3>2, <3>3
    <3>5. CASE i \in 1..Len(handed[l])
      <4>1. handed'[l][i] = handed[l][i]
        BY <3>2, <3>3, <3>5, AppendFacts
      <4>2. QED
        BY <3>5, <4>1 DEF MadeInv
    <3>6. CASE i = Len(handed[l]) + 1
      <4>1. handed'[l][i] = o
        BY <3>2, <3>3, <3>6, AppendFacts
      <4>2. QED
        BY <3>4, <4>1
    <3>7. Len(handed'[l]) = Len(handed[l]) + 1 /\ Len(handed[l]) \in Nat
      BY <3>2, <3>3, AppendFacts
    <3>8. QED
      BY <3>5, <3>6, <3>7
  <2>3. QED
    BY <2>1, <2>2
<1>4. QED
  BY <1>2, <1>3 DEF MadeInv

LEMMA MadeNext ==
    SocketInv /\ MadeInv /\ [SocketNext]_socketVars => MadeInv'
<1> SUFFICES ASSUME SocketInv, MadeInv, [SocketNext]_socketVars
             PROVE  MadeInv'
  OBVIOUS
<1>1. object \in AllObjects /\ walk \in Seq(Lists)
  BY DEF SocketInv, LoopInv
<1>2. ASSUME NEW d \in Received, Receive(d)
      PROVE  MadeInv'
  <2>1. /\ object' = ParsedObject(d)
        /\ BeginFirst(Destinations(d), ParsedObject(d))
    BY <1>2 DEF Receive
  <2>2. ParsedObject(d) \in AllObjects /\ Destinations(d) \in Seq(Lists)
    BY <1>1, ParsedIsMade, DestinationsAreLists
  <2>3. QED
    BY <2>1, <2>2, MadeForDestinations, MadeBegins
<1>3. CASE EndLoop
  <2>1. walk # <<>> /\ BeginFirst(Tail(walk), object) /\ object' = object
    BY <1>3 DEF EndLoop
  <2>2. /\ Tail(walk) \in Seq(Lists)
        /\ \A k \in 1..Len(Tail(walk)) :
              k + 1 \in 1..Len(walk) /\ Tail(walk)[k] = walk[k + 1]
    BY <1>1, <2>1
  <2>3. \A k \in 1..Len(Tail(walk)) : FromDatagram(Tail(walk)[k], object)
    BY <2>2 DEF MadeInv
  <2>4. QED
    BY <1>1, <2>1, <2>2, <2>3, MadeBegins
<1>4. CASE \/ PushObject \/ UNCHANGED socketVars
           \/ \E c \in Clients : register_client(c)
           \/ \E l \in Solitary : register_client_one(l)
  <2>1. UNCHANGED <<handed, walk, object>>
    BY <1>4 DEF PushObject, register_client, register_client_one, loop,
       socketVars
  <2>2. QED
    BY <2>1 DEF MadeInv
<1>5. QED
  BY <1>2, <1>3, <1>4 DEF SocketNext

LEMMA Division ==
    ASSUME NEW n \in Nat, NEW c \in Nat \ {0}
    PROVE  /\ n \div c \in Nat
           /\ n = ((n \div c) * c) + (n % c) /\ n % c \in 0..(c - 1)
OBVIOUS

(* The index of a cell of a table of n columns of c cells.                 *)
LEMMA CellInTable ==
    ASSUME NEW n \in Nat, NEW c \in Nat, NEW t \in 1..n, NEW j \in 1..c
    PROVE  (t - 1) * c \in Nat /\ ((t - 1) * c) + j \in 1..(n * c)
<1>1. t - 1 \in Nat /\ (t - 1) + 1 = t /\ t \in Nat /\ t <= n
  OBVIOUS
<1>2. /\ (t - 1) * c \in Nat /\ t * c = ((t - 1) * c) + c
      /\ n * c \in Nat
  BY <1>1, NextMultiple
<1>3. t * c <= n * c
  BY <1>1, MultipleBound
<1> DEFINE a == (t - 1) * c
           b == t * c
           m == n * c
<1> HIDE DEF a, b, m
<1>4. a \in Nat /\ b = a + c /\ b <= m /\ m \in Nat
  BY <1>2, <1>3 DEF a, b, m
<1>5. a + j \in 1..m
  BY <1>4
<1>6. QED
  BY <1>4, <1>5 DEF a, m

(* The samples of a packet, column by column, are all that fill a column.  *)
LEMMA FlattenSamples ==
    ASSUME NEW h, h.num_values \in Nat, h.num_channels \in Nat \ {0}
    PROVE  LET samples == FlattenSeq(unpack_acoustic(h))
           IN  /\ samples = [k \in 1..Len(samples) |-> k]
               /\ h.num_values - Len(samples) \in 0..(h.num_channels - 1)
<1> DEFINE c == h.num_channels
           v == h.num_values
           n == v \div c
           cell == [k \in 1..(n * c) |-> k]
<1>1. n \in Nat /\ c \in Nat /\ n * c \in Nat /\ v - (n * c) \in 0..(c - 1)
  <2>1. n \in Nat /\ c \in Nat /\ v = (n * c) + (v % c) /\ v % c \in 0..(c - 1)
        /\ v \in Nat
    BY Division
  <2>2. n * c \in Nat
    BY <2>1, NextMultiple
  <2> HIDE DEF n, c, v
  <2>3. QED
    BY <2>1, <2>2
<1>2. unpack_acoustic(h)
        = [t \in 1..n |-> [j \in 1..c |-> (t - 1) * c + j]]
  BY DEF unpack_acoustic
<1> HIDE DEF n, c, v
<1>3. ASSUME NEW t \in 1..n, NEW j \in 1..c
      PROVE  cell[(t - 1) * c + j] = (t - 1) * c + j
  BY <1>1, CellInTable
<1> DEFINE s == unpack_acoustic(h)
<1>4. /\ s \in Seq(Seq(Nat)) /\ Len(s) = n
      /\ \A t \in 1..n :
            /\ Len(s[t]) = c
            /\ \A j \in 1..c : s[t][j] = cell[(t - 1) * c + j]
  <2>1. \A t \in 1..n : s[t] = [j \in 1..c |-> (t - 1) * c + j]
    BY <1>2
  <2>2. ASSUME NEW t \in 1..n
        PROVE  s[t] \in Seq(Nat) /\ Len(s[t]) = c
    <3> DEFINE a == (t - 1) * c
    <3>1. a \in Nat /\ s[t] = [j \in 1..c |-> a + j]
      BY <1>1, <2>1, NextMultiple
    <3> HIDE DEF a
    <3>2. \A j \in 1..c : a + j \in Nat
      BY <3>1
    <3>3. QED
      BY <1>1, <3>1, <3>2
  <2>3. s \in Seq(Seq(Nat)) /\ Len(s) = n
    BY <1>1, <1>2, <2>2
  <2>4. QED
    BY <1>3, <2>1, <2>2, <2>3
<1>5. cell \in Seq(Nat)
  BY <1>1
<1>6. Len(cell) = n * c /\ cell = [k \in 1..Len(cell) |-> k]
  BY <1>1
<1> HIDE DEF cell, s
<1>7. FlattenSeq(s) = cell
  <2>1. Columns(cell, n, c, s)
    BY <1>4, <1>6 DEF Columns
  <2>2. QED
    BY <1>1, <1>4, <1>5, <2>1, FlattenColumns
<1>8. QED
  BY <1>1, <1>6, <1>7 DEF c, v, s

LEMMA PacketAgrees ==
    ASSUME NEW d \in Received, NEW o, o = UdpAcousticData(d),
           check_aco_data(o)
    PROVE  LET samples == FlattenSeq(o.data)
           IN  /\ samples = [k \in 1..Len(samples) |-> k]
               /\ o.header.num_values - Len(samples)
                     \in 0..(o.header.num_channels - 1)
               /\ o.data # <<>> => o.header = AcousticHeader(o.of)
<1> DEFINE valid == d.id = "AC" /\ d.size >= 47
           whole == d.size - AcousticHeaderSize(d.ver_maj) = d.num_values * 2
<1>1. /\ o.of = d
      /\ o.header = IF valid THEN AcousticHeader(d) ELSE DefaultAcousticHeader
      /\ o.data = IF valid /\ whole THEN unpack_acoustic(AcousticHeader(d))
                  ELSE <<>>
  BY DEF UdpAcousticData
<1>2. o.header.num_values \in Nat /\ o.header.num_channels \in Nat \ {0}
  BY <1>1, ReceivedAssumption DEF AcousticHeader, DefaultAcousticHeader
<1>3. valid => o.header = AcousticHeader(o.of)
  BY <1>1
<1>4. CASE valid /\ whole
  BY <1>1, <1>2, <1>4, FlattenSamples
<1>5. CASE ~(valid /\ whole)
  <2>1. o.data = <<>> /\ Len(o.data) = 0 /\ FlattenSeq(o.data) = <<>>
    BY <1>1, <1>5 DEF FlattenSeq
  <2>2. o.header.num_values \div o.header.num_channels = 0
    BY <2>1 DEF check_aco_data
  <2> DEFINE v == o.header.num_values
             c == o.header.num_channels
  <2>3. v - 0 \in 0..(c - 1)
    <3>1. v \in Nat /\ c \in Nat \ {0} /\ v \div c = 0
      BY <1>2, <2>2
    <3> HIDE DEF v, c
    <3>2. v = (0 * c) + (v % c) /\ v % c \in 0..(c - 1)
      BY <3>1, Division
    <3>3. QED
      BY <3>1, <3>2
  <2>4. <<>> = [k \in 1..0 |-> k] /\ Len(<<>>) = 0
    OBVIOUS
  <2>5. QED
    BY <2>1, <2>3, <2>4
<1>6. QED
  BY <1>4, <1>5

(* No packet reaches a queue with samples its header does not announce or  *)
(* with samples of another datagram: check_aco_data stops one that is cut  *)
(* off, whatever its size, version and counts.                             *)
THEOREM PacketsAgreeWithHeaders == SocketSpec => []SamplesAgreeWithHeader
<1>1. SocketInv /\ MadeInv => SamplesAgreeWithHeader
  <2> SUFFICES ASSUME SocketInv, MadeInv,
                      NEW o \in Objects("aco") \cup Objects("out")
               PROVE  LET samples == FlattenSeq(o.data)
                      IN  /\ samples = [k \in 1..Len(samples) |-> k]
                          /\ o.header.num_values - Len(samples)
                                \in 0..(o.header.num_channels - 1)
                          /\ o.data # <<>> => o.header = AcousticHeader(o.of)
    BY DEF SamplesAgreeWithHeader
  <2>1. PICK l \in {"aco", "out"} : o \in Objects(l)
    OBVIOUS
  <2>2. PICK i \in DOMAIN handed[l] : o = handed[l][i]
    BY <2>1 DEF Objects
  <2>3. l \in Lists /\ i \in 1..Len(handed[l])
    <3>1. l \in Lists
      BY <2>1, ListsFacts
    <3>2. handed[l] \in Seq(AllObjects)
      BY <3>1, MemberTypes
    <3>3. QED
      BY <2>2, <3>1, <3>2, SeqFacts
  <2>4. FromDatagram(l, o)
    BY <2>2, <2>3 DEF MadeInv
  <2>5. PICK d \in Received : o = UdpAcousticData(d) /\ check_aco_data(o)
    BY <2>4 DEF FromDatagram
  <2>6. QED
    BY <2>5, PacketAgrees
<1>2. QED
  BY <1>1, SocketInitInv, SocketNextInv, MadeInit, MadeNext, PTL
  DEF SocketSpec

--------------------------------------------------------------------------
(* BeamCodec: what is read from a datagram encodes to that datagram.       *)

LEMMA VectorsFacts ==
    /\ Len(Vectors) = 8 /\ DOMAIN Vectors = 1..8
    /\ \A j, k \in 1..8 : Vectors[j] = Vectors[k] => j = k
    /\ \A k \in 1..8 : Vectors[k] \in Range(Vectors)
    /\ \A k \in 1..8 : Vectors[k] = "element_mask" <=> k = 5
BY DEF Vectors, Range

Counted(h) ==
    {h.num_elements, h.num_frequencies, h.num_bearings, h.num_elevations}
        \subseteq Nat

LEMMA LengthsAreNat ==
    ASSUME NEW h, Counted(h), NEW v
    PROVE  Length(h, v) \in Nat
BY DEF Length, Counted

(* The offsets are the sums of the lengths before.                         *)
LEMMA Offsets ==
    ASSUME NEW h, Counted(h)
    PROVE  /\ Offset(h, 1) = 0
           /\ \A k \in 1..8 :
                 Offset(h, k + 1) = Offset(h, k) + Length(h, Vectors[k])
           /\ \A k \in 1..9 : Offset(h, k) \in Nat
<1> DEFINE L(k) == Length(h, Vectors[k])
           before == CHOOSE before : before = [i \in 1..(Len(Vectors) + 1) |->
                        IF i = 1 THEN 0
                        ELSE before[i - 1] + Length(h, Vectors[i - 1])]
           o2 == L(1)
           o3 == o2 + L(2)
           o4 == o3 + L(3)
           o5 == o4 + L(4)
           o6 == o5 + L(5)
           o7 == o6 + L(6)
           o8 == o7 + L(7)
           o9 == o8 + L(8)
           g == <<0, o2, o3, o4, o5, o6, o7, o8, o9>>
<1>1. \A k \in 1..8 : L(k) \in Nat
  BY LengthsAreNat
<1> HIDE DEF L
<1>2. /\ o2 \in Nat /\ o3 \in Nat /\ o4 \in Nat /\ o5 \in Nat
      /\ o6 \in Nat /\ o7 \in Nat /\ o8 \in Nat /\ o9 \in Nat
  BY <1>1
<1>3. ASSUME NEW i \in 1..9
      PROVE  /\ g[i] \in Nat
             /\ g[i] = IF i = 1 THEN 0 ELSE g[i - 1] + L(i - 1)
  <2>1. /\ g[1] = 0 /\ g[2] = o2 /\ g[3] = o3 /\ g[4] = o4 /\ g[5] = o5
        /\ g[6] = o6 /\ g[7] = o7 /\ g[8] = o8 /\ g[9] = o9
    OBVIOUS
  <2>2. /\ o2 = 0 + L(1) /\ o3 = o2 + L(2) /\ o4 = o3 + L(3)
        /\ o5 = o4 + L(4) /\ o6 = o5 + L(5) /\ o7 = o6 + L(6)
        /\ o8 = o7 + L(7) /\ o9 = o8 + L(8)
    BY <1>1
  <2> HIDE DEF g, o2, o3, o4, o5, o6, o7, o8, o9
  <2>3. CASE i = 1
    BY <2>1, <2>3
  <2>4. CASE i = 2
    BY <1>2, <2>1, <2>2, <2>4
  <2>5. CASE i = 3
    BY <1>2, <2>1, <2>2, <2>5
  <2>6. CASE i = 4
    BY <1>2, <2>1, <2>2, <2>6
  <2>7. CASE i = 5
    BY <1>2, <2>1, <2>2, <2>7
  <2>8. CASE i = 6
    BY <1>2, <2>1, <2>2, <2>8
  <2>9. CASE i = 7
    BY <1>2, <2>1, <2>2, <2>9
  <2>10. CASE i = 8
    BY <1>2, <2>1, <2>2, <2>10
  <2>11. CASE i = 9
    BY <1>2, <2>1, <2>2, <2>11
  <2>12. QED
    BY <2>3, <2>4, <2>5, <2>6, <2>7, <2>8, <2>9, <2>10, <2>11
<1> HIDE DEF g
<1>4. before = [i \in 1..9 |-> IF i = 1 THEN 0
                               ELSE before[i - 1] + Length(h, Vectors[i - 1])]
  <2> DEFINE w == [i \in 1..9 |-> g[i]]
  <2>1. \A i \in 1..9 :
            w[i] = IF i = 1 THEN 0 ELSE w[i - 1] + Length(h, Vectors[i - 1])
    BY <1>3 DEF L
  <2>2. w = [i \in 1..9 |-> IF i = 1 THEN 0
                            ELSE w[i - 1] + Length(h, Vectors[i - 1])]
    BY <2>1
  <2> HIDE DEF w
  <2>3. QED
    BY <2>2, VectorsFacts
<1>5. \A k \in 1..9 : Offset(h, k) = before[k]
  BY DEF Offset
<1> HIDE DEF before
<1>6. before[1] = 0
  BY <1>4
<1>7. \A k \in 1..8 : before[k + 1] = before[k] + L(k)
  BY <1>4 DEF L
<1>8. /\ before[1] \in Nat /\ before[2] \in Nat /\ before[3] \in Nat
      /\ before[4] \in Nat /\ before[5] \in Nat /\ before[6] \in Nat
      /\ before[7] \in Nat /\ before[8] \in Nat /\ before[9] \in Nat
  BY <1>1, <1>6, <1>7
<1>9. \A k \in 1..9 : before[k] \in Nat
  <2> TAKE k \in 1..9
  <2>1. k = 1 \/ k = 2 \/ k = 3 \/ k = 4 \/ k = 5 \/ k = 6 \/ k = 7 \/ k = 8
        \/ k = 9
    OBVIOUS
  <2>2. QED
    BY <1>8, <2>1
<1>10. QED
  BY <1>5, <1>6, <1>7, <1>9 DEF L

Part(h, cells, v, k) ==
    SubSeq(cells, Offset(h, k) + 1, Offset(h, k) + Length(h, v))

Place(v) == CHOOSE i \in DOMAIN Vectors : Vectors[i] = v

LEMMA VectorIsPart ==
    ASSUME NEW h, NEW cells, NEW v, NEW k, Place(v) = k
    PROVE  LET part == Part(h, cells, v, k)
           IN  /\ v # "element_mask" => Vector(h, cells, v) = part
               /\ v = "element_mask" =>
                     Vector(h, cells, v) = [i \in DOMAIN part |-> part[i] = 1]
<1> DEFINE part == Part(h, cells, v, Place(v))
<1>1. Vector(h, cells, v) = IF v = "element_mask"
                            THEN [i \in DOMAIN part |-> part[i] = 1]
                            ELSE part
  BY DEF Vector, Part, Place
<1>2. part = Part(h, cells, v, k)
  OBVIOUS
<1> HIDE DEF part
<1>3. QED
  BY <1>1, <1>2, Zenon

LEMMA PartFacts ==
    ASSUME NEW cells \in Seq(Int), NEW a \in Nat, NEW n \in Nat,
           a + n <= Len(cells)
    PROVE  LET part == SubSeq(cells, a + 1, a + n)
           IN  /\ part \in Seq(Int) /\ DOMAIN part = 1..n
               /\ \A i \in 1..n : part[i] = cells[a + i]
OBVIOUS

(* The k-th vector is what lies between its offset and the next; reading   *)
(* and writing turn the bytes of the mask into flags and back.             *)
LEMMA VectorBack ==
    ASSUME NEW h, Counted(h), NEW cells \in Seq(Int),
           PatternOffset(h) <= Len(cells),
           \A i \in 1..h.num_elements : cells[Offset(h, 5) + i] \in {0, 1},
           NEW k \in 1..8, Offset(h, k + 1) <= Len(cells)
    PROVE  LET part == unpack_vectors(h, cells)[Vectors[k]]
           IN  (IF Vectors[k] = "element_mask"
                THEN [i \in DOMAIN part |-> MaskByte(part[i])]
                ELSE part)
                  = SubSeq(cells, Offset(h, k) + 1, Offset(h, k + 1))
<1> DEFINE v == Vectors[k]
           part == Part(h, cells, v, k)
           read == unpack_vectors(h, cells)[v]
<1>1. Place(v) = k
  BY VectorsFacts DEF Place
<1>2. read = Vector(h, cells, v)
  BY VectorsFacts DEF unpack_vectors
<1>3. /\ v # "element_mask" => read = part
      /\ v = "element_mask" => read = [i \in DOMAIN part |-> part[i] = 1]
  <2> HIDE DEF v
  <2>1. /\ v # "element_mask" => Vector(h, cells, v) = part
        /\ v = "element_mask" =>
              Vector(h, cells, v) = [i \in DOMAIN part |-> part[i] = 1]
    BY <1>1, VectorIsPart
  <2> HIDE DEF part, read
  <2>2. QED
    BY <1>2, <2>1, Zenon
<1>4. Offset(h, k + 1) = Offset(h, k) + Length(h, v)
  BY Offsets
<1>5. CASE v # "element_mask"
  BY <1>3, <1>4, <1>5 DEF Part
<1>6. CASE v = "element_mask"
  <2> DEFINE a == Offset(h, 5)
             n == h.num_elements
  <2>1. k = 5 /\ Length(h, v) = n
    BY <1>6, VectorsFacts DEF Length
  <2>2. a \in Nat /\ n \in Nat /\ a + n <= Len(cells)
    BY <1>4, <2>1, Offsets DEF Counted
  <2>3. part = SubSeq(cells, a + 1, a + n)
    BY <2>1 DEF Part
  <2>4. \A i \in 1..n : cells[a + i] \in {0, 1}
    OBVIOUS
  <2> HIDE DEF a, n, part, read, v
  <2>5. part \in Seq(Int) /\ DOMAIN part = 1..n
        /\ \A i \in 1..n : part[i] = cells[a + i]
    BY <2>2, <2>3, PartFacts
  <2>6. \A i \in DOMAIN part : part[i] \in {0, 1}
    BY <2>4, <2>5
  <2>7. read = [i \in DOMAIN part |-> part[i] = 1]
    BY <1>3, <1>6
  <2>8. \A i \in DOMAIN part : MaskByte(part[i] = 1) = part[i]
    BY <2>6 DEF MaskByte
  <2>9. [i \in DOMAIN read |-> MaskByte(read[i])]
           = [i \in DOMAIN part |-> MaskByte(part[i] = 1)]
    BY <2>7
  <2>10. [i \in DOMAIN part |-> MaskByte(part[i] = 1)] = part
    <3>1. [i \in DOMAIN part |-> MaskByte(part[i] = 1)]
             = [i \in DOMAIN part |-> part[i]]
      BY <2>8
    <3>2. part = [i \in DOMAIN part |-> part[i]]
      BY <2>5
    <3>3. QED
      BY <3>1, <3>2
  <2>11. [i \in DOMAIN read |-> MaskByte(read[i])] = part
    BY <2>9, <2>10
  <2>12. QED
    BY <1>4, <1>6, <2>11 DEF part, read, v, Part
<1>7. QED
  BY <1>5, <1>6

LEMMA VectorsBack ==
    ASSUME NEW h, Counted(h), NEW cells \in Seq(Int),
           PatternOffset(h) <= Len(cells),
           \A i \in 1..h.num_elements : cells[Offset(h, 5) + i] \in {0, 1}
    PROVE  encode_vectors(unpack_vectors(h, cells))
              = SubSeq(cells, 1, PatternOffset(h))
<1> DEFINE read == unpack_vectors(h, cells)
           written(k) ==
               LET part == read[Vectors[k]]
               IN  IF Vectors[k] = "element_mask"
                   THEN [i \in DOMAIN part |-> MaskByte(part[i])]
                   ELSE part
           s == [k \in DOMAIN Vectors |-> written(k)]
           at == [i \in 0..8 |-> Offset(h, i + 1)]
<1>1. PatternOffset(h) = Offset(h, 9)
  BY VectorsFacts DEF PatternOffset
<1>2. \A k \in 1..8 : /\ Offset(h, k) \in Nat /\ Offset(h, k + 1) \in Nat
                      /\ Offset(h, k) <= Offset(h, k + 1)
  <2> TAKE k \in 1..8
  <2>1. Offset(h, k + 1) = Offset(h, k) + Length(h, Vectors[k])
    BY Offsets
  <2>2. Length(h, Vectors[k]) \in Nat
    BY LengthsAreNat
  <2>3. Offset(h, k) \in Nat
    BY Offsets
  <2>4. QED
    BY <2>1, <2>2, <2>3
<1>3. \A k \in 1..9 : Offset(h, k) \in Nat /\ Offset(h, k) <= Offset(h, 9)
  <2>1. /\ Offset(h, 8) <= Offset(h, 9) /\ Offset(h, 7) <= Offset(h, 8)
        /\ Offset(h, 6) <= Offset(h, 7) /\ Offset(h, 5) <= Offset(h, 6)
        /\ Offset(h, 4) <= Offset(h, 5) /\ Offset(h, 3) <= Offset(h, 4)
        /\ Offset(h, 2) <= Offset(h, 3) /\ Offset(h, 1) <= Offset(h, 2)
    BY <1>2
  <2>2. /\ Offset(h, 1) \in Nat /\ Offset(h, 2) \in Nat
        /\ Offset(h, 3) \in Nat /\ Offset(h, 4) \in Nat
        /\ Offset(h, 5) \in Nat /\ Offset(h, 6) \in Nat
        /\ Offset(h, 7) \in Nat /\ Offset(h, 8) \in Nat
        /\ Offset(h, 9) \in Nat
    BY Offsets
  <2> TAKE k \in 1..9
  <2>3. k = 1 \/ k = 2 \/ k = 3 \/ k = 4 \/ k = 5 \/ k = 6 \/ k = 7 \/ k = 8
        \/ k = 9
    OBVIOUS
  <2>4. QED
    BY <2>1, <2>2, <2>3
<1>4. Len(cells) \in Nat /\ Offset(h, 9) <= Len(cells)
  BY <1>1
<1>5. ASSUME NEW k \in 1..8
      PROVE  s[k] = SubSeq(cells, Offset(h, k) + 1, Offset(h, k + 1))
  <2>1. k + 1 \in 1..9
    OBVIOUS
  <2>2. Offset(h, k + 1) <= Len(cells)
    BY <1>3, <1>4, <2>1
  <2>3. s[k] = written(k)
    BY VectorsFacts
  <2>4. QED
    BY <2>2, <2>3, VectorBack
<1>6. Len(s) = 8
  BY VectorsFacts
<1> HIDE DEF s
<1>7. /\ at[0] = 0 /\ at[8] = Offset(h, 9)
      /\ \A i \in 0..8 : at[i] \in Nat /\ at[i] <= Len(cells)
  <2>1. \A i \in 0..8 : i + 1 \in 1..9 /\ at[i] = Offset(h, i + 1)
    OBVIOUS
  <2>2. at[0] = Offset(h, 1) /\ at[8] = Offset(h, 9)
    BY <2>1
  <2> HIDE DEF at
  <2>3. at[0] = 0 /\ at[8] = Offset(h, 9)
    BY <2>2, Offsets
  <2>4. ASSUME NEW i \in 0..8
        PROVE  at[i] \in Nat /\ at[i] <= Len(cells)
    <3>1. /\ Offset(h, i + 1) \in Nat
          /\ Offset(h, i + 1) <= Offset(h, 9)
      BY <1>3, <2>1
    <3>2. Offset(h, 9) \in Nat
      BY <1>3
    <3>3. QED
      BY <1>4, <2>1, <3>1, <3>2
  <2>5. QED
    BY <2>3, <2>4
<1>8. \A i \in 1..8 : /\ at[i - 1] <= at[i]
                      /\ s[i] = SubSeq(cells, at[i - 1] + 1, at[i])
  <2> TAKE i \in 1..8
  <2>1. at[i - 1] = Offset(h, i) /\ at[i] = Offset(h, i + 1)
    <3>1. i - 1 \in 0..8 /\ i \in 0..8 /\ (i - 1) + 1 = i
      OBVIOUS
    <3>2. QED
      BY <3>1
  <2> HIDE DEF at
  <2>2. QED
    BY <1>2, <1>5, <2>1
<1> HIDE DEF at
<1>9. Parted(cells, 8, s, at)
  <2>1. 8 = 0 => s = <<>>
    OBVIOUS
  <2>2. QED
    BY <1>6, <1>7, <1>8, <2>1 DEF Parted
<1>10. FlattenSeq(s) = SubSeq(cells, 1, at[8])
  BY <1>9, FlattenParts
<1>11. encode_vectors(read) = FlattenSeq(s)
  BY DEF encode_vectors, s
<1>12. QED
  BY <1>1, <1>7, <1>10, <1>11

LEMMA HeaderBack ==
    ASSUME NEW h, NEW words, IsHeader(h, words),
           words \in {CountFields, CountFields \cup {"num_subpackets"}}
    PROVE  Swapped(Swapped(h, words), words) = Rewritten(h)
<1> DEFINE g == Swapped(h, words)
<1>1. /\ words \cap WideFields = {} /\ words \cap AngleFields = {}
      /\ WideFields \cap AngleFields = {}
      /\ "endian" \notin words /\ "endian" \notin WideFields
      /\ "endian" \notin AngleFields
  BY DEF CountFields, WideFields, AngleFields
<1>2. DOMAIN g = DOMAIN h /\ "endian" \in DOMAIN h
  BY DEF Swapped, IsHeader
<1>3. \A f \in DOMAIN h :
          g[f] = CASE f \in words /\ h.endian = "<" -> bswap_32(h[f])
                   [] f \in WideFields /\ h.endian = "<" -> bswap_64(h[f])
                   [] f \in AngleFields /\ h.endian = "<"
                         -> bswap_32_of_64(h[f])
                   [] OTHER -> h[f]
  BY DEF Swapped
<1>4. g.endian = h.endian
  BY <1>1, <1>2, <1>3
<1> HIDE DEF g
<1>5. ASSUME NEW f \in DOMAIN h
      PROVE  Swapped(g, words)[f] = Rewritten(h)[f]
  <2>1. Swapped(g, words)[f]
          = CASE f \in words /\ h.endian = "<" -> bswap_32(g[f])
              [] f \in WideFields /\ h.endian = "<" -> bswap_64(g[f])
              [] f \in AngleFields /\ h.endian = "<" -> bswap_32_of_64(g[f])
              [] OTHER -> g[f]
    BY <1>2, <1>4 DEF Swapped
  <2>2. Rewritten(h)[f] = IF f \in AngleFields /\ h.endian = "<"
                          THEN <<h[f][1], 0>> ELSE h[f]
    BY DEF Rewritten
  <2>3. CASE h.endian # "<"
    BY <1>3, <2>1, <2>2, <2>3
  <2>4. CASE h.endian = "<" /\ f \in words
    <3>1. g[f] = -h[f] /\ h[f] \in Int
      BY <1>1, <1>3, <2>4 DEF bswap_32, IsHeader
    <3>2. Swapped(g, words)[f] = -g[f]
      BY <1>1, <2>1, <2>4 DEF bswap_32
    <3>3. Rewritten(h)[f] = h[f]
      BY <1>1, <2>2, <2>4
    <3>4. QED
      BY <3>1, <3>2, <3>3
  <2>5. CASE h.endian = "<" /\ f \in WideFields
    <3>1. g[f] = <<-h[f][2], -h[f][1]>> /\ h[f] \in Int \X Int
      BY <1>1, <1>3, <2>5 DEF bswap_64, IsHeader
    <3>2. Swapped(g, words)[f] = <<-g[f][2], -g[f][1]>>
      BY <1>1, <2>1, <2>5 DEF bswap_64
    <3>3. Rewritten(h)[f] = h[f]
      BY <1>1, <2>2, <2>5
    <3>4. QED
      BY <3>1, <3>2, <3>3
  <2>6. CASE h.endian = "<" /\ f \in AngleFields
    <3>1. g[f] = <<-h[f][1], 0>> /\ h[f] \in Int \X Int
      BY <1>1, <1>3, <2>6 DEF bswap_32_of_64, bswap_32, IsHeader
    <3>2. Swapped(g, words)[f] = <<-g[f][1], 0>>
      BY <1>1, <2>1, <2>6 DEF bswap_32_of_64, bswap_32
    <3>3. Rewritten(h)[f] = <<h[f][1], 0>>
      BY <2>2, <2>6
    <3>4. QED
      BY <3>1, <3>2, <3>3
  <2>7. CASE f \notin words /\ f \notin WideFields /\ f \notin AngleFields
    BY <1>3, <2>1, <2>2, <2>7
  <2>8. QED
    BY <2>3, <2>4, <2>5, <2>6, <2>7
<1>6. Swapped(g, words) = [f \in DOMAIN h |-> Swapped(g, words)[f]]
  BY <1>2 DEF Swapped
<1>7. Rewritten(h) = [f \in DOMAIN h |-> Rewritten(h)[f]]
  BY DEF Rewritten
<1>8. Swapped(g, words) = Rewritten(h)
  BY <1>5, <1>6, <1>7
<1>9. QED
  BY <1>8 DEF g

LEMMA TransposedTwice ==
    ASSUME NEW S, NEW b \in Nat \ {0}, NEW v \in Nat \ {0},
           NEW m \in Seq(Seq(S)), Len(m) = b, \A i \in 1..b : Len(m[i]) = v
    PROVE  Transposed(Transposed(m)) = m
<1> DEFINE t == Transposed(m)
<1>1. /\ DOMAIN m = 1..b /\ \A i \in 1..b : DOMAIN m[i] = 1..v
      /\ 1 \in 1..b /\ 1 \in 1..v
  OBVIOUS
<1>2. t = [i \in 1..v |-> [j \in 1..b |-> m[j][i]]]
  BY <1>1 DEF Transposed
<1>3. DOMAIN t = 1..v /\ DOMAIN t[1] = 1..b
  BY <1>1, <1>2
<1>4. \A i \in 1..v : \A j \in 1..b : t[i][j] = m[j][i]
  BY <1>2
<1> HIDE DEF t
<1>5. Transposed(t) = [j \in 1..b |-> [i \in 1..v |-> t[i][j]]]
  BY <1>3 DEF Transposed
<1>6. \A j \in 1..b : [i \in 1..v |-> t[i][j]] = m[j]
  <2> TAKE j \in 1..b
  <2>1. [i \in 1..v |-> t[i][j]] = [i \in 1..v |-> m[j][i]]
    BY <1>4
  <2>2. m[j] \in Seq(S) /\ Len(m[j]) = v
    OBVIOUS
  <2>3. m[j] = [i \in 1..v |-> m[j][i]]
    BY <2>2
  <2>4. QED
    BY <2>1, <2>3
<1>7. Transposed(t) = [j \in 1..b |-> m[j]]
  BY <1>5, <1>6
<1>8. m = [j \in 1..b |-> m[j]]
  OBVIOUS
<1>9. QED
  BY <1>7, <1>8 DEF t

(* The beam pattern follows the vectors, to the end of the payload.        *)
LEMMA RestFacts ==
    ASSUME NEW cells \in Seq(Int), NEW p \in Nat, NEW m \in Nat,
           Len(cells) = p + m
    PROVE  LET rest == SubSeq(cells, p + 1, Len(cells))
           IN  /\ rest \in Seq(Int) /\ Len(rest) = m
               /\ \A i \in 1..m : rest[i] = cells[p + i]
               /\ SubSeq(cells, 1, p) \o rest = cells
<1> DEFINE rest == SubSeq(cells, p + 1, Len(cells))
<1>1. /\ rest \in Seq(Int) /\ Len(rest) = m
      /\ \A i \in 1..m : rest[i] = cells[p + i]
  OBVIOUS
<1>2. Len(cells) \in Nat /\ p <= Len(cells)
  OBVIOUS
<1>3. SubSeq(cells, 1, p) \o rest = SubSeq(cells, 1, Len(cells))
  BY <1>2, PartsJoin
<1>4. SubSeq(cells, 1, Len(cells)) = cells
  OBVIOUS
<1>5. QED
  BY <1>1, <1>3, <1>4

LEMMA PayloadFacts ==
    ASSUME NEW h, NEW cells, NEW depth \in Nat, IsPayload(h, cells, depth)
    PROVE  LET p == PatternOffset(h)
               m == h.num_bearings * h.num_elevations * depth
           IN  /\ Counted(h) /\ cells \in Seq(Int)
               /\ p \in Nat /\ m \in Nat /\ Len(cells) = p + m
               /\ encode_vectors(unpack_vectors(h, cells))
                     = SubSeq(cells, 1, p)
<1> DEFINE p == PatternOffset(h)
           m == h.num_bearings * h.num_elevations * depth
<1>1. Counted(h) /\ cells \in Seq(Int)
  BY DEF IsPayload, Counted
<1>2. p \in Nat
  BY <1>1, Offsets, VectorsFacts DEF PatternOffset
<1>3. m \in Nat
  <2>1. h.num_bearings \in Nat /\ h.num_elevations \in Nat
    BY DEF IsPayload
  <2>2. h.num_bearings * h.num_elevations \in Nat
    BY <2>1, NextMultiple
  <2>3. QED
    BY <2>2, NextMultiple
<1>4. Len(cells) = p + m
  BY DEF IsPayload
<1>5. \A i \in 1..h.num_elements : cells[Offset(h, 5) + i] \in {0, 1}
  BY DEF IsPayload
<1>6. PatternOffset(h) <= Len(cells)
  <2> HIDE DEF m
  <2>1. QED
    BY <1>2, <1>3, <1>4
<1>7. encode_vectors(unpack_vectors(h, cells)) = SubSeq(cells, 1, p)
  BY <1>1, <1>5, <1>6, VectorsBack
<1>8. QED
  BY <1>1, <1>2, <1>3, <1>4, <1>7

LEMMA Payload2DBack ==
    ASSUME NEW h, NEW cells, IsPayload(h, cells, 1)
    PROVE  LET data == unpack2D(h, cells)
           IN  encode_vectors(data.vectors)
                  \o FlattenSeq(Transposed(data.beampattern)) = cells
<1> DEFINE p == PatternOffset(h)
           b == h.num_bearings
           v == h.num_elevations
           rest == SubSeq(cells, p + 1, Len(cells))
           table == [i \in 1..b |-> [j \in 1..v |-> cells[p + (i - 1) * v + j]]]
<1>1. b \in Nat \ {0} /\ v \in Nat \ {0} /\ b * v * 1 = b * v
  BY NextMultiple DEF IsPayload
<1>2. /\ p \in Nat /\ b * v \in Nat /\ Len(cells) = p + b * v
      /\ cells \in Seq(Int)
      /\ encode_vectors(unpack_vectors(h, cells)) = SubSeq(cells, 1, p)
  <2>1. 1 \in Nat
    OBVIOUS
  <2>2. QED
    BY <1>1, <2>1, PayloadFacts
<1>3. unpack2D(h, cells) = [vectors |-> unpack_vectors(h, cells),
                            beampattern |-> Transposed(table)]
  BY DEF unpack2D
<1> HIDE DEF p, b, v
<1>4. /\ rest \in Seq(Int) /\ Len(rest) = b * v
      /\ \A i \in 1..(b * v) : rest[i] = cells[p + i]
      /\ SubSeq(cells, 1, p) \o rest = cells
  BY <1>2, RestFacts
<1> HIDE DEF rest
<1>5. ASSUME NEW i \in 1..b, NEW j \in 1..v
      PROVE  /\ table[i][j] = rest[(i - 1) * v + j]
             /\ table[i][j] \in Int
  <2> DEFINE a == (i - 1) * v
             n == b * v
  <2>1. table[i][j] = cells[p + a + j]
    OBVIOUS
  <2>2. a \in Nat /\ a + j \in 1..n
    BY <1>1, CellInTable
  <2> HIDE DEF table
  <2>3. rest[a + j] = cells[p + (a + j)]
    BY <1>4, <2>2
  <2>4. n \in Nat /\ Len(cells) = p + n
    BY <1>2
  <2> HIDE DEF a, n
  <2>5. p + a + j = p + (a + j) /\ p + (a + j) \in 1..Len(cells)
    BY <1>2, <2>2, <2>4
  <2>6. rest[a + j] \in Int
    BY <1>2, <2>3, <2>5
  <2>7. QED
    BY <2>1, <2>3, <2>5, <2>6 DEF a
<1>6. /\ table \in Seq(Seq(Int)) /\ Len(table) = b
      /\ \A i \in 1..b : Len(table[i]) = v
  <2>1. ASSUME NEW i \in 1..b
        PROVE  table[i] \in Seq(Int) /\ Len(table[i]) = v
    <3>1. table[i] = [j \in 1..v |-> table[i][j]]
      OBVIOUS
    <3> HIDE DEF table
    <3>2. \A j \in 1..v : table[i][j] \in Int
      BY <1>5
    <3>3. QED
      BY <1>1, <3>1, <3>2
  <2>2. table = [i \in 1..b |-> table[i]]
    OBVIOUS
  <2> HIDE DEF table
  <2>3. QED
    BY <1>1, <2>1, <2>2
<1> HIDE DEF table
<1>7. FlattenSeq(table) = rest
  <2>1. Columns(rest, b, v, table)
    BY <1>4, <1>5, <1>6 DEF Columns
  <2>2. QED
    BY <1>1, <1>4, <1>6, <2>1, FlattenColumns
<1>8. Transposed(Transposed(table)) = table
  BY <1>1, <1>6, TransposedTwice
<1> DEFINE data == unpack2D(h, cells)
<1>9. /\ data.vectors = unpack_vectors(h, cells)
      /\ data.beampattern = Transposed(table)
  BY <1>3
<1> HIDE DEF data
<1>10. encode_vectors(data.vectors) = SubSeq(cells, 1, p)
  BY <1>2, <1>9
<1>11. FlattenSeq(Transposed(data.beampattern)) = rest
  BY <1>7, <1>8, <1>9
<1>12. QED
  BY <1>4, <1>10, <1>11 DEF data

LEMMA PayloadRawBack ==
    ASSUME NEW h, NEW cells, IsPayload(h, cells, h.num_frequencies)
    PROVE  LET data == unpackRaw(h, cells)
           IN  encode_vectors(data.vectors)
                  \o FlattenSeq(FlattenSeq(data.beampattern)) = cells
<1> DEFINE p == PatternOffset(h)
           b == h.num_bearings
           v == h.num_elevations
           q == h.num_frequencies
           n == b * v
           rest == SubSeq(cells, p + 1, Len(cells))
           cell(m) == [f \in 1..q |-> cells[p + m * q + f]]
           columns == [k \in 1..n |-> cell(k - 1)]
           table == [i \in 1..b |-> [j \in 1..v |-> cell((i - 1) * v + j - 1)]]
<1>1. b \in Nat /\ v \in Nat /\ q \in Nat /\ n \in Nat
  BY NextMultiple DEF IsPayload
<1>2. /\ p \in Nat /\ n * q \in Nat /\ Len(cells) = p + n * q
      /\ cells \in Seq(Int)
      /\ encode_vectors(unpack_vectors(h, cells)) = SubSeq(cells, 1, p)
  BY <1>1, PayloadFacts
<1>3. unpackRaw(h, cells) = [vectors |-> unpack_vectors(h, cells),
                             beampattern |-> table]
  BY DEF unpackRaw
<1> HIDE DEF p, b, v, q
<1>4. /\ rest \in Seq(Int) /\ Len(rest) = n * q
      /\ \A i \in 1..(n * q) : rest[i] = cells[p + i]
      /\ SubSeq(cells, 1, p) \o rest = cells
  <2> HIDE DEF n
  <2>1. QED
    BY <1>2, RestFacts
<1> HIDE DEF rest
<1>5. ASSUME NEW k \in 1..n, NEW f \in 1..q
      PROVE  /\ columns[k][f] = rest[(k - 1) * q + f]
             /\ columns[k][f] \in Int
  <2> DEFINE a == (k - 1) * q
             m == n * q
  <2>1. columns[k][f] = cells[p + a + f]
    OBVIOUS
  <2>2. a \in Nat /\ a + f \in 1..m
    BY <1>1, CellInTable
  <2> HIDE DEF columns
  <2>3. rest[a + f] = cells[p + (a + f)]
    BY <1>4, <2>2
  <2>4. m \in Nat /\ Len(cells) = p + m
    BY <1>2
  <2> HIDE DEF a, m
  <2>5. p + a + f = p + (a + f) /\ p + (a + f) \in 1..Len(cells)
    BY <1>2, <2>2, <2>4
  <2>6. rest[a + f] \in Int
    BY <1>2, <2>3, <2>5
  <2>7. QED
    BY <2>1, <2>3, <2>5, <2>6 DEF a
<1> HIDE DEF n
<1>6. /\ columns \in Seq(Seq(Int)) /\ Len(columns) = n
      /\ \A k \in 1..n : columns[k] \in Seq(Int) /\ Len(columns[k]) = q
  <2>1. ASSUME NEW k \in 1..n
        PROVE  columns[k] \in Seq(Int) /\ Len(columns[k]) = q
    <3>1. columns[k] = [f \in 1..q |-> columns[k][f]]
      OBVIOUS
    <3> HIDE DEF columns
    <3>2. \A f \in 1..q : columns[k][f] \in Int
      BY <1>5
    <3>3. QED
      BY <1>1, <3>1, <3>2
  <2>2. columns = [k \in 1..n |-> columns[k]]
    OBVIOUS
  <2> HIDE DEF columns
  <2>3. QED
    BY <1>1, <2>1, <2>2
<1>7. ASSUME NEW i \in 1..b, NEW j \in 1..v
      PROVE  /\ table[i][j] = columns[(i - 1) * v + j]
             /\ table[i][j] \in Seq(Int)
  <2> DEFINE k == (i - 1) * v + j
  <2>1. k \in 1..n
    BY <1>1, CellInTable DEF n
  <2>2. table[i][j] = cell(k - 1)
    <3> HIDE DEF cell
    <3>1. table[i][j] = cell((i - 1) * v + (j - 1))
      OBVIOUS
    <3> DEFINE a == (i - 1) * v
    <3>2. a \in Nat
      BY <1>1, CellInTable
    <3> HIDE DEF a
    <3>3. a + (j - 1) = (a + j) - 1
      BY <3>2
    <3>4. QED
      BY <3>1, <3>3 DEF a
  <2> HIDE DEF table, k
  <2>3. columns[k] = cell(k - 1)
    BY <2>1
  <2> HIDE DEF columns, cell
  <2>4. table[i][j] = columns[k] /\ columns[k] \in Seq(Int)
    BY <1>6, <2>1, <2>2, <2>3
  <2>5. QED
    BY <2>4 DEF k
<1>8. /\ table \in Seq(Seq(Seq(Int))) /\ Len(table) = b
      /\ \A i \in 1..b : Len(table[i]) = v
  <2>1. ASSUME NEW i \in 1..b
        PROVE  table[i] \in Seq(Seq(Int)) /\ Len(table[i]) = v
    <3>1. table[i] = [j \in 1..v |-> table[i][j]]
      OBVIOUS
    <3> HIDE DEF table
    <3>2. \A j \in 1..v : table[i][j] \in Seq(Int)
      BY <1>7
    <3>3. QED
      BY <1>1, <3>1, <3>2
  <2>2. table = [i \in 1..b |-> table[i]]
    OBVIOUS
  <2> HIDE DEF table
  <2>3. QED
    BY <1>1, <2>1, <2>2
<1> HIDE DEF table, columns
<1>9. FlattenSeq(columns) = rest
  <2>1. Columns(rest, n, q, columns)
    BY <1>4, <1>5, <1>6 DEF Columns
  <2>2. QED
    BY <1>1, <1>4, <1>6, <2>1, FlattenColumns
<1>10. FlattenSeq(table) = columns
  <2>1. Columns(columns, b, v, table)
    BY <1>6, <1>7, <1>8 DEF Columns, n
  <2>2. QED
    BY <1>1, <1>6, <1>8, <2>1, FlattenColumns
<1> DEFINE data == unpackRaw(h, cells)
<1>11. data.vectors = unpack_vectors(h, cells) /\ data.beampattern = table
  BY <1>3
<1> HIDE DEF data
<1>12. encode_vectors(data.vectors) = SubSeq(cells, 1, p)
  BY <1>2, <1>11
<1>13. FlattenSeq(FlattenSeq(data.beampattern)) = rest
  BY <1>9, <1>10, <1>11
<1>14. QED
  BY <1>4, <1>12, <1>13 DEF data

LEMMA Beam2DBack ==
    ASSUME NEW d \in Received, d.id = "ACB2", d.size >= BeamHeaderSize(d.id)
    PROVE  encode2D(UdpBeamform2D(d)) = [header |-> Rewritten(d.header),
                                         payload |-> d.payload]
<1> DEFINE h == decode_header2D(d.header)
           o == UdpBeamform2D(d)
<1>1. IsHeader(d.header, CountFields) /\ IsPayload(h, d.payload, 1)
  BY BeamsAssumption DEF IsBeam2D
<1>2. o.header = h /\ o.data = unpack2D(h, d.payload)
  BY DEF UdpBeamform2D
<1>3. encode_header2D(h) = Rewritten(d.header)
  BY <1>1, HeaderBack DEF encode_header2D, decode_header2D
<1> HIDE DEF h, o
<1>4. encode_vectors(o.data.vectors) \o FlattenSeq(Transposed(o.data.beampattern))
        = d.payload
  BY <1>1, <1>2, Payload2DBack
<1>5. QED
  BY <1>2, <1>3, <1>4 DEF encode2D, o

LEMMA BeamRawBack ==
    ASSUME NEW d \in Received, d.id = "ACBR", d.size >= BeamHeaderSize(d.id)
    PROVE  IF UdpBeamformRaw(d).header.num_subpackets = 1
           THEN encodeRaw(UdpBeamformRaw(d))
                  = [header |-> Rewritten(d.header), payload |-> d.payload]
           ELSE UdpBeamformRaw(d).data = NoBeam
<1> DEFINE h == decode_headerRaw(d.header)
           o == UdpBeamformRaw(d)
<1>1. /\ IsHeader(d.header, CountFields \cup {"num_subpackets"})
      /\ h.num_subpackets = 1 => IsPayload(h, d.payload, h.num_frequencies)
  BY BeamsAssumption DEF IsBeamRaw
<1>2. /\ o.header = h
      /\ o.data = IF h.num_subpackets = 1 THEN unpackRaw(h, d.payload)
                  ELSE NoBeam
  BY DEF UdpBeamformRaw
<1>3. encode_headerRaw(h) = Rewritten(d.header)
  BY <1>1, HeaderBack DEF encode_headerRaw, decode_headerRaw
<1> HIDE DEF h, o
<1>4. CASE h.num_subpackets = 1
  <2>1. encode_vectors(o.data.vectors)
          \o FlattenSeq(FlattenSeq(o.data.beampattern)) = d.payload
    BY <1>1, <1>2, <1>4, PayloadRawBack
  <2>2. QED
    BY <1>2, <1>3, <1>4, <2>1 DEF encodeRaw, o
<1>5. CASE h.num_subpackets # 1
  BY <1>2, <1>5 DEF o
<1>6. QED
  BY <1>4, <1>5

LEMMA BeamsKeepTheirDatagram ==
    ASSUME NEW d
    PROVE  UdpBeamform2D(d).of = d /\ UdpBeamformRaw(d).of = d
BY DEF UdpBeamform2D, UdpBeamformRaw

(* A beam in one datagram is read and written without loss, whatever the   *)
(* counts in its header and the values in its payload: every offset, the   *)
(* order of vectors and pattern, and each swap of bytes in decode is undone*)
(* by encode, but for the half of each angle that decode itself loses.  A  *)
(* raw frame is read only if it is in one packet: a primary packet of more *)
(* has no data when it is pushed.                                          *)
THEOREM BeamsAreEncodedBack == SocketSpec => []BeamsEncodeBack
<1>1. SocketInv /\ MadeInv => BeamsEncodeBack
  <2> SUFFICES ASSUME SocketInv, MadeInv,
                      NEW l \in {"beam2d", "beamraw"}, NEW o \in Objects(l),
                      o.of.size >= BeamHeaderSize(o.of.id)
               PROVE  IF l = "beam2d"
                      THEN encode2D(o) = [header |-> Rewritten(o.of.header),
                                          payload |-> o.of.payload]
                      ELSE IF o.header.num_subpackets = 1
                      THEN encodeRaw(o) = [header |-> Rewritten(o.of.header),
                                           payload |-> o.of.payload]
                      ELSE o.data = NoBeam
    BY DEF BeamsEncodeBack
  <2>1. PICK i \in DOMAIN handed[l] : o = handed[l][i]
    BY DEF Objects
  <2>2. l \in Lists /\ i \in 1..Len(handed[l])
    <3>1. l \in Lists
      BY ListsFacts
    <3>2. handed[l] \in Seq(AllObjects)
      BY <3>1, MemberTypes
    <3>3. QED
      BY <2>1, <3>1, <3>2, SeqFacts
  <2>3. FromDatagram(l, o)
    BY <2>1, <2>2 DEF MadeInv
  <2>4. CASE l = "beam2d"
    <3>1. PICK d \in Received : d.id = "ACB2" /\ o = UdpBeamform2D(d)
      BY <2>3, <2>4 DEF FromDatagram
    <3>2. o.of = d
      BY <3>1, BeamsKeepTheirDatagram
    <3>3. QED
      BY <2>4, <3>1, <3>2, Beam2DBack
  <2>5. CASE l = "beamraw"
    <3>1. PICK d \in Received : d.id = "ACBR" /\ o = UdpBeamformRaw(d)
      BY <2>3, <2>5 DEF FromDatagram
    <3>2. o.of = d
      BY <3>1, BeamsKeepTheirDatagram
    <3>3. QED
      BY <2>5, <3>1, <3>2, BeamRawBack
  <2>6. QED
    BY <2>4, <2>5
<1>2. QED
  BY <1>1, SocketInitInv, SocketNextInv, MadeInit, MadeNext, PTL
  DEF SocketSpec
==========================================================================
