-------------------------- MODULE BeamReassembly -------------------------
(* Raw beamformer frames: the device splits a frame into a primary ACBR    *)
(* datagram and continuation ACBC datagrams; the socket thread             *)
(* (utils/UdpSocketIn.cpp) puts them together again in a UdpBeamformRaw    *)
(* and pushes it to the clients.  UDP may lose, repeat and reorder them.   *)
(*                                                                         *)
(* The content of subpacket i of frame f is the pair <<f, i>>.  Undefined  *)
(* behaviour of the code ends the behaviour in status "undefined".         *)
EXTENDS Integers, Sequences, FiniteSets

CONSTANTS
    NumSubpackets,  \* for each frame the device sends, into how many parts
    MinCopies,      \* the network delivers a datagram at least so often
    MaxCopies,      \* ... and at most so often
    Overtake        \* how many older datagrams one may overtake

ASSUME FramesAssumption == NumSubpackets \in Seq(Nat \ {0})
ASSUME NetworkAssumption ==
    MinCopies \in Nat /\ MaxCopies \in Nat /\ Overtake \in Nat

VARIABLES
    unsent,     \* the datagram the device sends next
    net,        \* how many copies of each datagram are in flight
    beam_raw_0, \* the frame being assembled, or NoFrame
    beams,      \* history: what has been pushed to v_q_beamraw, as pushed
    seen,       \* history: datagrams received since beam_raw_0 was created
    status      \* "running" or "undefined"

beamVars == <<unsent, net, beam_raw_0, beams, seen, status>>

Frames == 1..Len(NumSubpackets)
Indices(f) == 0..(NumSubpackets[f] - 1)

(* packet_num identifies the frame; index is what the header calls         *)
(* num_subpackets in a continuation packet.                                *)
Datagram(f, i) == [packet_num |-> f, index |-> i]
Datagrams == UNION {{Datagram(f, i) : i \in Indices(f)} : f \in Frames}
Content(m) == <<m.packet_num, m.index>>
Blank == <<>>

Older(d, m) ==
    \/ d.packet_num < m.packet_num
    \/ d.packet_num = m.packet_num /\ d.index < m.index

(* A UdpBeamformRaw; header.num_subpackets is NumSubpackets[packet_num].   *)
Beam(f, parts, held, joined) ==
    [packet_num |-> f, binary_payload |-> parts,
     binary_payload_indices |-> held, data |-> joined]

NoFrame == Beam(0, <<>>, {}, <<>>)

BeamTypeOK ==
    /\ unsent \in Datagrams \cup {Datagram(Len(NumSubpackets) + 1, 0)}
    /\ net \in [Datagrams -> Nat]
    /\ beam_raw_0.packet_num \in Frames \cup {0}
    /\ beams \in Seq([packet_num : Frames, data : Seq(Frames \X Nat)])
    /\ seen \subseteq Datagrams
    /\ status \in {"running", "undefined"}

BeamInit ==
    /\ unsent = Datagram(1, 0)
    /\ net = [d \in Datagrams |-> 0]
    /\ beam_raw_0 = NoFrame
    /\ beams = <<>>
    /\ seen = {}
    /\ status = "running"

--------------------------------------------------------------------------
(* UdpBeamformRaw.                                                         *)

UnpackOnLastIndex(f, parts, held) ==    \* mutant: the end is taken for all
    IF NumSubpackets[f] - 1 \in held
    THEN Beam(f, <<>>, {}, [i \in 1..NumSubpackets[f] |-> parts[i - 1]])
    ELSE Beam(f, parts, held, <<>>)

(* Once every part is in, join the parts and drop the buffers.             *)
unpack_data(f, parts, held) ==
    IF Cardinality(held) = NumSubpackets[f]
    THEN Beam(f, <<>>, {}, [i \in 1..NumSubpackets[f] |-> parts[i - 1]])
    ELSE Beam(f, parts, held, <<>>)

Complete(p) == p.data # <<>>

(* The constructor, on a primary packet: room for all parts, one filled.   *)
PrimaryShort(m) ==          \* mutant: room for one part too few
    LET f == m.packet_num
    IN  unpack_data(f, [i \in 0..(NumSubpackets[f] - 2) |->
                           IF i = 0 THEN Content(m) ELSE Blank], {0})

Primary(m) ==
    LET f == m.packet_num
    IN  unpack_data(f, [i \in Indices(f) |->
                           IF i = 0 THEN Content(m) ELSE Blank], {0})

(* add_cont_packet on a part not yet held.                                 *)
AddUnpacksOnLast(p, m) ==   \* mutant: the last part is taken as the end
    LET parts == [p.binary_payload EXCEPT ![m.index] = Content(m)]
        held == p.binary_payload_indices \cup {m.index}
    IN  IF m.index = NumSubpackets[p.packet_num] - 1
        THEN unpack_data(p.packet_num, parts, held)
        ELSE Beam(p.packet_num, parts, held, <<>>)

add_cont_packet(p, m) ==
    unpack_data(p.packet_num,
                [p.binary_payload EXCEPT ![m.index] = Content(m)],
                p.binary_payload_indices \cup {m.index})

--------------------------------------------------------------------------
(* The device and the network.                                             *)

Send ==
    /\ unsent \in Datagrams
    /\ \E copies \in MinCopies..MaxCopies :
          net' = [net EXCEPT ![unsent] = copies]
    /\ unsent' =
          IF unsent.index + 1 \in Indices(unsent.packet_num)
          THEN Datagram(unsent.packet_num, unsent.index + 1)
          ELSE Datagram(unsent.packet_num + 1, 0)
    /\ UNCHANGED <<beam_raw_0, beams, seen, status>>

(* One of the oldest datagrams in flight is the next to arrive.            *)
Arrives(m) ==
    /\ net[m] > 0
    /\ Cardinality({d \in Datagrams : net[d] > 0 /\ Older(d, m)}) <= Overtake
    /\ net' = [net EXCEPT ![m] = @ - 1]

--------------------------------------------------------------------------
(* The socket thread.                                                      *)

Push(p) == beams' = Append(beams, [packet_num |-> p.packet_num, data |-> p.data])

(* case ACBR: a new frame takes the place of the old one, and is pushed at *)
(* once, complete or not (a device's start_time_nsec is not negative).     *)
RecvPrimary(m) ==
    /\ m.index = 0
    /\ beam_raw_0' = Primary(m)
    /\ Push(beam_raw_0')
    /\ seen' = {m}
    /\ UNCHANGED status

(* Continuations of the current frame, and parts of it already held.       *)
BelongsToAny(m) == beam_raw_0 # NoFrame     \* mutant: packet_num not compared

Belongs(m) == beam_raw_0 # NoFrame /\ m.packet_num = beam_raw_0.packet_num

Held(m) == m.index \in beam_raw_0.binary_payload_indices

(* case ACBC.  The header of beam_raw_0 is read through its pointer, which *)
(* is null before the first primary, and a part is stored with operator[], *)
(* which is out of bounds once the buffers have been dropped.              *)
Store(m) ==
    /\ Belongs(m)
    /\ ~Held(m)
    /\ m.index \in DOMAIN beam_raw_0.binary_payload
    /\ beam_raw_0' = add_cont_packet(beam_raw_0, m)
    /\ IF Complete(beam_raw_0') THEN Push(beam_raw_0') ELSE UNCHANGED beams
    /\ seen' = seen \cup {m}
    /\ UNCHANGED status

Ignore(m) ==
    /\ beam_raw_0 # NoFrame
    /\ Belongs(m) => Held(m)
    /\ UNCHANGED <<beam_raw_0, beams, seen, status>>

Undefined(m) ==
    /\ \/ beam_raw_0 = NoFrame
       \/ /\ Belongs(m)
          /\ ~Held(m)
          /\ m.index \notin DOMAIN beam_raw_0.binary_payload
    /\ status' = "undefined"
    /\ UNCHANGED <<beam_raw_0, beams, seen>>

RecvContinuation(m) ==
    /\ m.index > 0
    /\ Store(m) \/ Ignore(m) \/ Undefined(m)

Recv(m) ==
    /\ status = "running"
    /\ Arrives(m)
    /\ RecvPrimary(m) \/ RecvContinuation(m)
    /\ UNCHANGED unsent

BeamNext == Send \/ \E m \in Datagrams : Recv(m)

BeamSpec == BeamInit /\ [][BeamNext]_beamVars

--------------------------------------------------------------------------
(* Properties.                                                             *)

WholeFrame(f) == [i \in 1..NumSubpackets[f] |-> <<f, i - 1>>]

(* Whatever the network did, data handed to the clients is one whole frame *)
(* with its parts in index order: never a mixture, a gap or a repeat.      *)
PayloadIntact ==
    \A j \in DOMAIN beams :
        beams[j].data # <<>> => beams[j].data = WholeFrame(beams[j].packet_num)

(* A frame all of whose parts arrived since its primary did is complete    *)
(* and has been pushed.                                                    *)
CompleteOnceAllArrived ==
    (status = "running" /\ beam_raw_0 # NoFrame
        /\ \A i \in Indices(beam_raw_0.packet_num) :
              \E m \in seen : m.packet_num = beam_raw_0.packet_num
                                /\ m.index = i)
    => /\ Complete(beam_raw_0)
       /\ beams[Len(beams)] = [packet_num |-> beam_raw_0.packet_num,
                         data |-> WholeFrame(beam_raw_0.packet_num)]

(* The code leaves defined behaviour only for a continuation that comes    *)
(* before every primary, or one repeated after its frame was completed.    *)
UndefinedOnlyFirstOrRepeated ==
    status = "undefined" => (beam_raw_0 = NoFrame \/ Complete(beam_raw_0))

(* "if primary packet is complete, add it to queue for downstream clients" *)
(* and "clear these when data has been successfully parsed, ie before      *)
(* passing this packet into a processing queue": what is pushed has been   *)
(* assembled and parsed.                                                   *)
OnlyCompleteFramesQueued == \A j \in DOMAIN beams : beams[j].data # <<>>
==========================================================================
